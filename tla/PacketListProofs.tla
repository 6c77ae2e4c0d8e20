-------------------------- MODULE PacketListProofs --------------------------
(***************************************************************************)
(* Theorems about the packet lists, for every size of a list, all packets  *)
(* and all times: the links lose no node, and the list implements the      *)
(* queue that its users count on.  Then about two of these users: about    *)
(* Uplink, for every modulus of the numbers, every window of the ground    *)
(* and of the receiver, every number of commands and of frames on the way; *)
(* and about Downlink, for every size of a frame, all lengths of packets,  *)
(* every modulus of the frame counter and every number of packets.         *)
(***************************************************************************)
EXTENDS Uplink, Downlink, CommonLemmas

(***************************************************************************)
(* The links.  The nodes are always in one of two lists without branches:  *)
(* a, the active nodes from head to tail, and b, the free ones.            *)
(***************************************************************************)

\* s has the nodes of a list, from its head to the node without a successor.
Linked(first, s) ==
    /\ s \in Seq(Nodes)
    /\ first = IF s = <<>> THEN NULL ELSE s[1]
    /\ \A i \in 1..Len(s) : next[s[i]] = IF i = Len(s) THEN NULL ELSE s[i + 1]

Distinct(s) == \A i, j \in 1..Len(s) : s[i] = s[j] => i = j
Apart(a, b) == \A i \in 1..Len(a), j \in 1..Len(b) : a[i] # b[j]

\* No node is lost, none is in both lists, and head, tail and length are those of the active list.
Lists(a, b) ==
    /\ use \in Uses
    /\ Linked(activeHead, a) /\ Linked(inactiveHead, b)
    /\ Distinct(a) /\ Distinct(b) /\ Apart(a, b)
    /\ Len(a) + Len(b) = Size[use]
    /\ activeNodes = Len(a)
    /\ activeTail = IF a = <<>> THEN NULL ELSE a[Len(a)]

Stored ==
    /\ DOMAIN next = Nodes
    /\ packet \in [Nodes -> Packets[use]]

ListInv == Stored /\ \E a, b : Lists(a, b)

\* The packets in the nodes of a.
PacketsOf(a) == [k \in 1..Len(a) |-> packet[a[k]]]

-----------------------------------------------------------------------------
\* Following the links from the head k - 1 times leads to the k-th node.
LEMMA NodeAtIs ==
    ASSUME NEW first, NEW s, use \in Uses, Linked(first, s), NEW k \in 1..Len(s)
    PROVE  NodeAt(first, k) = s[k]
<1> DEFINE Follow(f, i) == IF i = 1 THEN first ELSE IF f[i - 1] = NULL THEN NULL ELSE next[f[i - 1]]
           Body(f) == [i \in 1..k |-> Follow(f, i)]
           at == CHOOSE f : f = Body(f)
           g == [i \in 1..k |-> s[i]]
<1>1. s \in Seq(Nodes) /\ Len(s) \in Nat /\ k \in Nat /\ k <= Len(s) /\ s # <<>>
  BY DEF Linked
<1>2. \A i \in 1..Len(s) : s[i] \in Nodes /\ s[i] # NULL
  <2>1. \A i \in 1..Len(s) : s[i] \in Nodes
    BY <1>1, ElementOfSeq
  <2>2. NULL \notin Nodes
    BY <1>1, ListAssumption DEF Nodes
  <2> QED BY <2>1, <2>2
<1>3. g = Body(g)
  <2>1. ASSUME NEW i \in 1..k PROVE s[i] = Follow(g, i)
    <3>1. CASE i = 1
      BY <1>1, <3>1 DEF Linked
    <3>2. CASE i # 1
      <4>1. i - 1 \in 1..k /\ i - 1 \in 1..Len(s) /\ i - 1 # Len(s) /\ (i - 1) + 1 = i
        BY <1>1, <3>2
      <4>2. next[s[i - 1]] = s[i] /\ s[i - 1] # NULL
        BY <4>1, <1>2 DEF Linked
      <4> QED BY <3>2, <4>1, <4>2
    <3> QED BY <3>1, <3>2
  <2> HIDE DEF Follow
  <2> QED BY <2>1
<1>4. at = Body(at)
  <2> HIDE DEF Body
  <2> QED BY <1>3
<1>5. NodeAt(first, k) = at[k]
  BY DEF NodeAt
<1> HIDE DEF at
<1>6. \A i \in 1..k : at[i] = Follow(at, i) /\ g[i] = Follow(g, i)
  <2> HIDE DEF Follow, g
  <2> QED BY <1>3, <1>4
<1> DEFINE S == {i \in Nat : i \in 1..k => at[i] = g[i]}
<1>7. 0 \in S
  OBVIOUS
<1>8. ASSUME NEW i \in Nat, i \in S PROVE i + 1 \in S
  <2> SUFFICES ASSUME i + 1 \in 1..k PROVE at[i + 1] = g[i + 1]
    OBVIOUS
  <2>1. at[i + 1] = Follow(at, i + 1) /\ g[i + 1] = Follow(g, i + 1)
    BY <1>6
  <2>2. (i + 1) - 1 = i /\ (i + 1 # 1 => i \in 1..k)
    OBVIOUS
  <2>3. i + 1 # 1 => at[i] = g[i]
    BY <2>2, <1>8
  <2> HIDE DEF g
  <2> QED BY <2>1, <2>2, <2>3
<1> HIDE DEF S
<1>9. \A i \in Nat : i \in S
  BY <1>7, <1>8, NatSetInduction
<1>10. at[k] = g[k]
  <2>1. k \in S /\ k \in 1..k
    BY <1>1, <1>9
  <2> QED BY <2>1 DEF S
<1> QED BY <1>1, <1>5, <1>10

\* What the queue is of which the links are the implementation.
LEMMA QueueIs ==
    \A a, b : Lists(a, b) => [k \in 1..activeNodes |-> packet[NodeAt(activeHead, k)]] = PacketsOf(a)
<1> SUFFICES ASSUME NEW a, NEW b, Lists(a, b)
             PROVE  [k \in 1..activeNodes |-> packet[NodeAt(activeHead, k)]] = PacketsOf(a)
  OBVIOUS
<1>1. activeNodes = Len(a) /\ Linked(activeHead, a) /\ use \in Uses
  BY DEF Lists
<1>2. \A k \in 1..Len(a) : NodeAt(activeHead, k) = a[k]
  BY <1>1, NodeAtIs
<1> QED BY <1>1, <1>2 DEF PacketsOf


-----------------------------------------------------------------------------
\* What Lists says, for a proof about the next state.
LEMMA ListFacts ==
    ASSUME NEW a, NEW b, Lists(a, b)
    PROVE  /\ a \in Seq(Nodes) /\ b \in Seq(Nodes) /\ Len(a) \in Nat /\ Len(b) \in Nat
           /\ \A i \in 1..Len(a) : a[i] \in Nodes /\ a[i] # NULL
           /\ \A i \in 1..Len(b) : b[i] \in Nodes /\ b[i] # NULL
           /\ Len(a) + Len(b) = Size[use] /\ Size[use] \in Nat \ {0}
           /\ a = <<>> <=> Len(a) = 0
           /\ b = <<>> <=> Len(b) = 0
           /\ activeHead = NULL <=> a = <<>>
           /\ activeTail = NULL <=> a = <<>>
           /\ inactiveHead = NULL <=> b = <<>>
<1>1. a \in Seq(Nodes) /\ b \in Seq(Nodes)
  BY DEF Lists, Linked
<1>2. Size[use] \in Nat \ {0} /\ NULL \notin Nodes
  BY ListAssumption DEF Lists, Nodes
<1>3. \A i \in 1..Len(a) : a[i] \in Nodes /\ a[i] # NULL
  BY <1>1, <1>2, ElementOfSeq
<1>4. \A i \in 1..Len(b) : b[i] \in Nodes /\ b[i] # NULL
  BY <1>1, <1>2, ElementOfSeq
<1>5. /\ Len(a) \in Nat /\ Len(b) \in Nat
      /\ a = <<>> <=> Len(a) = 0
      /\ b = <<>> <=> Len(b) = 0
  BY <1>1
<1>6. /\ a # <<>> => 1 \in 1..Len(a) /\ Len(a) \in 1..Len(a)
      /\ b # <<>> => 1 \in 1..Len(b)
  BY <1>5
<1>7. activeHead = NULL <=> a = <<>>
  BY <1>3, <1>6 DEF Lists, Linked
<1>8. activeTail = NULL <=> a = <<>>
  BY <1>3, <1>6 DEF Lists
<1>9. inactiveHead = NULL <=> b = <<>>
  BY <1>4, <1>6 DEF Lists, Linked
<1> QED BY <1>1, <1>2, <1>3, <1>4, <1>5, <1>7, <1>8, <1>9 DEF Lists

\* A node in the list is no other one.
LEMMA NodesApart ==
    ASSUME NEW a, NEW b, Lists(a, b)
    PROVE  /\ \A i, j \in 1..Len(a) : a[i] = a[j] => i = j
           /\ \A i, j \in 1..Len(b) : b[i] = b[j] => i = j
           /\ \A i \in 1..Len(a) : \A j \in 1..Len(b) : a[i] # b[j]
  BY DEF Lists, Distinct, Apart

\* The links: of a at its node p, of b at its first node.
LEMMA LinksOf ==
    ASSUME NEW a, NEW b, Lists(a, b)
    PROVE  /\ activeHead = IF a = <<>> THEN NULL ELSE a[1]
           /\ activeTail = IF a = <<>> THEN NULL ELSE a[Len(a)]
           /\ inactiveHead = IF b = <<>> THEN NULL ELSE b[1]
           /\ \A i \in 1..Len(a) : next[a[i]] = IF i = Len(a) THEN NULL ELSE a[i + 1]
           /\ \A i \in 1..Len(b) : next[b[i]] = IF i = Len(b) THEN NULL ELSE b[i + 1]
           /\ activeNodes = Len(a) /\ use \in Uses
  BY DEF Lists, Linked

\* The first free node becomes the p-th active one.
NodeInserted(a, b, p) ==
    /\ b # <<>> /\ p \in 1..(Len(a) + 1)
    /\ inactiveHead' = next[inactiveHead]
    /\ activeNodes' = activeNodes + 1
    /\ use' = use
    /\ next' = [n \in Nodes |-> IF n = b[1] THEN (IF p > Len(a) THEN NULL ELSE a[p])
                                ELSE IF p > 1 /\ n = a[p - 1] THEN b[1] ELSE next[n]]
    /\ activeHead' = IF p = 1 THEN b[1] ELSE activeHead
    /\ activeTail' = IF p > Len(a) THEN b[1] ELSE activeTail

\* The new lists are the active one with the node at its place and the free one without it.
LEMMA InsertNode ==
    ASSUME NEW a, NEW b, NEW p, Lists(a, b), NodeInserted(a, b, p)
    PROVE  Lists(InsertAt(a, p, b[1]), Tail(b))'
<1> DEFINE n == Len(a)
           m == Len(b)
           c == InsertAt(a, p, b[1])
           d == Tail(b)
<1>1. /\ a \in Seq(Nodes) /\ b \in Seq(Nodes) /\ n \in Nat /\ m \in Nat /\ m # 0
      /\ p \in 1..(n + 1) /\ p \in Nat /\ n + m = Size[use] /\ activeNodes = n
  BY ListFacts, LinksOf DEF NodeInserted
<1>2. /\ \A i \in 1..n : a[i] \in Nodes
      /\ \A i \in 1..m : b[i] \in Nodes
      /\ 1 \in 1..m
  BY <1>1, ListFacts
<1>3. c \in Seq(Nodes) /\ Len(c) = n + 1
      /\ \A i \in 1..(n + 1) : c[i] = IF i < p THEN a[i] ELSE IF i = p THEN b[1] ELSE a[i - 1]
  <2>1. b[1] \in Nodes /\ p \in 1..(Len(a) + 1) /\ a \in Seq(Nodes)
    BY <1>1, <1>2
  <2>2. /\ InsertAt(a, p, b[1]) \in Seq(Nodes) /\ Len(InsertAt(a, p, b[1])) = Len(a) + 1
        /\ \A i \in 1..(Len(a) + 1) : InsertAt(a, p, b[1])[i] =
                IF i < p THEN a[i] ELSE IF i = p THEN b[1] ELSE a[i - 1]
    <3> HIDE DEF c, d, n, m
    <3> DEFINE S == Nodes
               e == b[1]
    <3>1. a \in Seq(S) /\ e \in S /\ p \in 1..(Len(a) + 1)
      BY <2>1
    <3> HIDE DEF S, e
    <3>2. /\ InsertAt(a, p, e) \in Seq(S) /\ Len(InsertAt(a, p, e)) = Len(a) + 1
          /\ \A i \in 1..(Len(a) + 1) : InsertAt(a, p, e)[i] =
                IF i < p THEN a[i] ELSE IF i = p THEN e ELSE a[i - 1]
      BY <3>1, InsertAtProperties
    <3> QED BY <3>2 DEF S, e
  <2> QED BY <2>2
<1>4. d \in Seq(Nodes) /\ Len(d) = m - 1 /\ \A i \in 1..(m - 1) : d[i] = b[i + 1]
  BY <1>1, ListFacts, HeadTailProperties
<1>5. /\ \A i, j \in 1..n : a[i] = a[j] => i = j
      /\ \A i, j \in 1..m : b[i] = b[j] => i = j
      /\ \A i \in 1..n : \A j \in 1..m : a[i] # b[j]
  BY NodesApart
<1>6. /\ activeHead = IF a = <<>> THEN NULL ELSE a[1]
      /\ activeTail = IF a = <<>> THEN NULL ELSE a[n]
      /\ inactiveHead = b[1]
      /\ \A i \in 1..n : next[a[i]] = IF i = n THEN NULL ELSE a[i + 1]
      /\ \A i \in 1..m : next[b[i]] = IF i = m THEN NULL ELSE b[i + 1]
  BY LinksOf DEF NodeInserted
<1>7. /\ inactiveHead' = next[inactiveHead] /\ activeNodes' = activeNodes + 1 /\ use' = use
      /\ \A k \in Nodes : next'[k] = IF k = b[1] THEN (IF p > n THEN NULL ELSE a[p])
                                     ELSE IF p > 1 /\ k = a[p - 1] THEN b[1] ELSE next[k]
      /\ activeHead' = IF p = 1 THEN b[1] ELSE activeHead
      /\ activeTail' = IF p > n THEN b[1] ELSE activeTail
  BY DEF NodeInserted
<1>8. Nodes' = Nodes
  BY <1>7 DEF Nodes
<1>9. a = <<>> <=> n = 0
  BY ListFacts
<1> HIDE DEF c, d, n, m
<1>10. c # <<>> /\ (d = <<>> <=> m = 1)
  BY <1>1, <1>3, <1>4
<1>11. activeHead' = c[1] /\ activeTail' = c[n + 1]
  <2>1. 1 \in 1..(n + 1) /\ n + 1 \in 1..(n + 1)
    BY <1>1
  <2>2. activeHead' = c[1]
    <3>1. CASE p = 1
      BY <1>1, <1>3, <1>7, <2>1, <3>1
    <3>2. CASE p # 1
      BY <1>1, <1>3, <1>6, <1>7, <1>9, <2>1, <3>2
    <3> QED BY <3>1, <3>2
  <2>3. activeTail' = c[n + 1]
    <3>1. CASE p > n
      BY <1>1, <1>3, <1>7, <2>1, <3>1
    <3>2. CASE ~(p > n)
      <4>1. n + 1 > p /\ (n + 1) - 1 = n /\ n # 0
        BY <1>1, <3>2
      <4>2. c[n + 1] = a[n]
        BY <1>1, <1>3, <2>1, <4>1
      <4> QED BY <1>6, <1>7, <1>9, <3>2, <4>1, <4>2
    <3> QED BY <3>1, <3>2
  <2> QED BY <2>2, <2>3
<1>12. ASSUME NEW i \in 1..(n + 1)
       PROVE  next'[c[i]] = IF i = n + 1 THEN NULL ELSE c[i + 1]
  <2>0. i # n + 1 => i + 1 \in 1..(n + 1)
    BY <1>1
  <2>1. CASE i = p
    <3>1. c[i] = b[1] /\ b[1] \in Nodes
      BY <1>2, <1>3, <2>1, <1>1
    <3>2. next'[c[i]] = IF p > n THEN NULL ELSE a[p]
      BY <1>7, <3>1
    <3>3. p > n <=> i = n + 1
      BY <1>1, <2>1
    <3>4. i # n + 1 => c[i + 1] = a[p]
      <4>1. ~(i + 1 < p) /\ i + 1 # p /\ (i + 1) - 1 = p
        BY <1>1, <2>1
      <4> QED BY <1>3, <2>0, <4>1
    <3> QED BY <3>2, <3>3, <3>4
  <2>2. CASE i < p
    <3>1. i \in 1..n /\ c[i] = a[i] /\ i # n + 1
      BY <1>1, <1>3, <2>2
    <3>2. a[i] # b[1] /\ a[i] \in Nodes
      BY <1>2, <1>5, <3>1
    <3>3. p > 1 /\ p - 1 \in 1..n
      BY <1>1, <2>2, <3>1
    <3>4. CASE i = p - 1
      <4>1. next'[c[i]] = b[1]
        BY <1>7, <3>1, <3>2, <3>3, <3>4
      <4>2. i + 1 = p
        BY <1>1, <3>4
      <4>3. c[i + 1] = b[1]
        BY <1>1, <1>3, <2>0, <3>1, <4>2
      <4> QED BY <3>1, <4>1, <4>3
    <3>5. CASE i # p - 1
      <4>1. a[i] # a[p - 1]
        BY <1>5, <3>1, <3>3, <3>5
      <4>2. next'[c[i]] = next[a[i]]
        BY <1>7, <3>1, <3>2, <4>1
      <4>3. i # n /\ i + 1 < p
        BY <1>1, <2>2, <3>5
      <4>4. c[i + 1] = a[i + 1]
        BY <1>3, <2>0, <3>1, <4>3
      <4> QED BY <1>6, <3>1, <4>2, <4>3, <4>4
    <3> QED BY <3>4, <3>5
  <2>3. CASE i > p
    <3>1. i - 1 \in 1..n /\ c[i] = a[i - 1]
      BY <1>1, <1>3, <2>3
    <3>2. a[i - 1] # b[1] /\ a[i - 1] \in Nodes
      BY <1>2, <1>5, <3>1
    <3>3. ~(p > 1 /\ a[i - 1] = a[p - 1])
      <4>1. p > 1 => p - 1 \in 1..n /\ p - 1 # i - 1
        BY <1>1, <2>3
      <4> QED BY <1>5, <3>1, <4>1
    <3>4. next'[c[i]] = next[a[i - 1]]
      BY <1>7, <3>1, <3>2, <3>3
    <3>5. i - 1 = n <=> i = n + 1
      BY <1>1
    <3>6. i # n + 1 => c[i + 1] = a[i]
      <4>1. ~(i + 1 < p) /\ i + 1 # p /\ (i + 1) - 1 = i
        BY <1>1, <2>3
      <4> QED BY <1>3, <2>0, <4>1
    <3>7. (i - 1) + 1 = i
      BY <1>1
    <3> QED BY <1>6, <3>1, <3>4, <3>5, <3>6, <3>7
  <2> QED BY <1>1, <2>1, <2>2, <2>3
<1>13. inactiveHead' = IF d = <<>> THEN NULL ELSE d[1]
  <2>1. m # 1 => 1 \in 1..(m - 1) /\ 1 + 1 \in 1..m
    BY <1>1
  <2> QED BY <1>2, <1>4, <1>6, <1>7, <1>10, <2>1
<1>14. ASSUME NEW i \in 1..(m - 1)
       PROVE  next'[d[i]] = IF i = m - 1 THEN NULL ELSE d[i + 1]
  <2>1. i + 1 \in 1..m /\ i + 1 # 1 /\ (i + 1 = m <=> i = m - 1) /\ (i # m - 1 => i + 1 \in 1..(m - 1))
    BY <1>1
  <2>2. d[i] = b[i + 1] /\ b[i + 1] \in Nodes /\ b[i + 1] # b[1]
    BY <1>2, <1>4, <1>5, <2>1
  <2>3. ~(p > 1 /\ b[i + 1] = a[p - 1])
    <3>1. p > 1 => p - 1 \in 1..n
      BY <1>1
    <3> QED BY <1>5, <2>1, <3>1
  <2>4. next'[d[i]] = next[b[i + 1]]
    BY <1>7, <2>2, <2>3
  <2> QED BY <1>4, <1>6, <2>1, <2>4
<1>15. Distinct(c)
  <2> DEFINE from(i) == IF i < p THEN i ELSE i - 1
  <2>1. \A i \in 1..(n + 1) : i # p => from(i) \in 1..n /\ c[i] = a[from(i)]
    BY <1>1, <1>3
  <2>2. \A i, j \in 1..(n + 1) : i # p /\ j # p /\ from(i) = from(j) => i = j
    BY <1>1
  <2>3. c[p] = b[1]
    BY <1>1, <1>3
  <2> HIDE DEF from
  <2>4. ASSUME NEW i \in 1..(n + 1), NEW j \in 1..(n + 1), c[i] = c[j] PROVE i = j
    BY <1>2, <1>5, <2>1, <2>2, <2>3, <2>4
  <2> QED BY <1>3, <2>4 DEF Distinct
<1>16. Distinct(d) /\ Apart(c, d)
  <2>1. \A i \in 1..(m - 1) : i + 1 \in 1..m /\ d[i] = b[i + 1] /\ i + 1 # 1
    BY <1>1, <1>4
  <2>2. \A i, j \in 1..(m - 1) : i + 1 = j + 1 => i = j
    BY <1>1
  <2>3. Distinct(d)
    BY <1>4, <1>5, <2>1, <2>2 DEF Distinct
  <2>4. \A i \in 1..(n + 1) : c[i] = b[1] \/ \E k \in 1..n : c[i] = a[k]
    <3>1. ASSUME NEW i \in 1..(n + 1) PROVE c[i] = b[1] \/ \E k \in 1..n : c[i] = a[k]
      <4>1. CASE i < p
        <5>1. i \in 1..n
          BY <1>1, <4>1
        <5>2. c[i] = a[i]
          BY <1>3, <4>1
        <5> QED BY <5>1, <5>2
      <4>2. CASE i = p
        <5>1. c[i] = b[1]
          BY <1>3, <1>1, <4>2
        <5> QED BY <5>1
      <4>3. CASE i > p
        <5>1. i - 1 \in 1..n /\ c[i] = a[i - 1]
          BY <1>1, <1>3, <4>3
        <5> QED BY <5>1
      <4> QED BY <1>1, <4>1, <4>2, <4>3
    <3> QED BY <3>1
  <2>5. \A i \in 1..(n + 1) : \A j \in 1..(m - 1) : c[i] # d[j]
    BY <1>2, <1>5, <2>1, <2>4
  <2> QED BY <1>3, <1>4, <2>3, <2>5 DEF Apart
<1>17. Linked(activeHead, c)' /\ Linked(inactiveHead, d)'
  BY <1>3, <1>4, <1>8, <1>10, <1>11, <1>12, <1>13, <1>14 DEF Linked
<1>18. use' \in Uses /\ Len(c) + Len(d) = Size[use'] /\ activeNodes' = Len(c)
       /\ activeTail' = IF c = <<>> THEN NULL ELSE c[Len(c)]
  <2>1. use \in Uses
    BY LinksOf
  <2> QED BY <1>1, <1>3, <1>4, <1>7, <1>10, <1>11, <2>1
<1>19. Lists(c, d)'
  BY <1>15, <1>16, <1>17, <1>18 DEF Lists, Distinct, Apart, Uses
<1> QED BY <1>19 DEF c, d

-----------------------------------------------------------------------------
\* The k-th active node becomes the first free one.
NodeRemoved(a, k) ==
    /\ k \in 1..Len(a)
    /\ inactiveHead' = a[k]
    /\ activeNodes' = activeNodes - 1
    /\ use' = use
    /\ next' = [n \in Nodes |-> IF n = a[k] THEN inactiveHead
                                ELSE IF k > 1 /\ n = a[k - 1] THEN next[a[k]] ELSE next[n]]
    /\ activeHead' = IF k = 1 THEN next[a[1]] ELSE activeHead
    /\ activeTail' = IF k < Len(a) THEN activeTail ELSE IF k = 1 THEN NULL ELSE a[k - 1]

\* Removing a node closes the gap in the active list and puts the node before the free ones.
LEMMA RemoveNode ==
    ASSUME NEW a, NEW b, NEW k, Lists(a, b), NodeRemoved(a, k)
    PROVE  Lists(RemoveAt(a, k), InsertAt(b, 1, a[k]))'
<1> DEFINE n == Len(a)
           m == Len(b)
           c == RemoveAt(a, k)
           d == InsertAt(b, 1, a[k])
           after(i) == IF i < k THEN i ELSE i + 1
<1>1. /\ a \in Seq(Nodes) /\ b \in Seq(Nodes) /\ n \in Nat /\ m \in Nat /\ n # 0
      /\ k \in 1..n /\ k \in Nat /\ n + m = Size[use] /\ activeNodes = n
  BY ListFacts, LinksOf DEF NodeRemoved
<1>2. /\ \A i \in 1..n : a[i] \in Nodes
      /\ \A i \in 1..m : b[i] \in Nodes
  BY <1>1, ListFacts
<1>3. c \in Seq(Nodes) /\ Len(c) = n - 1 /\ \A i \in 1..(n - 1) : c[i] = a[after(i)]
  <2>1. /\ RemoveAt(a, k) \in Seq(Nodes) /\ Len(RemoveAt(a, k)) = Len(a) - 1
        /\ \A i \in 1..(Len(a) - 1) : RemoveAt(a, k)[i] = IF i < k THEN a[i] ELSE a[i + 1]
    <3> DEFINE S == Nodes
    <3>1. a \in Seq(S) /\ k \in 1..Len(a)
      BY <1>1
    <3> HIDE DEF S, c, d, n, m, after
    <3>2. /\ RemoveAt(a, k) \in Seq(S) /\ Len(RemoveAt(a, k)) = Len(a) - 1
          /\ \A i \in 1..(Len(a) - 1) : RemoveAt(a, k)[i] = IF i < k THEN a[i] ELSE a[i + 1]
      BY <3>1, RemoveAtProperties
    <3> QED BY <3>2 DEF S
  <2> QED BY <2>1
<1>4. /\ d \in Seq(Nodes) /\ Len(d) = m + 1
      /\ \A i \in 1..(m + 1) : d[i] = IF i = 1 THEN a[k] ELSE b[i - 1]
  <2>1. /\ InsertAt(b, 1, a[k]) \in Seq(Nodes) /\ Len(InsertAt(b, 1, a[k])) = Len(b) + 1
        /\ \A i \in 1..(Len(b) + 1) : InsertAt(b, 1, a[k])[i] =
              IF i < 1 THEN b[i] ELSE IF i = 1 THEN a[k] ELSE b[i - 1]
    <3> DEFINE S == Nodes
               e == a[k]
    <3>1. b \in Seq(S) /\ e \in S /\ 1 \in 1..(Len(b) + 1)
      BY <1>1, <1>2
    <3> HIDE DEF S, e, c, d, n, m, after
    <3>2. /\ InsertAt(b, 1, e) \in Seq(S) /\ Len(InsertAt(b, 1, e)) = Len(b) + 1
          /\ \A i \in 1..(Len(b) + 1) : InsertAt(b, 1, e)[i] =
                IF i < 1 THEN b[i] ELSE IF i = 1 THEN e ELSE b[i - 1]
      BY <3>1, InsertAtProperties
    <3> QED BY <3>2 DEF S, e
  <2> QED BY <1>1, <2>1
<1>5. /\ \A i, j \in 1..n : a[i] = a[j] => i = j
      /\ \A i, j \in 1..m : b[i] = b[j] => i = j
      /\ \A i \in 1..n : \A j \in 1..m : a[i] # b[j]
  BY NodesApart
<1>6. /\ activeHead = a[1] /\ activeTail = a[n]
      /\ inactiveHead = IF m = 0 THEN NULL ELSE b[1]
      /\ \A i \in 1..n : next[a[i]] = IF i = n THEN NULL ELSE a[i + 1]
      /\ \A i \in 1..m : next[b[i]] = IF i = m THEN NULL ELSE b[i + 1]
  <2>1. a # <<>> /\ (b = <<>> <=> m = 0)
    BY <1>1, ListFacts
  <2> QED BY <2>1, LinksOf
<1>7. /\ inactiveHead' = a[k] /\ activeNodes' = activeNodes - 1 /\ use' = use
      /\ \A i \in Nodes : next'[i] = IF i = a[k] THEN inactiveHead
                                     ELSE IF k > 1 /\ i = a[k - 1] THEN next[a[k]] ELSE next[i]
      /\ activeHead' = IF k = 1 THEN next[a[1]] ELSE activeHead
      /\ activeTail' = IF k < n THEN activeTail ELSE IF k = 1 THEN NULL ELSE a[k - 1]
  BY DEF NodeRemoved
<1>8. Nodes' = Nodes
  BY <1>7 DEF Nodes
<1>9. \A i \in 1..(n - 1) : after(i) \in 1..n /\ after(i) # k
  BY <1>1
<1>10. \A i, j \in 1..(n - 1) : after(i) = after(j) => i = j
  BY <1>1
<1>11. (c = <<>> <=> n = 1) /\ d # <<>>
  BY <1>1, <1>3, <1>4
<1> HIDE DEF c, d, n, m
<1>12. activeHead' = (IF c = <<>> THEN NULL ELSE c[1])
  <2>1. CASE n = 1
    <3>1. k = 1 /\ 1 \in 1..n
      BY <1>1, <2>1
    <3> QED BY <1>6, <1>7, <1>11, <2>1, <3>1
  <2>2. CASE n # 1
    <3>1. 1 \in 1..(n - 1) /\ 1 \in 1..n
      BY <1>1, <2>2
    <3>2. c[1] = IF k = 1 THEN a[1 + 1] ELSE a[1]
      <4>1. 1 < k <=> k # 1
        BY <1>1
      <4> QED BY <1>3, <3>1, <4>1
    <3> QED BY <1>6, <1>7, <1>11, <2>2, <3>1, <3>2
  <2> QED BY <2>1, <2>2
<1>13. activeTail' = (IF c = <<>> THEN NULL ELSE c[n - 1])
  <2>1. CASE n = 1
    <3>1. k = 1 /\ ~(k < n)
      BY <1>1, <2>1
    <3> QED BY <1>7, <1>11, <2>1, <3>1
  <2>2. CASE n # 1
    <3>1. n - 1 \in 1..(n - 1) /\ (n - 1) + 1 = n
      BY <1>1, <2>2
    <3>2. CASE k < n
      <4>1. after(n - 1) = n
        BY <1>1, <3>1, <3>2
      <4> QED BY <1>3, <1>6, <1>7, <1>11, <2>2, <3>1, <3>2, <4>1
    <3>3. CASE ~(k < n)
      <4>1. k = n /\ k # 1
        BY <1>1, <2>2, <3>3
      <4>2. after(n - 1) = n - 1
        BY <1>1, <4>1
      <4> QED BY <1>3, <1>7, <1>11, <2>2, <3>1, <3>3, <4>1, <4>2
    <3> QED BY <3>2, <3>3
  <2> QED BY <2>1, <2>2
<1>14. ASSUME NEW i \in 1..(n - 1)
       PROVE  next'[c[i]] = IF i = n - 1 THEN NULL ELSE c[i + 1]
  <2>1. /\ after(i) \in 1..n /\ after(i) # k /\ c[i] = a[after(i)]
        /\ a[after(i)] \in Nodes /\ a[after(i)] # a[k]
    BY <1>1, <1>2, <1>3, <1>5, <1>9
  <2>2. i # n - 1 => i + 1 \in 1..(n - 1) /\ c[i + 1] = a[after(i + 1)]
    <3>1. i # n - 1 => i + 1 \in 1..(n - 1)
      BY <1>1
    <3> HIDE DEF after
    <3> QED BY <1>3, <3>1
  <2>3. CASE k > 1 /\ i = k - 1
    <3>1. after(i) = k - 1 /\ after(i + 1) = k + 1 /\ (i = n - 1 <=> k = n)
      BY <1>1, <2>3
    <3>2. next'[c[i]] = next[a[k]]
      BY <1>7, <2>1, <2>3, <3>1
    <3> QED BY <1>1, <1>6, <2>2, <3>1, <3>2
  <2>4. CASE ~(k > 1 /\ i = k - 1)
    <3>1. k > 1 => k - 1 \in 1..n /\ after(i) # k - 1
      BY <1>1, <2>4
    <3>2. next'[c[i]] = next[a[after(i)]]
      <4> HIDE DEF after
      <4> QED BY <1>5, <1>7, <2>1, <3>1
    <3>3. (i = n - 1 <=> after(i) = n) /\ after(i + 1) = after(i) + 1
      BY <1>1, <2>4
    <3> HIDE DEF after
    <3> QED BY <1>6, <2>1, <2>2, <3>2, <3>3
  <2> QED BY <2>3, <2>4
<1>15. ASSUME NEW i \in 1..(m + 1)
       PROVE  next'[d[i]] = IF i = m + 1 THEN NULL ELSE d[i + 1]
  <2>1. a[k] \in Nodes
    BY <1>1, <1>2
  <2>2. i # m + 1 => i + 1 \in 1..(m + 1) /\ i + 1 # 1 /\ (i + 1) - 1 = i
    BY <1>1
  <2>3. i # m + 1 => d[i + 1] = b[i]
    BY <1>4, <2>2
  <2>4. CASE i = 1
    <3>1. d[i] = a[k] /\ (i = m + 1 <=> m = 0)
      BY <1>1, <1>4, <2>4
    <3> QED BY <1>6, <1>7, <2>1, <2>3, <2>4, <3>1
  <2>5. CASE i # 1
    <3>1. i - 1 \in 1..m /\ (i - 1) + 1 = i /\ (i - 1 = m <=> i = m + 1)
      BY <1>1, <2>5
    <3>2. d[i] = b[i - 1] /\ b[i - 1] \in Nodes /\ b[i - 1] # a[k]
      BY <1>1, <1>2, <1>4, <1>5, <2>5, <3>1
    <3>3. k > 1 => k - 1 \in 1..n
      BY <1>1
    <3>4. next'[d[i]] = next[b[i - 1]]
      BY <1>5, <1>7, <3>1, <3>2, <3>3
    <3> QED BY <1>6, <2>3, <3>1, <3>4
  <2> QED BY <2>4, <2>5
<1>16. Distinct(c) /\ Distinct(d) /\ Apart(c, d)
  <2>1. ASSUME NEW i \in 1..(n - 1), NEW j \in 1..(n - 1), c[i] = c[j] PROVE i = j
    <3>1. a[after(i)] = a[after(j)] /\ after(i) \in 1..n /\ after(j) \in 1..n
      BY <1>3, <1>9, <2>1
    <3>2. after(i) = after(j)
      <4> HIDE DEF after
      <4> QED BY <1>5, <3>1
    <3> QED BY <1>10, <3>2
  <2>2. \A i \in 1..(m + 1) : i # 1 => i - 1 \in 1..m /\ d[i] = b[i - 1]
    BY <1>1, <1>4
  <2>3. d[1] = a[k] /\ \A i, j \in 1..(m + 1) : i - 1 = j - 1 => i = j
    BY <1>1, <1>4
  <2>4. ASSUME NEW i \in 1..(m + 1), NEW j \in 1..(m + 1), d[i] = d[j] PROVE i = j
    BY <1>1, <1>5, <2>2, <2>3, <2>4
  <2>5. ASSUME NEW i \in 1..(n - 1), NEW j \in 1..(m + 1) PROVE c[i] # d[j]
    <3>1. c[i] = a[after(i)] /\ after(i) \in 1..n /\ after(i) # k
      BY <1>3, <1>9
    <3> HIDE DEF after
    <3> QED BY <1>1, <1>5, <2>2, <2>3, <3>1
  <2> QED BY <1>3, <1>4, <2>1, <2>4, <2>5 DEF Distinct, Apart
<1>17. inactiveHead' = d[1]
  BY <1>1, <1>4, <1>7
<1>18. Linked(activeHead, c)' /\ Linked(inactiveHead, d)'
  <2> HIDE DEF after
  <2> QED BY <1>3, <1>4, <1>8, <1>11, <1>12, <1>14, <1>15, <1>17 DEF Linked
<1>19. use' \in Uses /\ Len(c) + Len(d) = Size[use'] /\ activeNodes' = Len(c)
       /\ activeTail' = IF c = <<>> THEN NULL ELSE c[Len(c)]
  <2>1. use \in Uses
    BY LinksOf
  <2> QED BY <1>1, <1>3, <1>4, <1>7, <1>13, <2>1
<1>20. Lists(c, d)'
  BY <1>16, <1>18, <1>19 DEF Lists, Distinct, Apart, Uses
<1> QED BY <1>20 DEF c, d

-----------------------------------------------------------------------------
\* The operators of the queue are those of PacketListOps.
LEMMA SameOperators ==
    ASSUME NEW list, NEW pk, NEW capacity, NEW now, NEW time
    PROVE  /\ Queue!InsertAck(list, capacity, pk.ti, now) = InsertAck(list, capacity, pk.ti, now)
           /\ Queue!Inserted(list, pk) = Inserted(list, pk)
           /\ Queue!PlannedAt(list, time) = PlannedAt(list, time)
           /\ Queue!DropAt(list, time) = DropAt(list, time)
<1>1. Queue!Occupied(list, pk.ti) = Occupied(list, pk.ti)
  BY DEF Queue!Occupied, Occupied, Queue!ScanStop, ScanStop, Queue!Min, Min
<1>2. Queue!InsertAck(list, capacity, pk.ti, now) = InsertAck(list, capacity, pk.ti, now)
  BY <1>1 DEF Queue!InsertAck, InsertAck, Queue!IsFull, IsFull
<1>3. Queue!InsertPos(list, pk.ti) = InsertPos(list, pk.ti)
  BY DEF Queue!InsertPos, InsertPos, Queue!ScanStop, ScanStop, Queue!Min, Min
<1>4. Queue!Inserted(list, pk) = Inserted(list, pk)
  BY <1>3 DEF Queue!Inserted, Inserted, Queue!InsertAt, InsertAt
<1>5. Queue!PlannedAt(list, time) = PlannedAt(list, time)
  BY DEF Queue!PlannedAt, PlannedAt
<1>6. Queue!DropAt(list, time) = DropAt(list, time)
  BY <1>5 DEF Queue!DropAt, DropAt, Queue!RemoveAt, RemoveAt, Queue!Min, Min
<1> QED BY <1>2, <1>4, <1>5, <1>6

-----------------------------------------------------------------------------
\* The queue, as the links implement it.
Q == [k \in 1..activeNodes |-> packet[NodeAt(activeHead, k)]]

\* A node with the packet pk is put into the list as its p-th one; the k-th node is taken out of it.
Put(a, b, p, pk) == NodeInserted(a, b, p) /\ packet' = [packet EXCEPT ![b[1]] = pk]
Taken(a, k) == NodeRemoved(a, k) /\ packet' = packet

\* The packets of the active nodes.
LEMMA PacketsAre ==
    ASSUME NEW a, NEW b, Stored, Lists(a, b)
    PROVE  /\ Q = PacketsOf(a) /\ PacketsOf(a) \in Seq(Packets[use]) /\ Len(PacketsOf(a)) = Len(a)
           /\ \A k \in 1..Len(a) : PacketsOf(a)[k] = packet[a[k]]
           /\ a # <<>> <=> PacketsOf(a) # <<>>
<1>1. Q = PacketsOf(a)
  BY QueueIs DEF Q
<1>2. \A k \in 1..Len(a) : packet[a[k]] \in Packets[use]
  BY ListFacts DEF Stored
<1>3. Len(a) \in Nat /\ (a # <<>> <=> Len(a) # 0)
  BY ListFacts
<1>4. PacketsOf(a) \in Seq(Packets[use]) /\ Len(PacketsOf(a)) = Len(a)
  BY <1>2, <1>3 DEF PacketsOf
<1>5. a # <<>> <=> PacketsOf(a) # <<>>
  <2> DEFINE q == PacketsOf(a)
             S == Packets[use]
  <2>1. q \in Seq(S) /\ Len(q) = Len(a)
    BY <1>4
  <2> HIDE DEF q, S
  <2>2. q # <<>> <=> Len(q) # 0
    BY <2>1
  <2> QED BY <1>3, <2>1, <2>2 DEF q
<1>6. \A k \in 1..Len(a) : PacketsOf(a)[k] = packet[a[k]]
  BY DEF PacketsOf
<1> QED BY <1>1, <1>4, <1>5, <1>6

\* The same in the next state.
LEMMA PacketsAreThen ==
    ASSUME NEW a, NEW b
    PROVE  Stored' /\ Lists(a, b)' =>
             /\ Q' = PacketsOf(a)' /\ PacketsOf(a)' \in Seq(Packets[use']) /\ Len(PacketsOf(a)') = Len(a)
             /\ \A k \in 1..Len(a) : PacketsOf(a)'[k] = packet'[a[k]]
<1> DEFINE Carried == /\ Q = PacketsOf(a) /\ PacketsOf(a) \in Seq(Packets[use]) /\ Len(PacketsOf(a)) = Len(a)
                      /\ \A k \in 1..Len(a) : PacketsOf(a)[k] = packet[a[k]]
<1>1. Stored /\ Lists(a, b) => Carried
  BY PacketsAre
<1> HIDE DEF Carried
<1>2. (Stored /\ Lists(a, b) => Carried)'
  BY <1>1, PTL
<1> QED BY <1>2 DEF Carried

\* The packet appears at its place of the queue, and nowhere else.
LEMMA PutInserts ==
    ASSUME NEW a, NEW b, NEW p, NEW pk \in Packets[use], Stored, Lists(a, b), Put(a, b, p, pk)
    PROVE  ListInv' /\ Q' = InsertAt(PacketsOf(a), p, pk) /\ Len(PacketsOf(a)) < Size[use]
<1> DEFINE c == InsertAt(a, p, b[1])
           n == Len(a)
           q == PacketsOf(a)
           S == Packets[use]
<1>1. Lists(c, Tail(b))'
  BY InsertNode DEF Put
<1>2. /\ a \in Seq(Nodes) /\ n \in Nat /\ p \in 1..(n + 1) /\ use' = use
      /\ Len(b) \in Nat /\ Len(b) # 0 /\ n + Len(b) = Size[use]
      /\ \A i \in 1..n : a[i] \in Nodes /\ a[i] # b[1]
      /\ b[1] \in Nodes
  <2>1. b # <<>> /\ p \in 1..(n + 1) /\ use' = use
    BY DEF Put, NodeInserted
  <2>2. Len(b) \in Nat /\ Len(b) # 0 /\ 1 \in 1..Len(b)
    BY <2>1, ListFacts
  <2> QED BY <2>1, <2>2, ListFacts, NodesApart
<1>3. /\ Len(c) = n + 1
      /\ \A i \in 1..(n + 1) : c[i] = IF i < p THEN a[i] ELSE IF i = p THEN b[1] ELSE a[i - 1]
  <2> DEFINE N == Nodes
             e == b[1]
  <2>1. a \in Seq(N) /\ e \in N /\ p \in 1..(Len(a) + 1)
    BY <1>2
  <2> HIDE DEF N, e, q, S
  <2>2. /\ Len(InsertAt(a, p, e)) = Len(a) + 1
        /\ \A i \in 1..(Len(a) + 1) : InsertAt(a, p, e)[i] =
              IF i < p THEN a[i] ELSE IF i = p THEN e ELSE a[i - 1]
    BY <2>1, InsertAtProperties
  <2> QED BY <2>2 DEF e
<1>4. packet' = [packet EXCEPT ![b[1]] = pk] /\ packet \in [Nodes -> S]
  BY DEF Put, Stored
<1>5. Stored'
  <2>1. DOMAIN next' = Nodes
    BY DEF Put, NodeInserted
  <2> QED BY <1>2, <1>4, <2>1 DEF Stored, Nodes
<1>6. ListInv'
  BY <1>1, <1>5 DEF ListInv
<1>7. /\ q \in Seq(S) /\ Len(q) = n /\ \A i \in 1..n : q[i] = packet[a[i]]
  BY PacketsAre
<1>8. Q' = PacketsOf(c)' /\ PacketsOf(c)' \in Seq(S) /\ Len(PacketsOf(c)') = Len(c)
      /\ \A i \in 1..Len(c) : PacketsOf(c)'[i] = packet'[c[i]]
  <2> HIDE DEF c
  <2> QED BY <1>1, <1>2, <1>5, PacketsAreThen
<1> HIDE DEF c, q, S
<1>9. /\ InsertAt(q, p, pk) \in Seq(S) /\ Len(InsertAt(q, p, pk)) = n + 1
      /\ \A i \in 1..(n + 1) : InsertAt(q, p, pk)[i] =
            IF i < p THEN q[i] ELSE IF i = p THEN pk ELSE q[i - 1]
  <2>1. q \in Seq(S) /\ pk \in S /\ p \in 1..(Len(q) + 1)
    BY <1>2, <1>7 DEF S
  <2>2. /\ InsertAt(q, p, pk) \in Seq(S) /\ Len(InsertAt(q, p, pk)) = Len(q) + 1
        /\ \A i \in 1..(Len(q) + 1) : InsertAt(q, p, pk)[i] =
              IF i < p THEN q[i] ELSE IF i = p THEN pk ELSE q[i - 1]
    BY <2>1, InsertAtProperties
  <2> QED BY <1>7, <2>2
<1>10. ASSUME NEW i \in 1..(n + 1) PROVE PacketsOf(c)'[i] = InsertAt(q, p, pk)[i]
  <2>1. PacketsOf(c)'[i] = packet'[c[i]]
    BY <1>3, <1>8
  <2>2. CASE i = p
    BY <1>2, <1>3, <1>4, <1>9, <2>1, <2>2
  <2>3. CASE i < p
    <3>1. i \in 1..n
      BY <1>2, <2>3
    <3> QED BY <1>2, <1>3, <1>4, <1>7, <1>9, <2>1, <2>3, <3>1
  <2>4. CASE i > p
    <3>1. i - 1 \in 1..n /\ ~(i < p) /\ i # p
      BY <1>2, <2>4
    <3>2. c[i] = a[i - 1] /\ InsertAt(q, p, pk)[i] = q[i - 1]
      BY <1>3, <1>9, <3>1
    <3> QED BY <1>2, <1>4, <1>7, <2>1, <3>1, <3>2
  <2> QED BY <1>2, <2>2, <2>3, <2>4
<1>11. PacketsOf(c)' = InsertAt(q, p, pk)
  <2> DEFINE r == PacketsOf(c)'
             s == InsertAt(q, p, pk)
  <2>1. r \in Seq(S) /\ s \in Seq(S) /\ Len(r) = Len(s) /\ Len(r) = n + 1 /\ \A i \in 1..(n + 1) : r[i] = s[i]
    BY <1>3, <1>8, <1>9, <1>10
  <2> HIDE DEF r, s
  <2>2. r = s
    BY <2>1, SeqEqual
  <2> QED BY <2>2 DEF r, s
<1>12. n < Size[use]
  BY <1>2
<1> QED BY <1>6, <1>7, <1>8, <1>11, <1>12 DEF q

\* The packet of the node leaves the queue, and no other one.
LEMMA TakenRemoves ==
    ASSUME NEW a, NEW b, NEW k, Stored, Lists(a, b), Taken(a, k)
    PROVE  ListInv' /\ Q' = RemoveAt(PacketsOf(a), k)
<1> DEFINE c == RemoveAt(a, k)
           n == Len(a)
           q == PacketsOf(a)
           S == Packets[use]
<1>1. Lists(c, InsertAt(b, 1, a[k]))'
  BY RemoveNode DEF Taken
<1>2. a \in Seq(Nodes) /\ n \in Nat /\ k \in 1..n /\ use' = use
  BY ListFacts DEF Taken, NodeRemoved
<1>3. Len(c) = n - 1 /\ \A i \in 1..(n - 1) : c[i] = IF i < k THEN a[i] ELSE a[i + 1]
  <2> DEFINE N == Nodes
  <2>1. a \in Seq(N) /\ k \in 1..Len(a)
    BY <1>2
  <2> HIDE DEF N, q, S
  <2>2. /\ Len(RemoveAt(a, k)) = Len(a) - 1
        /\ \A i \in 1..(Len(a) - 1) : RemoveAt(a, k)[i] = IF i < k THEN a[i] ELSE a[i + 1]
    BY <2>1, RemoveAtProperties
  <2> QED BY <2>2
<1>4. Stored'
  <2>1. DOMAIN next' = Nodes /\ packet' = packet
    BY DEF Taken, NodeRemoved
  <2> QED BY <1>2, <2>1 DEF Stored, Nodes
<1>5. ListInv'
  BY <1>1, <1>4 DEF ListInv
<1>6. q \in Seq(S) /\ Len(q) = n /\ \A i \in 1..n : q[i] = packet[a[i]]
  BY PacketsAre
<1>7. Q' = PacketsOf(c)' /\ PacketsOf(c)' \in Seq(S) /\ Len(PacketsOf(c)') = Len(c)
      /\ \A i \in 1..Len(c) : PacketsOf(c)'[i] = packet'[c[i]]
  <2> HIDE DEF c
  <2> QED BY <1>1, <1>2, <1>4, PacketsAreThen
<1>8. packet' = packet
  BY DEF Taken
<1> HIDE DEF c, q, S
<1>9. /\ RemoveAt(q, k) \in Seq(S) /\ Len(RemoveAt(q, k)) = n - 1
      /\ \A i \in 1..(n - 1) : RemoveAt(q, k)[i] = IF i < k THEN q[i] ELSE q[i + 1]
  <2>1. q \in Seq(S) /\ k \in 1..Len(q)
    BY <1>2, <1>6
  <2> QED BY <1>6, <2>1, RemoveAtProperties
<1>10. ASSUME NEW i \in 1..(n - 1) PROVE PacketsOf(c)'[i] = RemoveAt(q, k)[i]
  <2>1. PacketsOf(c)'[i] = packet[c[i]]
    BY <1>3, <1>7, <1>8
  <2>2. i \in 1..n /\ i + 1 \in 1..n
    BY <1>2
  <2> QED BY <1>3, <1>6, <1>9, <2>1, <2>2
<1>11. PacketsOf(c)' = RemoveAt(q, k)
  <2> DEFINE r == PacketsOf(c)'
             s == RemoveAt(q, k)
  <2>1. r \in Seq(S) /\ s \in Seq(S) /\ Len(r) = Len(s) /\ Len(r) = n - 1 /\ \A i \in 1..(n - 1) : r[i] = s[i]
    BY <1>3, <1>7, <1>9, <1>10
  <2> HIDE DEF r, s
  <2>2. r = s
    BY <2>1, SeqEqual
  <2> QED BY <2>2 DEF r, s
<1> QED BY <1>5, <1>7, <1>11 DEF q

-----------------------------------------------------------------------------
\* The functions that put a packet into the list, each as what they do to the nodes.
LEMMA PushFrontIs ==
    ASSUME NEW a, NEW b, NEW pk, Stored, Lists(a, b), inactiveHead # NULL, PushFront(pk)
    PROVE  Put(a, b, 1, pk)
<1>1. inactiveHead = b[1] /\ b # <<>> /\ Len(a) \in Nat /\ DOMAIN next = Nodes
  BY ListFacts, LinksOf DEF Stored
<1>2. 1 \in 1..(Len(a) + 1) /\ (1 > Len(a) <=> activeTail = NULL)
      /\ activeHead = IF 1 > Len(a) THEN NULL ELSE a[1]
  BY ListFacts, LinksOf
<1>3. next' = [n \in Nodes |-> IF n = b[1] THEN (IF 1 > Len(a) THEN NULL ELSE a[1]) ELSE next[n]]
  BY <1>1, <1>2 DEF PushFront
<1>4. next' = [n \in Nodes |-> IF n = b[1] THEN (IF 1 > Len(a) THEN NULL ELSE a[1])
                               ELSE IF 1 > 1 /\ n = a[1 - 1] THEN b[1] ELSE next[n]]
  <2>1. ~(1 > 1)
    OBVIOUS
  <2> QED BY <1>3, <2>1
<1>5. activeHead' = b[1] /\ activeTail' = IF 1 > Len(a) THEN b[1] ELSE activeTail
  BY <1>1, <1>2 DEF PushFront
<1>6. Store(pk)
  BY DEF PushFront
<1> QED BY <1>1, <1>2, <1>4, <1>5, <1>6 DEF Put, NodeInserted, Store

\* PL_push_back: behind the last node.
LEMMA PushBackIs ==
    ASSUME NEW a, NEW b, NEW pk, Stored, Lists(a, b), inactiveHead # NULL, PushBack(pk)
    PROVE  Put(a, b, Len(a) + 1, pk)
<1> DEFINE n == Len(a)
<1>1. inactiveHead = b[1] /\ b # <<>> /\ n \in Nat /\ DOMAIN next = Nodes
  BY ListFacts, LinksOf DEF Stored
<1>2. n + 1 \in 1..(n + 1) /\ n + 1 > n /\ (n + 1 > 1 <=> n # 0) /\ (n + 1) - 1 = n /\ (n + 1 = 1 <=> n = 0)
  BY <1>1
<1>3. (activeTail = NULL <=> n = 0) /\ (n # 0 => activeTail = a[n])
  BY ListFacts, LinksOf
<1>4. n # 0 => a[n] # b[1] /\ a[n] \in Nodes /\ b[1] \in Nodes
  <2>1. n # 0 => n \in 1..n
    BY <1>1
  <2>2. 1 \in 1..Len(b)
    BY <1>1, ListFacts
  <2> QED BY <2>1, <2>2, ListFacts, NodesApart
<1>5. next' = [k \in Nodes |-> IF k = b[1] THEN (IF n + 1 > n THEN NULL ELSE a[n + 1])
                               ELSE IF n + 1 > 1 /\ k = a[(n + 1) - 1] THEN b[1] ELSE next[k]]
  <2>1. CASE n = 0
    <3>1. next' = [next EXCEPT ![b[1]] = NULL]
      BY <1>1, <1>3, <2>1 DEF PushBack
    <3> HIDE DEF n
    <3> QED BY <1>1, <1>2, <2>1, <3>1
  <2>2. CASE n # 0
    <3>1. next' = [next EXCEPT ![b[1]] = NULL, ![a[n]] = b[1]]
      BY <1>1, <1>3, <2>2 DEF PushBack
    <3> HIDE DEF n
    <3> QED BY <1>1, <1>2, <1>4, <2>2, <3>1
  <2> QED BY <2>1, <2>2
<1>6. /\ activeHead' = IF n + 1 = 1 THEN b[1] ELSE activeHead
      /\ activeTail' = b[1]
  BY <1>1, <1>2, <1>3 DEF PushBack
<1>7. Store(pk)
  BY DEF PushBack
<1> QED BY <1>1, <1>2, <1>5, <1>6, <1>7 DEF Put, NodeInserted, Store

\* PL_insert_after_: between two nodes.
LEMMA InsertAfterIs ==
    ASSUME NEW a, NEW b, NEW pk, NEW k \in 2..Len(a), Stored, Lists(a, b), inactiveHead # NULL,
           InsertAfter(a[k - 1], pk)
    PROVE  Put(a, b, k, pk)
<1> DEFINE n == Len(a)
<1>1. inactiveHead = b[1] /\ b # <<>> /\ n \in Nat /\ DOMAIN next = Nodes
  BY ListFacts, LinksOf DEF Stored
<1>2. /\ k \in 1..(n + 1) /\ ~(k > n) /\ k > 1 /\ k # 1 /\ k - 1 \in 1..n /\ (k - 1) + 1 = k
      /\ n \in 1..n /\ k - 1 # n
  BY <1>1
<1>3. 1 \in 1..Len(b)
  BY <1>1, ListFacts
<1>4. /\ a[k - 1] # b[1] /\ a[k - 1] \in Nodes /\ b[1] \in Nodes
      /\ a[k - 1] # activeTail /\ next[a[k - 1]] = a[k]
  <2>1. a[k - 1] # a[n] /\ a[k - 1] # b[1]
    BY <1>2, <1>3, NodesApart
  <2>2. activeTail = a[n]
    BY <1>2, ListFacts, LinksOf
  <2>3. next[a[k - 1]] = a[k]
    BY <1>2, LinksOf
  <2> QED BY <1>2, <1>3, <2>1, <2>2, <2>3, ListFacts
<1>5. /\ Store(pk) /\ activeHead' = activeHead /\ activeTail' = activeTail
      /\ next' = [next EXCEPT ![b[1]] = a[k], ![a[k - 1]] = b[1]]
  BY <1>1, <1>4 DEF InsertAfter
<1>6. next' = [i \in Nodes |-> IF i = b[1] THEN (IF k > n THEN NULL ELSE a[k])
                               ELSE IF k > 1 /\ i = a[k - 1] THEN b[1] ELSE next[i]]
  <2> HIDE DEF n
  <2> QED BY <1>1, <1>2, <1>4, <1>5
<1> QED BY <1>1, <1>2, <1>5, <1>6 DEF Put, NodeInserted, Store

-----------------------------------------------------------------------------
\* The same of the functions that take one out.
LEMMA DropHeadIs ==
    ASSUME NEW a, NEW b, Stored, Lists(a, b), DropHead, use' = use
    PROVE  a # <<>> /\ Taken(a, 1)
<1> DEFINE n == Len(a)
<1>1. a # <<>> /\ n \in Nat /\ n # 0 /\ DOMAIN next = Nodes /\ activeHead = a[1] /\ activeTail = a[n]
  BY ListFacts, LinksOf DEF DropHead, Stored
<1>2. 1 \in 1..n /\ (1 < n <=> n # 1)
  <2> HIDE DEF n
  <2> QED BY <1>1
<1>3. next[a[1]] = (IF 1 = n THEN NULL ELSE a[2])
  BY <1>2, LinksOf
<1>4. n # 1 => a[2] # NULL
  <2>1. n # 1 => 2 \in 1..n
    BY <1>1
  <2> QED BY <2>1, ListFacts
<1>5. activeTail' = IF 1 < n THEN activeTail ELSE NULL
  BY <1>1, <1>2, <1>3, <1>4 DEF DropHead
<1>6. next' = [i \in Nodes |-> IF i = a[1] THEN inactiveHead ELSE next[i]]
  BY <1>1 DEF DropHead
<1>7. inactiveHead' = a[1] /\ activeHead' = next[a[1]] /\ activeNodes' = activeNodes - 1 /\ packet' = packet
  BY <1>1 DEF DropHead
<1>8. NodeRemoved(a, 1)
  BY <1>2, <1>5, <1>6, <1>7 DEF NodeRemoved
<1> QED BY <1>1, <1>7, <1>8 DEF Taken

\* PL_drop_node: a node that is not the head.
LEMMA DropNodeIs ==
    ASSUME NEW a, NEW b, NEW k \in 2..Len(a), Stored, Lists(a, b), DropNode(a[k - 1], a[k]), use' = use
    PROVE  Taken(a, k)
<1> DEFINE n == Len(a)
<1>1. n \in Nat /\ DOMAIN next = Nodes /\ activeTail = a[n]
  BY ListFacts, LinksOf DEF Stored
<1>2. k \in 1..n /\ k - 1 \in 1..n /\ k # 1 /\ k > 1 /\ n \in 1..n /\ (k < n <=> k # n) /\ k - 1 # k
  BY <1>1
<1>3. a[k] \in Nodes /\ a[k - 1] \in Nodes /\ a[k - 1] # a[k] /\ (a[k] = a[n] <=> k = n)
  BY <1>2, ListFacts, NodesApart
<1>4. activeTail' = IF k < n THEN activeTail ELSE a[k - 1]
  BY <1>1, <1>2, <1>3 DEF DropNode
<1>5. next' = [next EXCEPT ![a[k - 1]] = next[a[k]], ![a[k]] = inactiveHead]
  BY DEF DropNode
<1>6. next' = [i \in Nodes |-> IF i = a[k] THEN inactiveHead
                               ELSE IF k > 1 /\ i = a[k - 1] THEN next[a[k]] ELSE next[i]]
  BY <1>1, <1>2, <1>3, <1>5
<1>7. inactiveHead' = a[k] /\ activeHead' = activeHead /\ activeNodes' = activeNodes - 1 /\ packet' = packet
  BY DEF DropNode
<1>8. NodeRemoved(a, k)
  BY <1>2, <1>4, <1>6, <1>7 DEF NodeRemoved
<1> QED BY <1>7, <1>8 DEF Taken

\* A cleared list: all nodes are free, in the order of the stock.
LEMMA StockIs ==
    ASSUME use \in Uses, next = Stock, activeHead = NULL, activeTail = NULL, inactiveHead = 1,
           activeNodes = 0
    PROVE  Lists(<<>>, [i \in Nodes |-> i])
<1> DEFINE b == [i \in Nodes |-> i]
           m == Size[use]
<1>1. m \in Nat \ {0} /\ Nodes = 1..m
  BY ListAssumption DEF Nodes
<1>2. b \in Seq(Nodes) /\ Len(b) = m /\ \A i \in 1..m : b[i] = i
  BY <1>1
<1> HIDE DEF b
<1>3. b # <<>> /\ 1 \in 1..m
  BY <1>1, <1>2
<1>4. \A i \in 1..m : next[i] = IF i = m THEN NULL ELSE i + 1
  BY <1>1 DEF Stock
<1>5. \A i \in 1..m : i # m => i + 1 \in 1..m
  BY <1>1
<1> HIDE DEF m
<1>6. Linked(inactiveHead, b)
  BY <1>2, <1>3, <1>4, <1>5 DEF Linked
<1>7. Linked(activeHead, <<>>)
  BY DEF Linked
<1>8. Distinct(<<>>) /\ Distinct(b) /\ Apart(<<>>, b)
  BY <1>2 DEF Distinct, Apart
<1> QED BY <1>1, <1>2, <1>6, <1>7, <1>8 DEF Lists, b, m

-----------------------------------------------------------------------------
\* The insertion by time puts the packet where the queue says, and only when the queue accepts it.
LEMMA InsertTlCmdIs ==
    ASSUME NEW a, NEW b, NEW pk \in Packets[use], NEW now \in Clock, Stored, Lists(a, b), InsertTlCmd(pk, now)
    PROVE  /\ Put(a, b, InsertPos(PacketsOf(a), pk.ti), pk)
           /\ ~(now > pk.ti) /\ ~Occupied(PacketsOf(a), pk.ti)
<1> DEFINE n == Len(a)
           q == PacketsOf(a)
           t == pk.ti
<1>1. n \in Nat /\ Len(q) = n /\ (q = <<>> <=> n = 0) /\ (a = <<>> <=> n = 0)
  BY PacketsAre, ListFacts
<1>2. \A k \in 1..n : q[k] = packet[a[k]] /\ NodeAt(activeHead, k) = a[k]
  <2>1. use \in Uses /\ Linked(activeHead, a)
    BY DEF Lists
  <2> QED BY <2>1, PacketsAre, NodeAtIs
<1>3. activeHead = (IF n = 0 THEN NULL ELSE a[1]) /\ activeTail = (IF n = 0 THEN NULL ELSE a[n])
      /\ (activeHead = NULL <=> n = 0)
  BY <1>1, LinksOf, ListFacts
<1>4. inactiveHead # NULL /\ ~(now > t) /\ use = "timeline"
  <2>1. use = "timeline" /\ now <= t /\ inactiveHead # NULL
    BY DEF InsertTlCmd
  <2>2. t \in Nat /\ now \in Nat
    BY <2>1, ListAssumption
  <2> HIDE DEF t
  <2> QED BY <2>1, <2>2 DEF t
<1>5. t \in Nat /\ \A k \in 1..n : q[k].ti \in Nat
  <2>1. \A k \in 1..n : q[k] \in Packets[use]
    BY <1>1, PacketsAre, ElementOfSeq
  <2> QED BY <1>4, <2>1, ListAssumption
<1>6. NotEarlier(t) = {k \in 2..n : q[k].ti >= t}
  <2>1. activeNodes = n
    BY LinksOf
  <2>2. \A k \in 2..n : k \in 1..n /\ Time(NodeAt(activeHead, k)) = q[k].ti
    BY <1>1, <1>2 DEF Time
  <2> QED BY <2>1, <2>2 DEF NotEarlier
<1>7. First(NotEarlier(t)) = ScanStop(q, t)
  BY <1>1, <1>6 DEF First, ScanStop, Min
<1> HIDE DEF n, q, t
<1>8. CASE n = 0
  <2>1. PushFront(pk)
    BY <1>3, <1>8 DEF InsertTlCmd
  <2>2. InsertPos(q, t) = 1 /\ ~Occupied(q, t)
    BY <1>1, <1>8 DEF InsertPos, Occupied
  <2> QED BY <1>4, <2>1, <2>2, PushFrontIs DEF q, t
<1>9. CASE n # 0
  <2>1. 1 \in 1..n /\ n \in 1..n /\ q # <<>> /\ Len(q) = n
    BY <1>1, <1>9
  <2>2. Time(activeTail) = q[n].ti /\ Time(activeHead) = q[1].ti
    BY <1>2, <1>3, <1>9, <2>1 DEF Time
  <2>3. q[n].ti \in Nat /\ q[1].ti \in Nat
    BY <1>5, <2>1
  <2>4. \/ q[n].ti < t /\ PushBack(pk)
        \/ q[n].ti >= t /\ q[1].ti > t /\ PushFront(pk)
        \/ q[n].ti > t /\ q[1].ti < t /\ InsertBetween(pk)
    BY <1>3, <1>9, <2>2 DEF InsertTlCmd, t
  <2>5. CASE q[n].ti < t /\ PushBack(pk)
    <3>1. InsertPos(q, t) = n + 1
      BY <1>5, <2>1, <2>3, <2>5 DEF InsertPos
    <3>2. ~Occupied(q, t)
      BY <1>5, <2>1, <2>3, <2>5 DEF Occupied
    <3> QED BY <1>4, <2>5, <3>1, <3>2, PushBackIs DEF q, t, n
  <2>6. CASE q[n].ti >= t /\ q[1].ti > t /\ PushFront(pk)
    <3>1. InsertPos(q, t) = 1
      BY <1>5, <2>1, <2>3, <2>6 DEF InsertPos
    <3>2. ~Occupied(q, t)
      BY <1>5, <2>1, <2>3, <2>6 DEF Occupied
    <3> QED BY <1>4, <2>6, <3>1, <3>2, PushFrontIs DEF q, t
  <2>7. CASE q[n].ti > t /\ q[1].ti < t /\ InsertBetween(pk)
    <3> DEFINE k == ScanStop(q, t)
               S == {i \in 2..n : q[i].ti >= t}
    <3>1. n # 1 /\ n \in S
      <4>1. n # 1
        BY <1>5, <2>3, <2>7
      <4>2. n \in 2..n /\ q[n].ti >= t
        BY <1>1, <1>5, <1>9, <2>3, <2>7, <4>1
      <4> QED BY <4>1, <4>2
    <3>2. k = Min(S)
      BY <2>1 DEF ScanStop
    <3>3. S \in SUBSET Nat
      OBVIOUS
    <3> HIDE DEF k
    <3>4. k \in S
      <4> HIDE DEF S
      <4> QED BY <3>1, <3>2, <3>3, MinOfNats
    <3>5. k \in 2..n /\ k \in 1..n /\ k - 1 \in 1..n
      BY <1>1, <3>4
    <3>6. NodeAt(activeHead, k) = a[k] /\ NodeAt(activeHead, k - 1) = a[k - 1]
      BY <1>2, <3>5
    <3>7. q[k].ti # t /\ InsertAfter(a[k - 1], pk)
      <4>1. First(NotEarlier(pk.ti)) = k
        BY <1>7 DEF k, t
      <4>2. q[k].ti = Time(a[k])
        BY <1>2, <3>5 DEF Time
      <4> QED BY <2>7, <3>6, <4>1, <4>2 DEF InsertBetween, t
    <3>8. InsertPos(q, t) = k
      BY <1>5, <2>1, <2>3, <2>7 DEF InsertPos, k
    <3>9. ~Occupied(q, t)
      BY <1>5, <2>1, <2>3, <2>7, <3>7 DEF Occupied, k
    <3>10. Put(a, b, k, pk)
      BY <1>4, <3>5, <3>7, InsertAfterIs DEF n
    <3> QED BY <1>4, <3>8, <3>9, <3>10 DEF q, t
  <2> QED BY <2>4, <2>5, <2>6, <2>7
<1> QED BY <1>8, <1>9

-----------------------------------------------------------------------------
\* Each operation is the operation of the queue, and keeps the links sound.
LEMMA PushIs ==
    ASSUME NEW pk \in Packets[use], ListInv, Push(pk)
    PROVE  ListInv' /\ Queue!QueuePush(pk)
<1>1. PICK a, b : Stored /\ Lists(a, b)
  BY DEF ListInv
<1>2. use # "timeline" /\ PushBack(pk) /\ inactiveHead # NULL
  BY DEF Push, PushBack, Store
<1> DEFINE q == PacketsOf(a)
           S == Packets[use]
<1>3. Put(a, b, Len(a) + 1, pk)
  BY <1>1, <1>2, PushBackIs
<1>4. ListInv' /\ Q' = InsertAt(q, Len(a) + 1, pk) /\ Len(q) < Size[use]
  BY <1>1, <1>3, PutInserts
<1>5. Q = q /\ q \in Seq(S) /\ Len(q) = Len(a)
  BY <1>1, PacketsAre
<1>6. executed' = executed /\ use' = use
  BY <1>2 DEF PushBack, Store
<1> HIDE DEF q
<1>7. InsertAt(q, Len(a) + 1, pk) = Append(q, pk)
  BY <1>5, EndsOfSequences
<1>8. Q' = Append(Q, pk) /\ Len(Q) < Size[use]
  BY <1>4, <1>5, <1>7
<1> QED BY <1>2, <1>4, <1>6, <1>8 DEF Queue!QueuePush, Q

\* PL_insert_tl_cmd, with the order in which it compares the times.
LEMMA InsertIs ==
    ASSUME NEW pk \in Packets[use], NEW now \in Clock, ListInv, InsertTlCmd(pk, now)
    PROVE  ListInv' /\ Queue!QueueInsert(pk, now)
<1>1. PICK a, b : Stored /\ Lists(a, b)
  BY DEF ListInv
<1> DEFINE q == PacketsOf(a)
<1>2. Put(a, b, InsertPos(q, pk.ti), pk) /\ ~(now > pk.ti) /\ ~Occupied(q, pk.ti)
  BY <1>1, InsertTlCmdIs
<1>3. ListInv' /\ Q' = InsertAt(q, InsertPos(q, pk.ti), pk) /\ Len(q) < Size[use]
  BY <1>1, <1>2, PutInserts
<1>4. Q = q /\ Len(q) \in Nat
  BY <1>1, PacketsAre, ListFacts
<1>5. use = "timeline" /\ executed' = executed /\ use' = use
  BY DEF InsertTlCmd, InsertBetween, InsertAfter, PushFront, PushBack, Store
<1>6. Size[use] \in Nat
  BY <1>1, ListFacts
<1> HIDE DEF q
<1>7. InsertAck(q, Size[use], pk.ti, now) = "PL_SUCCESS"
  <2>1. ~(Len(q) >= Size[use])
    BY <1>3, <1>4, <1>6
  <2> QED BY <1>2, <2>1 DEF InsertAck, IsFull
<1>8. Q' = Inserted(q, pk)
  BY <1>3 DEF Inserted
<1>9. Queue!InsertAck(Q, Size[use], pk.ti, now) = "PL_SUCCESS" /\ Q' = Queue!Inserted(Q, pk)
  BY <1>4, <1>7, <1>8, SameOperators
<1> QED BY <1>3, <1>5, <1>9 DEF Queue!QueueInsert, Q

\* PL_drop_executed takes the first packet.
LEMMA TakeIs ==
    ASSUME ListInv, DropExecuted
    PROVE  ListInv' /\ Queue!QueueTake
<1>1. PICK a, b : Stored /\ Lists(a, b)
  BY DEF ListInv
<1> DEFINE q == PacketsOf(a)
           S == Packets[use]
<1>2. DropHead /\ use' = use /\ executed' = (executed + 1) % ExecMod
  BY DEF DropExecuted
<1>3. a # <<>> /\ Taken(a, 1)
  BY <1>1, <1>2, DropHeadIs
<1>4. ListInv' /\ Q' = RemoveAt(q, 1)
  BY <1>1, <1>3, TakenRemoves
<1>5. Q = q /\ q \in Seq(S) /\ q # <<>>
  BY <1>1, <1>3, PacketsAre
<1> HIDE DEF q
<1>6. Q' = Tail(Q) /\ Q # <<>>
  BY <1>4, <1>5, EndsOfSequences
<1> QED BY <1>2, <1>4, <1>6 DEF Queue!QueueTake, Q

\* TLCD_drop_tl_cmd_at_ drops the first packet with the time, if there is one.
LEMMA DropAtIs ==
    ASSUME NEW time, ListInv, DropTlCmdAt(time)
    PROVE  ListInv' /\ Queue!QueueDropAt(time)
<1>1. PICK a, b : Stored /\ Lists(a, b)
  BY DEF ListInv
<1> DEFINE q == PacketsOf(a)
           n == Len(a)
           found == {i \in 1..activeNodes : Time(NodeAt(activeHead, i)) = time}
           k == First(found)
<1>2. n \in Nat /\ q = Q /\ Len(q) = n /\ activeNodes = n /\ DOMAIN q = 1..n
  BY <1>1, PacketsAre, ListFacts, LinksOf
<1>3. \A i \in 1..n : q[i] = packet[a[i]] /\ NodeAt(activeHead, i) = a[i]
  <2>1. use \in Uses /\ Linked(activeHead, a)
    BY <1>1 DEF Lists
  <2> QED BY <1>1, <2>1, PacketsAre, NodeAtIs
<1>4. found = PlannedAt(q, time)
  <2> HIDE DEF q
  <2> QED BY <1>2, <1>3 DEF PlannedAt, Time
<1>5. /\ use = "timeline" /\ found # {} /\ executed' = executed /\ use' = use
      /\ \/ k = 1 /\ DropHead
         \/ k > 1 /\ DropNode(NodeAt(activeHead, k - 1), NodeAt(activeHead, k))
  BY DEF DropTlCmdAt
<1>6. k = Min(found)
  BY DEF First, Min
<1>7. found \in SUBSET (1..n) /\ found \in SUBSET Nat
  <2> HIDE DEF n
  <2> QED BY <1>2
<1> HIDE DEF q, n, found, k
<1>8. k \in 1..n
  BY <1>5, <1>6, <1>7, MinOfNats
<1>9. Taken(a, k)
  <2>1. CASE k = 1 /\ DropHead
    BY <1>1, <1>5, <2>1, DropHeadIs
  <2>2. CASE k > 1 /\ DropNode(NodeAt(activeHead, k - 1), NodeAt(activeHead, k))
    <3>1. k \in 2..n /\ k - 1 \in 1..n
      BY <1>2, <1>8, <2>2
    <3>2. DropNode(a[k - 1], a[k])
      BY <1>3, <1>8, <2>2, <3>1
    <3> QED BY <1>1, <1>5, <3>1, <3>2, DropNodeIs DEF n
  <2> QED BY <1>5, <2>1, <2>2
<1>10. ListInv' /\ Q' = RemoveAt(q, k)
  BY <1>1, <1>9, TakenRemoves DEF q
<1>11. Q' = DropAt(Q, time) /\ PlannedAt(Q, time) # {}
  BY <1>2, <1>4, <1>5, <1>6, <1>10 DEF DropAt
<1>12. Q' = Queue!DropAt(Q, time) /\ Queue!PlannedAt(Q, time) # {}
  BY <1>11, SameOperators
<1> QED BY <1>5, <1>10, <1>12 DEF Queue!QueueDropAt, Q

\* A list as PL_initialize and PL_clear_list leave it is an empty queue.
Cleared ==
    /\ use \in Uses /\ next = Stock /\ activeHead = NULL /\ activeTail = NULL
    /\ inactiveHead = 1 /\ activeNodes = 0 /\ packet \in [Nodes -> Packets[use]]

Emptied == ListInv /\ Q = <<>>

\* All nodes are free, and the queue has no packet.
LEMMA ClearedIsEmpty == Cleared => Emptied
<1> SUFFICES ASSUME Cleared PROVE Emptied
  OBVIOUS
<1>1. Lists(<<>>, [i \in Nodes |-> i])
  BY StockIs DEF Cleared
<1>2. Stored
  BY DEF Stored, Stock, Cleared
<1>3. PacketsOf(<<>>) = <<>>
  BY DEF PacketsOf
<1>4. Q = PacketsOf(<<>>)
  BY <1>1, <1>2, PacketsAre
<1> QED BY <1>1, <1>2, <1>3, <1>4 DEF ListInv, Emptied

\* The same in the next state.
LEMMA ClearedIsEmptyThen == Cleared' => Emptied'
  BY ClearedIsEmpty, PTL

\* PL_clear_list empties the queue.
LEMMA ClearIs ==
    ASSUME ListInv, ClearList
    PROVE  ListInv' /\ Queue!QueueClear
<1>1. PICK a, b : Stored /\ Lists(a, b)
  BY DEF ListInv
<1>2. use \in Uses
  BY <1>1, LinksOf
<1>3. use' = use /\ Nodes' = Nodes /\ Stock' = Stock /\ executed' = 0
  BY DEF ClearList, Nodes, Stock
<1>4. Cleared'
  BY <1>1, <1>2, <1>3 DEF ClearList, Stored, Cleared
<1>5. Emptied'
  BY <1>4, ClearedIsEmptyThen
<1> QED BY <1>3, <1>5 DEF Queue!QueueClear, Q, Emptied

-----------------------------------------------------------------------------
\* Every step of the list is a step of the queue, and the links stay sound.
LEMMA ListStep ==
    ASSUME ListInv, [Next]_vars
    PROVE  ListInv' /\ [Queue!QueueNext]_Queue!queueVars
<1>1. CASE UNCHANGED vars
  <2>1. ListInv'
    BY <1>1 DEF ListInv, Stored, Lists, Linked, Distinct, Apart, Nodes, Uses, vars, nodes
  <2>2. UNCHANGED Queue!queueVars
    BY <1>1 DEF Queue!queueVars, NodeAt, vars, nodes
  <2> QED BY <2>1, <2>2
<1>2. ASSUME NEW pk \in Packets[use], Push(pk) PROVE ListInv' /\ Queue!QueueNext
  <2>1. ListInv' /\ Queue!QueuePush(pk)
    BY <1>2, PushIs
  <2> QED BY <2>1 DEF Queue!QueueNext
<1>3. ASSUME NEW pk \in Packets[use], NEW now \in Clock, InsertTlCmd(pk, now)
      PROVE  ListInv' /\ Queue!QueueNext
  <2>1. ListInv' /\ Queue!QueueInsert(pk, now)
    BY <1>3, InsertIs
  <2> QED BY <2>1 DEF Queue!QueueNext
<1>4. ASSUME use = "timeline", NEW pk \in Packets[use], DropTlCmdAt(pk.ti)
      PROVE  ListInv' /\ Queue!QueueNext
  <2>1. ListInv' /\ Queue!QueueDropAt(pk.ti)
    BY <1>4, DropAtIs
  <2> QED BY <1>4, <2>1 DEF Queue!QueueNext
<1>5. CASE DropExecuted
  BY <1>5, TakeIs DEF Queue!QueueNext
<1>6. CASE ClearList
  BY <1>6, ClearIs DEF Queue!QueueNext
<1> QED BY <1>1, <1>2, <1>3, <1>4, <1>5, <1>6 DEF Next

\* At first the queue is empty.
LEMMA ListInit ==
    ASSUME Init
    PROVE  ListInv /\ Queue!QueueInit
<1>1. \A u \in Uses : (CHOOSE p \in Packets[u] : TRUE) \in Packets[u]
  BY ListAssumption
<1>2. Cleared
  BY <1>1 DEF Init, Cleared
<1>3. Emptied
  BY <1>2, ClearedIsEmpty
<1> QED BY <1>3 DEF Init, Emptied, Q, Queue!QueueInit, Uses

(***************************************************************************)
(* No node is ever lost: whatever the operations and their order, each     *)
(* node of the stock is in the active or in the inactive list, in none     *)
(* twice, and head, tail and length are those of the active list           *)
(* (packet_list.c links and counts in separate statements).                *)
(***************************************************************************)
THEOREM NoNodeIsLost == Spec => []ListInv
<1>1. Init => ListInv
  BY ListInit
<1>2. ListInv /\ [Next]_vars => ListInv'
  BY ListStep
<1> QED BY <1>1, <1>2, PTL DEF Spec

(***************************************************************************)
(* The nodes implement the queue: every operation of packet_list.c, with   *)
(* its links, does to the packets what the queue says, and nothing else.   *)
(***************************************************************************)
THEOREM TheListIsAQueue == Spec => ImplementsQueue
<1>1. Init => Queue!QueueInit
  BY ListInit
<1>2. ListInv /\ [Next]_vars => [Queue!QueueNext]_Queue!queueVars
  BY ListStep
<1> QED BY <1>1, <1>2, NoNodeIsLost, PTL DEF Spec, ImplementsQueue, Queue!QueueSpec

-----------------------------------------------------------------------------
(***************************************************************************)
(* The uplink.  A frame carries a number, not a command.  That the number  *)
(* says which command it is rests on a bound that no single step shows:    *)
(* whatever is on the way is less than Window away from the command that   *)
(* is expected (Near), because frames arrive in the order in which they    *)
(* were sent and the ground never sends more than Window commands ahead of *)
(* what it knows to be accepted; and twice a window is less than the       *)
(* modulus.                                                                *)
(***************************************************************************)
\* Frames carry the number of their command.
Frames ==
    [type : {"AD"}, ns : 0..(NumberMod - 1), id : 0..(Total - 1)]
        \cup [type : {"UNLOCK"}] \cup [type : {"SET_VR"}, vr : 0..(NumberMod - 1)]

\* Types, and the numbers of the frames.
UpTypeOK ==
    /\ farm \in [vr : 0..(NumberMod - 1), lockout : BOOLEAN, retransmit : BOOLEAN,
                 pw : Widths \cup {DefaultWidth}]
    /\ flight \in Seq(Frames)
    /\ report # NULL => report \in [vr : 0..(NumberMod - 1), lockout : BOOLEAN]
    /\ ground \in [acked : 0..Total, hi : 0..Total, need : {"none", "unlock", "set_vr"}]
    /\ accepted \in 0..Total /\ inOrder \in BOOLEAN /\ upset \in {"no", "narrow", "reset"}
    /\ \A i \in 1..Len(flight) : flight[i].type = "AD" => flight[i].ns = flight[i].id % NumberMod

\* Ground and receiver: acknowledged <= accepted <= sent, within a window, and the number of the
\* receiver is that of the next command.
Counted ==
    /\ ground.acked <= accepted /\ accepted <= ground.hi /\ ground.hi <= ground.acked + Window
    /\ inOrder /\ farm.vr = accepted % NumberMod
    /\ farm.retransmit => accepted < ground.hi

\* What is on the way is within a window of the expected command, and of what is behind it.
Near ==
    /\ \A i \in 1..Len(flight) :
         flight[i].type = "AD" => flight[i].id < ground.hi /\ accepted <= flight[i].id + Window
    /\ \A i, j \in 1..Len(flight) :
         i < j /\ flight[i].type = "AD" /\ flight[j].type = "AD" => flight[i].id < flight[j].id + Window

\* Set V(R) is neither needed nor on the way, and the report names a command that was expected
\* since the last acknowledgement.
Unforced ==
    /\ \A i \in 1..Len(flight) : flight[i].type # "SET_VR"
    /\ ground.need # "set_vr"
    /\ report # NULL => \E id \in ground.acked..accepted : report.vr = id % NumberMod

\* The receiver locks itself, or has a window smaller than the ground's, only after it was narrowed.
Locked == (farm.lockout \/ farm.pw < Window) => upset = "narrow"

\* The inductive invariant. After a reset only the types are left.
UpInv == UpTypeOK /\ (upset # "reset" => Counted /\ Near /\ Unforced /\ Locked)

-----------------------------------------------------------------------------
\* What the assumptions on the windows say of each of them.
LEMMA Windows ==
  /\ NumberMod \in Nat \ {0} /\ Window \in Nat \ {0} /\ 2 * Window < NumberMod
  /\ Total \in Nat
  /\ \A pw \in Widths \cup {DefaultWidth} :
        pw \in Nat \ {0} /\ 2 * pw < NumberMod /\ pw + Window < NumberMod
  /\ Window <= DefaultWidth
<1>1. DefaultWidth \in Nat \ {0} /\ 2 * DefaultWidth < NumberMod
  BY UplinkAssumption
<1>2. \A pw \in Widths \cup {DefaultWidth} : pw \in Nat \ {0} /\ 2 * pw < NumberMod
  BY UplinkAssumption
<1> QED BY <1>1, <1>2, UplinkAssumption

\* The numbers that are compared, without the remainders.
LEMMA Counts ==
  ASSUME UpTypeOK
  PROVE  /\ ground.acked \in Nat /\ ground.hi \in Nat /\ accepted \in Nat
         /\ Counted => /\ ground.acked <= accepted /\ accepted <= ground.hi
                       /\ ground.hi <= ground.acked + Window
<1>1. ground.acked \in Nat /\ ground.hi \in Nat /\ accepted \in Nat
  BY Windows DEF UpTypeOK
<1> QED BY <1>1 DEF Counted

\* What is left on the way when the first frame has arrived or is lost.
LEMMA FirstFrameGone ==
  ASSUME UpTypeOK, flight # <<>>, flight' = Tail(flight)
  PROVE  /\ Head(flight) \in Frames /\ Head(flight) = flight[1] /\ 1 \in 1..Len(flight)
         /\ flight' \in Seq(Frames)
         /\ \A i \in 1..Len(flight') : i + 1 \in 1..Len(flight) /\ flight'[i] = flight[i + 1]
<1>1. flight \in Seq(Frames)
  BY DEF UpTypeOK
<1>2. Len(flight) \in Nat /\ Len(flight) > 0
  BY <1>1
<1>3. Len(flight') = Len(flight) - 1 /\ \A i \in 1..Len(flight') : flight'[i] = flight[i + 1]
  BY <1>1, <1>2
<1> QED BY <1>1, <1>2, <1>3

\* What is on the way when a frame was sent.
LEMMA FrameSent ==
  ASSUME UpTypeOK, NEW frame \in Frames, flight' = Append(flight, frame)
  PROVE  /\ flight' \in Seq(Frames)
         /\ \A i \in 1..Len(flight') : flight'[i] = frame \/ (i \in 1..Len(flight) /\ flight'[i] = flight[i])
         /\ \A i, j \in 1..Len(flight') :
               i < j => /\ i \in 1..Len(flight) /\ flight'[i] = flight[i]
                        /\ flight'[j] = frame \/ (j \in 1..Len(flight) /\ flight'[j] = flight[j])
<1>1. flight \in Seq(Frames) /\ Len(flight) \in Nat
  BY DEF UpTypeOK
<1>2. Len(flight') = Len(flight) + 1 /\ flight'[Len(flight) + 1] = frame
      /\ \A i \in 1..Len(flight) : flight'[i] = flight[i]
  BY <1>1
<1>3. flight' \in Seq(Frames)
  BY <1>1
<1> QED BY <1>1, <1>2, <1>3

\* The frame that arrives first, among the numbers: its command is not further than Window from the
\* one that is expected, so its number says on which side it is, and whether it is this one.
LEMMA NumberSaysWhich ==
  ASSUME UpTypeOK, Counted, Near, NEW k \in 1..Len(flight), flight[k].type = "AD"
  PROVE  LET frame == flight[k]
         IN  /\ frame.id \in Nat /\ frame.id < ground.hi
             /\ IsExpected(frame) <=> frame.id = accepted
             /\ IsAhead(frame) => accepted < frame.id
             /\ farm.pw >= Window => ~IsOutside(frame)
<1> DEFINE frame == flight[k]
<1>1. frame \in Frames
  BY DEF UpTypeOK
<1>2. frame.id \in 0..(Total - 1) /\ frame.ns = frame.id % NumberMod
  BY <1>1 DEF UpTypeOK, Frames
<1>3. accepted \in Nat /\ farm.vr = accepted % NumberMod /\ farm.pw \in Widths \cup {DefaultWidth}
      /\ ground.acked \in Nat /\ ground.hi \in Nat
  BY DEF UpTypeOK, Counted
<1>4. frame.id < ground.hi /\ accepted <= frame.id + Window
  BY DEF Near
<1>5. frame.id \in Nat
  BY <1>2, Windows
<1>6. frame.id < accepted + Window
  <2>1. ground.acked <= accepted /\ ground.hi <= ground.acked + Window
    BY DEF Counted
  <2>2. \A i \in Nat : i < ground.hi => i < accepted + Window
    BY <2>1, <1>3, Windows
  <2> QED BY <2>2, <1>4, <1>5
<1>7. frame.ns = frame.id % NumberMod /\ farm.vr = accepted % NumberMod
  BY <1>2, <1>3
<1> DEFINE id == frame.id  d == SeqDiff(frame)
<1>8. /\ id \in Nat /\ d = (NumberMod + (id % NumberMod) - (accepted % NumberMod)) % NumberMod
      /\ id < ground.hi /\ id < accepted + Window /\ accepted <= id + Window
  BY <1>7, <1>4, <1>5, <1>6 DEF SeqDiff
<1>9. farm.pw \in Nat \ {0} /\ 2 * farm.pw < NumberMod /\ farm.pw + Window < NumberMod
  BY <1>3, Windows
<1>10. /\ IsExpected(frame) <=> d = 0
       /\ IsAhead(frame) <=> d # 0 /\ d <= farm.pw
       /\ IsOutside(frame) <=> d # 0 /\ ~(d <= farm.pw) /\ ~(NumberMod - farm.pw <= d)
  BY DEF IsExpected, IsAhead, IsOld, IsOutside
<1>11. /\ id \in Nat /\ id < ground.hi
       /\ d = 0 <=> id = accepted
       /\ (d # 0 /\ d <= farm.pw) => accepted < id
       /\ farm.pw >= Window => ~(d # 0 /\ ~(d <= farm.pw) /\ ~(NumberMod - farm.pw <= d))
  <2> HIDE DEF id, d
  <2>1. CASE accepted <= id
    <3>1. id - accepted < NumberMod
      BY <2>1, <1>8, <1>3, Windows
    <3>2. NumberMod \in Nat \ {0} /\ id \in Nat /\ accepted \in Nat /\ accepted <= id
      BY <2>1, <1>8, <1>3, Windows
    <3>3. (NumberMod + (id % NumberMod) - (accepted % NumberMod)) % NumberMod = id - accepted
      BY <3>1, <3>2, Difference, ZenonT(30)
    <3>4. d = id - accepted
      BY <3>3, <1>8
    <3> QED BY <3>4, <2>1, <1>8, <1>3, <1>9, Windows
  <2>2. CASE id < accepted
    <3>1. accepted - id < NumberMod /\ id # accepted
      BY <2>2, <1>8, <1>3, Windows, SMTT(30)
    <3>2. NumberMod \in Nat \ {0} /\ id \in Nat /\ accepted \in Nat /\ id <= accepted
      BY <2>2, <1>8, <1>3, Windows
    <3>3. (NumberMod + (id % NumberMod) - (accepted % NumberMod)) % NumberMod
             = IF accepted = id THEN 0 ELSE NumberMod - (accepted - id)
      BY <3>1, <3>2, Difference, ZenonT(30)
    <3>4. d = NumberMod - (accepted - id)
      BY <3>1, <3>3, <1>8
    <3> QED BY <3>4, <2>2, <1>8, <1>3, <1>9, Windows
  <2> QED BY <2>1, <2>2, <1>8, <1>3
<1> QED BY <1>11, <1>10

\* What is still on the way when the first frame has gone is as near as before, also to the
\* command after it if that frame carried the expected one.
LEMMA NearAfterFirst ==
  ASSUME UpTypeOK, Near, flight # <<>>, flight' = Tail(flight), ground' = ground,
         \/ accepted' = accepted
         \/ accepted' = accepted + 1 /\ flight[1].type = "AD" /\ flight[1].id = accepted
  PROVE  Near'
<1>1. /\ 1 \in 1..Len(flight) /\ flight' \in Seq(Frames) /\ Len(flight') \in Nat /\ Len(flight) \in Nat
      /\ \A i \in 1..Len(flight') : i + 1 \in 1..Len(flight) /\ flight'[i] = flight[i + 1]
  BY FirstFrameGone DEF UpTypeOK
<1>2. \A i \in 1..Len(flight') :
         flight'[i].type = "AD" => flight'[i].id < ground.hi /\ accepted' <= flight'[i].id + Window
  <2> SUFFICES ASSUME NEW i \in 1..Len(flight'), flight'[i].type = "AD"
               PROVE  flight'[i].id < ground.hi /\ accepted' <= flight'[i].id + Window
    OBVIOUS
  <2>1. i + 1 \in 1..Len(flight) /\ 1 < i + 1 /\ flight'[i] = flight[i + 1]
    BY <1>1
  <2>2. flight[i + 1].id < ground.hi /\ accepted <= flight[i + 1].id + Window
    BY <2>1 DEF Near
  <2>3. CASE accepted' = accepted
    BY <2>1, <2>2, <2>3
  <2>4. CASE accepted' = accepted + 1 /\ flight[1].type = "AD" /\ flight[1].id = accepted
    <3>1. accepted < flight[i + 1].id + Window
      BY <2>1, <2>4, <1>1 DEF Near
    <3>2. flight[i + 1].id \in Nat /\ accepted \in Nat /\ Window \in Nat
      <4>1. flight[i + 1] \in Frames
        BY <2>1 DEF UpTypeOK
      <4> QED BY <4>1, <2>1, Windows DEF UpTypeOK, Frames
    <3>3. accepted' <= flight[i + 1].id + Window
      BY <3>1, <3>2, <2>4
    <3> QED BY <3>3, <2>1, <2>2
  <2> QED BY <2>3, <2>4
<1>3. \A i, j \in 1..Len(flight') :
         i < j /\ flight'[i].type = "AD" /\ flight'[j].type = "AD" => flight'[i].id < flight'[j].id + Window
  <2> SUFFICES ASSUME NEW i \in 1..Len(flight'), NEW j \in 1..Len(flight'), i < j,
                      flight'[i].type = "AD", flight'[j].type = "AD"
               PROVE  flight'[i].id < flight'[j].id + Window
    OBVIOUS
  <2>1. i + 1 \in 1..Len(flight) /\ j + 1 \in 1..Len(flight) /\ i + 1 < j + 1
        /\ flight'[i] = flight[i + 1] /\ flight'[j] = flight[j + 1]
    BY <1>1
  <2> QED BY <2>1 DEF Near
<1> QED BY <1>2, <1>3 DEF Near

\* The frames that stay are frames as before.
LEMMA ArrivedTypes ==
  ASSUME UpTypeOK, flight # <<>>, flight' = Tail(flight)
  PROVE  /\ flight' \in Seq(Frames)
         /\ \A i \in 1..Len(flight') : flight'[i].type = "AD" => flight'[i].ns = flight'[i].id % NumberMod
         /\ (\A i \in 1..Len(flight) : flight[i].type # "SET_VR")
               => \A i \in 1..Len(flight') : flight'[i].type # "SET_VR"
<1>1. /\ flight' \in Seq(Frames)
      /\ \A i \in 1..Len(flight') : i + 1 \in 1..Len(flight) /\ flight'[i] = flight[i + 1]
  BY FirstFrameGone
<1> QED BY <1>1 DEF UpTypeOK

\* GS_check_ad_cmd_ accepts the expected number: its command is the expected one.
LEMMA AcceptStep ==
  ASSUME UpInv, flight # <<>>, flight' = Tail(flight), Head(flight).type = "AD", ~farm.lockout,
         Accept(Head(flight)), UNCHANGED <<report, ground, upset>>
  PROVE  UpInv'
<1> DEFINE frame == flight[1]
<1>1. frame = Head(flight) /\ 1 \in 1..Len(flight) /\ frame \in Frames /\ frame.type = "AD"
      /\ frame.id \in 0..(Total - 1)
  BY FirstFrameGone DEF UpInv, Frames
<1>2. farm' = [farm EXCEPT !.retransmit = FALSE, !.vr = (farm.vr + 1) % NumberMod]
      /\ accepted' = (IF frame.id = accepted THEN accepted + 1 ELSE accepted)
      /\ inOrder' = (inOrder /\ frame.id = accepted) /\ IsExpected(frame)
  BY <1>1 DEF Accept
<1>3. UpTypeOK'
  <2>1. farm' \in [vr : 0..(NumberMod - 1), lockout : BOOLEAN, retransmit : BOOLEAN,
                   pw : Widths \cup {DefaultWidth}]
    <3>1. farm.vr + 1 \in Nat /\ NumberMod \in Nat \ {0}
      BY Windows DEF UpInv, UpTypeOK
    <3>2. (farm.vr + 1) % NumberMod \in 0..(NumberMod - 1)
      BY <3>1, Division
    <3> QED BY <3>2, <1>2 DEF UpInv, UpTypeOK
  <2>2. accepted' \in 0..Total
    BY <1>1, <1>2, Windows DEF UpInv, UpTypeOK
  <2> QED BY <2>1, <2>2, <1>2, ArrivedTypes DEF UpInv, UpTypeOK
<1>4. ASSUME upset' # "reset" PROVE (Counted /\ Near /\ Unforced /\ Locked)'
  <2>1. Counted /\ Near /\ Unforced /\ Locked /\ UpTypeOK
    BY <1>4 DEF UpInv
  <2>2. frame.id = accepted /\ frame.id < ground.hi
    BY <2>1, <1>1, <1>2, NumberSaysWhich
  <2>3. accepted' = accepted + 1 /\ inOrder' = inOrder /\ ground' = ground
    BY <1>2, <2>2, <2>1 DEF UpTypeOK
  <2>4. farm'.vr = accepted' % NumberMod
    <3>1. farm'.vr = ((accepted % NumberMod) + 1) % NumberMod
      BY <1>2, <2>1 DEF UpTypeOK, Counted
    <3>2. accepted \in Nat /\ NumberMod \in Nat \ {0}
      BY <2>1, Windows DEF UpTypeOK
    <3>3. ((accepted % NumberMod) + 1) % NumberMod = (accepted + 1) % NumberMod
      BY <3>2, Successor
    <3> QED BY <3>1, <3>3, <2>3
  <2>5. Counted'
    <3>1. farm'.retransmit = FALSE
      BY <1>2, <2>1 DEF UpTypeOK
    <3>2. ground.acked \in Nat /\ ground.hi \in Nat /\ accepted \in Nat /\ Window \in Nat
      BY <2>1, Windows DEF UpTypeOK
    <3> QED BY <3>1, <3>2, <2>1, <2>2, <2>3, <2>4 DEF Counted
  <2>6. Near'
    BY <2>1, <2>2, <2>3, <1>1, NearAfterFirst
  <2>7. Unforced'
    <3>1. ground.acked \in Nat /\ accepted \in Nat /\ ground.acked..accepted \subseteq ground.acked..accepted'
      BY <2>1, <2>3 DEF UpTypeOK
    <3> QED BY <3>1, <2>1, <2>3, ArrivedTypes DEF Unforced
  <2>8. Locked'
    BY <1>2, <2>1 DEF Locked, UpTypeOK
  <2> QED BY <2>5, <2>6, <2>7, <2>8
<1> QED BY <1>3, <1>4 DEF UpInv

\* A frame arrives, or is lost, that is not accepted: the expected number stays.
LEMMA RefuseStep ==
  ASSUME UpInv, flight # <<>>, flight' = Tail(flight),
         UNCHANGED <<report, ground, upset, accepted, inOrder>>,
         farm' \in [vr : 0..(NumberMod - 1), lockout : BOOLEAN, retransmit : BOOLEAN,
                    pw : Widths \cup {DefaultWidth}],
         upset # "reset" => farm'.vr = farm.vr /\ (farm'.retransmit => accepted < ground.hi) /\ Locked'
  PROVE  UpInv'
<1>1. UpTypeOK'
  BY ArrivedTypes DEF UpInv, UpTypeOK
<1>2. ASSUME upset' # "reset" PROVE (Counted /\ Near /\ Unforced /\ Locked)'
  <2>1. Counted /\ Near /\ Unforced /\ UpTypeOK
    BY <1>2 DEF UpInv
  <2>2. Near'
    BY <2>1, NearAfterFirst
  <2>3. Unforced'
    BY <2>1, ArrivedTypes DEF Unforced
  <2> QED BY <2>1, <2>2, <2>3, <1>2 DEF Counted
<1> QED BY <1>1, <1>2 DEF UpInv

\* GS_check_ad_cmd_ discards another number: something is missing if it is ahead, and it is
\* outside the windows only if the window of the receiver is smaller than that of the ground.
LEMMA DiscardStep ==
  ASSUME UpInv, flight # <<>>, flight' = Tail(flight), Head(flight).type = "AD", ~farm.lockout,
         Discard(Head(flight)), UNCHANGED <<report, ground, upset>>
  PROVE  UpInv'
<1> DEFINE frame == flight[1]
<1>1. frame = Head(flight) /\ 1 \in 1..Len(flight) /\ frame.type = "AD"
  BY FirstFrameGone DEF UpInv
<1>2. farm' = [farm EXCEPT !.retransmit = farm.retransmit \/ IsAhead(frame), !.lockout = IsOutside(frame)]
      /\ UNCHANGED <<accepted, inOrder>>
  BY <1>1 DEF Discard
<1>3. IsAhead(frame) \in BOOLEAN /\ IsOutside(frame) \in BOOLEAN
  BY DEF IsAhead, IsOutside
<1>4. farm' \in [vr : 0..(NumberMod - 1), lockout : BOOLEAN, retransmit : BOOLEAN,
                 pw : Widths \cup {DefaultWidth}]
      /\ farm'.vr = farm.vr /\ farm'.pw = farm.pw /\ farm'.lockout = IsOutside(frame)
      /\ farm'.retransmit = (farm.retransmit \/ IsAhead(frame))
  BY <1>2, <1>3 DEF UpInv, UpTypeOK
<1>5. ASSUME upset # "reset" PROVE (farm'.retransmit => accepted < ground.hi) /\ Locked'
  <2>1. Counted /\ Near /\ Locked /\ UpTypeOK
    BY <1>5 DEF UpInv
  <2>2. /\ frame.id \in Nat /\ frame.id < ground.hi
        /\ IsAhead(frame) => accepted < frame.id
        /\ farm.pw >= Window => ~IsOutside(frame)
    BY <2>1, <1>1, NumberSaysWhich
  <2>3. farm'.retransmit => accepted < ground.hi
    BY <2>1, <2>2, <1>4 DEF Counted, UpTypeOK
  <2>4. Locked'
    BY <2>1, <2>2, <1>4, Windows DEF Locked, UpTypeOK
  <2> QED BY <2>3, <2>4
<1> QED BY <1>2, <1>4, <1>5, RefuseStep

\* GS_check_bc_cmd_: unlock, and set V(R), which the ground sends after a reset only.
LEMMA ControlStep ==
  ASSUME UpInv, flight # <<>>, flight' = Tail(flight), UNCHANGED <<report, ground, upset>>,
         CheckUnlock(Head(flight)) \/ CheckSetVr(Head(flight))
  PROVE  UpInv'
<1>1. Head(flight) \in Frames /\ Head(flight) = flight[1] /\ 1 \in 1..Len(flight)
  BY FirstFrameGone DEF UpInv
<1>2. UpTypeOK /\ UNCHANGED <<accepted, inOrder>>
  BY DEF UpInv, CheckUnlock, CheckSetVr
<1>3. CASE CheckUnlock(Head(flight))
  <2>1. farm' = [farm EXCEPT !.lockout = FALSE, !.retransmit = FALSE]
    BY <1>3 DEF CheckUnlock
  <2>2. farm' \in [vr : 0..(NumberMod - 1), lockout : BOOLEAN, retransmit : BOOLEAN,
                   pw : Widths \cup {DefaultWidth}]
        /\ farm'.vr = farm.vr /\ farm'.pw = farm.pw /\ farm'.lockout = FALSE /\ farm'.retransmit = FALSE
    BY <2>1, <1>2 DEF UpTypeOK
  <2>3. upset # "reset" => Locked'
    BY <2>2 DEF UpInv, Locked
  <2> QED BY <2>2, <2>3, <1>2, RefuseStep
<1>4. CASE CheckSetVr(Head(flight))
  <2>1. flight[1] \in Frames /\ flight[1].type = "SET_VR"
        /\ farm' = IF farm.lockout THEN farm ELSE [farm EXCEPT !.vr = flight[1].vr, !.retransmit = FALSE]
    BY <1>1, <1>4 DEF CheckSetVr
  <2>2. flight[1].vr \in 0..(NumberMod - 1)
    BY <2>1 DEF Frames
  <2>3. farm' \in [vr : 0..(NumberMod - 1), lockout : BOOLEAN, retransmit : BOOLEAN,
                   pw : Widths \cup {DefaultWidth}]
    BY <2>1, <2>2, <1>2 DEF UpTypeOK
  <2>4. upset = "reset"
    BY <2>1, <1>1 DEF UpInv, Unforced
  <2> QED BY <2>3, <2>4, <1>2, RefuseStep
<1> QED BY <1>3, <1>4

\* The frame that arrives first preserves the invariant.
LEMMA ReceiveFrameStep ==
  ASSUME UpInv, ReceiveFrame
  PROVE  UpInv'
<1>1. flight # <<>> /\ flight' = Tail(flight) /\ UNCHANGED <<report, ground, upset>>
      /\ (CheckAd(Head(flight)) \/ CheckUnlock(Head(flight)) \/ CheckSetVr(Head(flight)))
  BY DEF ReceiveFrame
<1>2. CASE CheckAd(Head(flight)) /\ ~farm.lockout
  BY <1>1, <1>2, AcceptStep, DiscardStep DEF CheckAd
<1>3. CASE CheckAd(Head(flight)) /\ farm.lockout
  <2>1. UNCHANGED <<farm, accepted, inOrder>>
    BY <1>3 DEF CheckAd
  <2>2. upset # "reset" => farm'.vr = farm.vr /\ (farm'.retransmit => accepted < ground.hi) /\ Locked'
    BY <2>1, <1>1 DEF UpInv, Counted, Locked
  <2> QED BY <2>1, <2>2, <1>1, RefuseStep DEF UpInv, UpTypeOK
<1>4. CASE CheckUnlock(Head(flight)) \/ CheckSetVr(Head(flight))
  BY <1>1, <1>4, ControlStep
<1> QED BY <1>1, <1>2, <1>3, <1>4

\* The loss of a frame preserves the invariant.
LEMMA LoseFrameStep ==
  ASSUME UpInv, LoseFrame
  PROVE  UpInv'
<1>1. flight # <<>> /\ flight' = Tail(flight) /\ UNCHANGED <<farm, report, ground, upset, accepted, inOrder>>
  BY DEF LoseFrame
<1>2. upset # "reset" => farm'.vr = farm.vr /\ (farm'.retransmit => accepted < ground.hi) /\ Locked'
  BY <1>1 DEF UpInv, Counted, Locked
<1> QED BY <1>1, <1>2, RefuseStep DEF UpInv, UpTypeOK

\* A report of the expected number preserves the invariant.
LEMMA FormClcwStep ==
  ASSUME UpInv, FormClcw
  PROVE  UpInv'
<1>1. report' = [vr |-> farm.vr, lockout |-> farm.lockout]
      /\ UNCHANGED <<farm, flight, ground, accepted, inOrder, upset>>
  BY DEF FormClcw
<1>2. UpTypeOK'
  BY <1>1 DEF UpInv, UpTypeOK
<1>3. ASSUME upset' # "reset" PROVE (Counted /\ Near /\ Unforced /\ Locked)'
  <2>1. Counted /\ Near /\ Unforced /\ Locked /\ UpTypeOK
    BY <1>1, <1>3 DEF UpInv
  <2>2. accepted \in ground.acked..accepted /\ report'.vr = accepted % NumberMod
    BY <2>1, <1>1 DEF Counted, UpTypeOK
  <2> QED BY <2>1, <2>2, <1>1 DEF Counted, Near, Unforced, Locked
<1> QED BY <1>2, <1>3 DEF UpInv

\* Another window of the receiver preserves the invariant.
LEMMA SetFarmPwStep ==
  ASSUME UpInv, NEW pw \in Widths, SetFarmPw(pw)
  PROVE  UpInv'
<1>1. upset # "reset" /\ farm' = [farm EXCEPT !.pw = pw] /\ upset' = (IF pw < Window THEN "narrow" ELSE upset)
      /\ UNCHANGED <<flight, report, ground, accepted, inOrder>>
  BY DEF SetFarmPw
<1>2. Counted /\ Near /\ Unforced /\ Locked /\ UpTypeOK
  BY <1>1 DEF UpInv
<1>3. UpTypeOK'
  BY <1>1, <1>2 DEF UpTypeOK
<1>4. farm'.vr = farm.vr /\ farm'.retransmit = farm.retransmit /\ farm'.lockout = farm.lockout /\ farm'.pw = pw
  BY <1>1, <1>2 DEF UpTypeOK
<1>5. Locked'
  BY <1>1, <1>2, <1>4, Windows DEF Locked
<1>6. Counted' /\ Near' /\ Unforced'
  BY <1>1, <1>2, <1>4 DEF Counted, Near, Unforced
<1> QED BY <1>3, <1>5, <1>6 DEF UpInv

\* After a reset only the types remain.
LEMMA DriverResetStep ==
  ASSUME UpInv, DriverReset
  PROVE  UpInv'
<1>1. farm' = Validated /\ upset' = "reset" /\ UNCHANGED <<flight, report, ground, accepted, inOrder>>
  BY DEF DriverReset
<1>2. UpTypeOK'
  BY <1>1, Windows DEF UpInv, UpTypeOK, Validated
<1> QED BY <1>1, <1>2 DEF UpInv

\* The frame of a command.
LEMMA NumberOf ==
  ASSUME UpTypeOK, NEW id \in 0..(Total - 1)
  PROVE  AD(id) \in Frames /\ AD(id).id = id /\ AD(id).ns = id % NumberMod /\ AD(id).type = "AD"
<1>1. id % NumberMod \in 0..(NumberMod - 1)
  BY Windows, Division
<1> QED BY <1>1 DEF AD, Frames

\* With a frame sent, all are frames as before.
LEMMA SentTypes ==
  ASSUME UpTypeOK, NEW frame \in Frames, flight' = Append(flight, frame),
         frame.type = "AD" => frame.ns = frame.id % NumberMod
  PROVE  /\ flight' \in Seq(Frames)
         /\ \A i \in 1..Len(flight') : flight'[i].type = "AD" => flight'[i].ns = flight'[i].id % NumberMod
         /\ (frame.type # "SET_VR" /\ \A i \in 1..Len(flight) : flight[i].type # "SET_VR")
               => \A i \in 1..Len(flight') : flight'[i].type # "SET_VR"
BY FrameSent DEF UpTypeOK

\* The frame of a command that is not acknowledged is near the expected one and behind nothing
\* on the way by a window.
LEMMA NearAfterSent ==
  ASSUME UpTypeOK, Near, Counted, NEW id \in 0..(Total - 1), flight' = Append(flight, AD(id)),
         accepted' = accepted, ground.hi <= ground'.hi, id < ground'.hi, ground'.hi \in Nat,
         accepted <= id + Window, ground.hi <= id + Window
  PROVE  Near'
<1>1. AD(id) \in Frames /\ AD(id).id = id
  BY NumberOf
<1>2. /\ \A i \in 1..Len(flight') :
            flight'[i] = AD(id) \/ (i \in 1..Len(flight) /\ flight'[i] = flight[i])
      /\ \A i, j \in 1..Len(flight') :
            i < j => /\ i \in 1..Len(flight) /\ flight'[i] = flight[i]
                     /\ flight'[j] = AD(id) \/ (j \in 1..Len(flight) /\ flight'[j] = flight[j])
  BY <1>1, FrameSent
<1>n. \A i \in 1..Len(flight) : flight[i].type = "AD" => flight[i].id \in Nat
  <2> SUFFICES ASSUME NEW i \in 1..Len(flight), flight[i].type = "AD" PROVE flight[i].id \in Nat
    OBVIOUS
  <2>1. flight[i] \in Frames
    BY DEF UpTypeOK
  <2> QED BY <2>1, Windows DEF Frames
<1>m. ground.hi \in Nat /\ accepted \in Nat /\ id \in Nat /\ Window \in Nat
  BY Windows DEF UpTypeOK
<1>3. ASSUME NEW i \in 1..Len(flight'), flight'[i].type = "AD"
      PROVE  flight'[i].id < ground'.hi /\ accepted' <= flight'[i].id + Window
  <2>1. CASE flight'[i] = AD(id)
    BY <2>1, <1>1
  <2>2. CASE i \in 1..Len(flight) /\ flight'[i] = flight[i]
    BY <2>2, <1>3, <1>n, <1>m DEF Near
  <2> QED BY <2>1, <2>2, <1>2
<1>4. ASSUME NEW i \in 1..Len(flight'), NEW j \in 1..Len(flight'), i < j,
             flight'[i].type = "AD", flight'[j].type = "AD"
      PROVE  flight'[i].id < flight'[j].id + Window
  <2>1. i \in 1..Len(flight) /\ flight'[i] = flight[i]
    BY <1>4, <1>2
  <2>2. CASE flight'[j] = AD(id)
    <3>1. flight[i].id < ground.hi /\ flight[i].id \in Nat
      BY <2>1, <1>4, <1>n DEF Near
    <3> QED BY <3>1, <2>1, <2>2, <1>1, <1>m
  <2>3. CASE j \in 1..Len(flight) /\ flight'[j] = flight[j]
    BY <2>1, <2>3, <1>4 DEF Near
  <2> QED BY <2>2, <2>3, <1>2, <1>4
<1> QED BY <1>3, <1>4 DEF Near

\* A new command on the way preserves the invariant.
LEMMA SendNewStep ==
  ASSUME UpInv, SendNew
  PROVE  UpInv'
<1>1. /\ ground.hi < Total /\ ground.hi < ground.acked + Window
      /\ flight' = Append(flight, AD(ground.hi)) /\ ground' = [ground EXCEPT !.hi = ground.hi + 1]
      /\ UNCHANGED <<farm, report, accepted, inOrder, upset>>
  BY DEF SendNew, Send
<1>2. UpTypeOK /\ ground.hi \in 0..(Total - 1)
  BY <1>1, Windows DEF UpInv, UpTypeOK
<1>3. AD(ground.hi) \in Frames /\ AD(ground.hi).ns = AD(ground.hi).id % NumberMod /\ AD(ground.hi).type = "AD"
  BY <1>2, NumberOf
<1>4. UpTypeOK'
  <2>1. ground' \in [acked : 0..Total, hi : 0..Total, need : {"none", "unlock", "set_vr"}]
    <3>1. ground.hi + 1 \in 0..Total /\ ground \in [acked : 0..Total, hi : 0..Total, need : {"none", "unlock", "set_vr"}]
      <4>1. ground \in [acked : 0..Total, hi : 0..Total, need : {"none", "unlock", "set_vr"}]
        BY <1>2 DEF UpTypeOK
      <4>2. Total \in Nat /\ ground.hi \in 0..(Total - 1)
        BY <1>2, Windows
      <4>3. ground.hi + 1 \in 0..Total
        BY <4>2
      <4> QED BY <4>1, <4>3
    <3> QED BY <3>1, <1>1
  <2>2. /\ flight' \in Seq(Frames)
        /\ \A i \in 1..Len(flight') :
              flight'[i].type = "AD" => flight'[i].ns = flight'[i].id % NumberMod
    BY <1>1, <1>2, <1>3, SentTypes
  <2> QED BY <2>1, <2>2, <1>1, <1>2 DEF UpTypeOK
<1>5. ground'.hi = ground.hi + 1 /\ ground'.acked = ground.acked /\ ground'.need = ground.need
  BY <1>1, <1>2 DEF UpTypeOK
<1>6. ASSUME upset' # "reset" PROVE (Counted /\ Near /\ Unforced /\ Locked)'
  <2>1. Counted /\ Near /\ Unforced /\ Locked
    BY <1>1, <1>6 DEF UpInv
  <2>2. Near'
    <3>1. accepted \in Nat /\ ground.hi \in Nat /\ Window \in Nat /\ accepted <= ground.hi
      BY <2>1, <1>2, Windows, Counts
    <3>2. /\ ground'.hi \in Nat /\ ground.hi <= ground'.hi /\ ground.hi < ground'.hi
          /\ accepted <= ground.hi + Window /\ ground.hi <= ground.hi + Window
      BY <3>1, <1>5
    <3> QED BY <3>2, <2>1, <1>1, <1>2, NearAfterSent
  <2>3. Counted'
    <3>1. /\ ground'.acked <= accepted /\ accepted <= ground'.hi /\ ground'.hi <= ground'.acked + Window
          /\ accepted < ground'.hi
      BY <2>1, <1>1, <1>2, <1>5, Windows, Counts
    <3> QED BY <3>1, <2>1, <1>1 DEF Counted
  <2>4. Unforced'
    BY <2>1, <1>1, <1>2, <1>3, <1>5, SentTypes DEF Unforced
  <2>5. Locked'
    BY <2>1, <1>1 DEF Locked
  <2> QED BY <2>2, <2>3, <2>4, <2>5
<1> QED BY <1>4, <1>6 DEF UpInv

\* The repetition of any command that is not acknowledged preserves the invariant.
LEMMA SendAgainStep ==
  ASSUME UpInv, NEW id \in ground.acked..(ground.hi - 1), SendAgain(id)
  PROVE  UpInv'
<1>1. flight' = Append(flight, AD(id)) /\ UNCHANGED <<ground, farm, report, accepted, inOrder, upset>>
  BY DEF SendAgain, Send
<1>2. UpTypeOK /\ id \in 0..(Total - 1)
  BY Windows DEF UpInv, UpTypeOK
<1>3. AD(id) \in Frames /\ AD(id).ns = AD(id).id % NumberMod /\ AD(id).type = "AD"
  BY <1>2, NumberOf
<1>4. UpTypeOK'
  BY <1>1, <1>2, <1>3, SentTypes DEF UpTypeOK
<1>5. ASSUME upset' # "reset" PROVE (Counted /\ Near /\ Unforced /\ Locked)'
  <2>1. Counted /\ Near /\ Unforced /\ Locked
    BY <1>1, <1>5 DEF UpInv
  <2>2. Near'
    <3>1. /\ ground.hi \in Nat /\ id < ground'.hi /\ ground'.hi = ground.hi
          /\ accepted <= id + Window /\ ground.hi <= id + Window
      BY <2>1, <1>1, <1>2, Windows, Counts
    <3> QED BY <3>1, <2>1, <1>1, <1>2, NearAfterSent
  <2>3. Counted' /\ Locked'
    BY <2>1, <1>1 DEF Counted, Locked
  <2>4. Unforced'
    BY <2>1, <1>1, <1>2, <1>3, SentTypes DEF Unforced
  <2> QED BY <2>2, <2>3, <2>4
<1> QED BY <1>4, <1>5 DEF UpInv

\* A control frame on the way preserves the invariant.
LEMMA SendControlStep ==
  ASSUME UpInv, SendControl
  PROVE  UpInv'
<1>1. PICK frame \in {Unlock, SetVr(ground.acked % NumberMod)} :
         /\ frame = Unlock \/ (ground.need = "set_vr" /\ frame = SetVr(ground.acked % NumberMod))
         /\ flight' = Append(flight, frame) /\ UNCHANGED <<ground, farm, report, accepted, inOrder, upset>>
  BY DEF SendControl, Send
<1>2. UpTypeOK
  BY DEF UpInv
<1>3. frame \in Frames /\ frame.type # "AD" /\ (frame = Unlock => frame.type # "SET_VR")
  <2>1. ground.acked \in Nat /\ NumberMod \in Nat \ {0}
    BY <1>2, Windows DEF UpTypeOK
  <2>2. ground.acked % NumberMod \in 0..(NumberMod - 1)
    BY <2>1, Division
  <2> QED BY <2>2 DEF Frames, Unlock, SetVr
<1>4. UpTypeOK'
  BY <1>1, <1>2, <1>3, SentTypes DEF UpTypeOK
<1>5. ASSUME upset' # "reset" PROVE (Counted /\ Near /\ Unforced /\ Locked)'
  <2>1. Counted /\ Near /\ Unforced /\ Locked
    BY <1>1, <1>5 DEF UpInv
  <2>2. frame.type # "SET_VR"
    BY <2>1, <1>1, <1>3 DEF Unforced
  <2>3. Near'
    BY <2>1, <1>1, <1>2, <1>3, FrameSent DEF Near
  <2>4. Counted' /\ Locked'
    BY <2>1, <1>1 DEF Counted, Locked
  <2>5. Unforced'
    BY <2>1, <2>2, <1>1, <1>2, <1>3, SentTypes DEF Unforced
  <2> QED BY <2>3, <2>4, <2>5
<1> QED BY <1>4, <1>5 DEF UpInv

\* The number in a report names one of the commands that may be acknowledged, and that one was
\* the expected one when the report was formed.
LEMMA ReportSaysWhich ==
  ASSUME UpTypeOK, Counted, Unforced, report # NULL, NEW id \in Reported
  PROVE  id \in ground.acked..accepted
<1>1. PICK x \in ground.acked..accepted : report.vr = x % NumberMod
  BY DEF Unforced
<1>2. id \in ground.acked..ground.hi /\ id % NumberMod = report.vr
  BY DEF Reported
<1>3. id \in Nat /\ x \in Nat /\ id - x < NumberMod /\ x - id < NumberMod
  BY <1>1, <1>2, Windows, Counts
<1>4. id % NumberMod = x % NumberMod
  BY <1>1, <1>2
<1>5. id = x
  BY <1>3, <1>4, Windows, SameNumber
<1> QED BY <1>1, <1>5

\* A report, however late, preserves the invariant.
LEMMA ReceiveReportStep ==
  ASSUME UpInv, ReceiveReport
  PROVE  UpInv'
<1> DEFINE id == CHOOSE x \in Reported : TRUE
<1>1. /\ report # NULL /\ report' = NULL
      /\ ground' = IF report.lockout THEN [ground EXCEPT !.need = "unlock"]
                   ELSE IF Reported = {} THEN [ground EXCEPT !.need = "set_vr"]
                   ELSE [ground EXCEPT !.need = "none", !.acked = id]
      /\ UNCHANGED <<farm, flight, accepted, inOrder, upset>>
  BY DEF ReceiveReport
<1>2. UpTypeOK
  BY DEF UpInv
<1>3. Reported # {} => id \in Reported
  OBVIOUS
<1> HIDE DEF id
<1>4. UpTypeOK'
  <2>1. Reported # {} => id \in 0..Total
    BY <1>2, <1>3, Windows DEF Reported, UpTypeOK
  <2>2. ground' \in [acked : 0..Total, hi : 0..Total, need : {"none", "unlock", "set_vr"}]
    BY <1>1, <1>2, <2>1 DEF UpTypeOK
  <2> QED BY <2>2, <1>1, <1>2 DEF UpTypeOK
<1>5. ASSUME upset' # "reset" PROVE (Counted /\ Near /\ Unforced /\ Locked)'
  <2>1. Counted /\ Near /\ Unforced /\ Locked
    BY <1>1, <1>5 DEF UpInv
  <2>2. Reported # {}
    <3>1. PICK x \in ground.acked..accepted : report.vr = x % NumberMod
      BY <2>1, <1>1 DEF Unforced
    <3>2. x \in ground.acked..ground.hi
      BY <2>1, <1>2 DEF Counted, UpTypeOK
    <3> QED BY <3>1, <3>2 DEF Reported
  <2>3. id \in ground.acked..accepted
    BY <2>1, <2>2, <1>1, <1>2, <1>3, ReportSaysWhich
  <2>4. /\ ground'.hi = ground.hi /\ ground'.need \in {"unlock", "none"}
        /\ ground'.acked \in ground.acked..accepted
    BY <2>1, <2>2, <2>3, <1>1, <1>2 DEF Counted, UpTypeOK
  <2>5. Counted'
    <3>1. /\ ground.acked \in Nat /\ ground.hi \in Nat /\ accepted \in Nat /\ ground'.acked \in Nat
          /\ Window \in Nat /\ ground.acked <= ground'.acked /\ ground'.acked <= accepted
      BY <2>4, <1>2, Windows DEF UpTypeOK
    <3>2. ground.hi <= ground.acked + Window
      BY <2>1 DEF Counted
    <3>3. ground'.hi <= ground'.acked + Window
      BY <2>4, <3>1, <3>2
    <3> QED BY <2>1, <2>4, <3>1, <3>3, <1>1 DEF Counted
  <2>6. Near' /\ Unforced' /\ Locked'
    BY <2>1, <2>4, <1>1 DEF Near, Unforced, Locked
  <2> QED BY <2>5, <2>6
<1> QED BY <1>4, <1>5 DEF UpInv

\* The other variables do not matter.
LEMMA UnchangedStep ==
  ASSUME UpInv, UNCHANGED upVars
  PROVE  UpInv'
BY DEF UpInv, UpTypeOK, Counted, Near, Unforced, Locked, upVars

\* The invariant holds, for all windows and moduli, whatever is lost, late or repeated.
THEOREM Invariance == UplinkSpec => []UpInv
<1>1. UplinkStart => UpInv
  <2>1. 0 % NumberMod = 0 /\ 0 \in 0..(NumberMod - 1)
    BY Windows, RemainderOf
  <2> SUFFICES ASSUME UplinkStart PROVE UpInv
    OBVIOUS
  <2>2. UpTypeOK
    BY <2>1, Windows DEF UplinkStart, UpTypeOK, Validated
  <2>3. Counted /\ Near /\ Unforced
    BY <2>1, Windows DEF UplinkStart, Counted, Near, Unforced, Validated
  <2>4. Locked
    BY Windows DEF UplinkStart, Locked, Validated
  <2> QED BY <2>2, <2>3, <2>4 DEF UpInv
<1>2. UpInv /\ [UplinkNext]_<<vars, upVars>> => UpInv'
  <2> SUFFICES ASSUME UpInv, [UplinkNext]_<<vars, upVars>> PROVE UpInv'
    OBVIOUS
  <2>1. CASE UplinkNext
    <3>1. UplinkSteps
      BY <2>1 DEF UplinkNext, AsCommands
    <3>2. CASE Dispatch
      BY <3>2, UnchangedStep DEF Dispatch
    <3>3. CASE \E pw \in Widths : SetFarmPw(pw)
      BY <3>3, SetFarmPwStep
    <3>4. CASE \E id \in ground.acked..(ground.hi - 1) : SendAgain(id)
      BY <3>4, SendAgainStep
    <3> QED BY <3>1, <3>2, <3>3, <3>4, ReceiveFrameStep, FormClcwStep, DriverResetStep, LoseFrameStep,
               SendNewStep, SendControlStep, ReceiveReportStep DEF UplinkSteps
  <2>2. CASE UNCHANGED <<vars, upVars>>
    BY <2>2, UnchangedStep
  <2> QED BY <2>1, <2>2
<1> QED BY <1>1, <1>2, PTL DEF UplinkSpec

\* Commands are accepted in order, none is left out and none is accepted twice, although numbers
\* come round again (GS_check_ad_cmd_).
THEOREM CommandsAcceptedInOrder == UplinkSpec => []CommandsInOrder
<1>1. UpInv => CommandsInOrder
  BY DEF UpInv, Counted, Locked, CommandsInOrder
<1> QED BY <1>1, Invariance, PTL

(***************************************************************************)
(* The downlink.  The bytes in the frames that were sent and in the frame  *)
(* in the making are one stream; what is behind them is what the list      *)
(* holds, from the read position in its first packet on.                   *)
(***************************************************************************)

\* Byte number at of a packet of len bytes.
ByteSet == {b \in [number : 0..TelemetryMax, at : Nat, len : 1..DataSize] : b.at < b.len}

FrameSet == [counter : Nat, fhp : 0..DataSize, data : [1..DataSize -> ByteSet]]

\* Byte k of the i-th frame, sent or in the making, and what is written of it.
At(i, k) == IF i = Len(sent) + 1 THEN mPdu.data[k] ELSE sent[i].data[k]
Filled(i) == IF i = Len(sent) + 1 THEN t2m.wp ELSE DataSize
Written(i, k) == i \in 1..(Len(sent) + 1) /\ k \in 1..Filled(i)
Earlier(i, k, j, l) == i < j \/ (i = j /\ k < l)

DownTypeOK ==
    /\ t2m \in [rp : Nat, wp : 0..DataSize, fhpValid : BOOLEAN, interval : Nat, elapsed : Nat]
    /\ mPdu \in [fhp : Nat, data : [1..DataSize -> ByteSet]]
    /\ sent \in Seq(FrameSet)
    /\ counter \in Nat /\ frames \in Nat /\ made \in 0..TelemetryMax /\ disturbed \in BOOLEAN
    /\ Q \in Seq(TelemetryPackets)
    /\ t2m.rp > 0 => Q # <<>>
    /\ Q # <<>> => t2m.rp < Q[1].len

Numbered ==
    /\ \A i \in 1..Len(sent) : sent[i].counter = (i - 1) % CounterMod
    /\ counter = Len(sent) % CounterMod

\* The first packet that begins in the frame begins behind its first fhp bytes.
PointsTo(i, fhp) ==
    /\ fhp <= Filled(i) /\ \A k \in 1..fhp : At(i, k).at # 0
    /\ fhp < Filled(i) => At(i, fhp + 1).at = 0

Pointed ==
    /\ \A i \in 1..Len(sent) : PointsTo(i, sent[i].fhp)
    /\ PointsTo(Len(sent) + 1, IF t2m.fhpValid THEN mPdu.fhp ELSE t2m.wp)
    /\ t2m.fhpValid => mPdu.fhp < t2m.wp

Succeeds(b, c) == IF b.at + 1 < b.len THEN c = [b EXCEPT !.at = @ + 1] ELSE c.at = 0

Connected ==
    /\ \A i \in 1..(Len(sent) + 1) : \A k \in 1..(Filled(i) - 1) : Succeeds(At(i, k), At(i, k + 1))
    /\ \A i \in 1..Len(sent) :
         Written(i + 1, 1) => At(i + 1, 1).at = 0 \/ Succeeds(At(i, DataSize), At(i + 1, 1))

\* What is written next.
Continued(b) ==
    IF b.at + 1 < b.len THEN t2m.rp = b.at + 1 /\ Q # <<>> /\ b = Byte(Q[1], b.at) ELSE t2m.rp = 0

Cursor ==
    /\ t2m.wp > 0 => Continued(mPdu.data[t2m.wp])
    /\ t2m.wp = 0 /\ sent # <<>> => t2m.rp = 0 \/ Continued(sent[Len(sent)].data[DataSize])
    /\ t2m.wp = 0 /\ sent = <<>> => t2m.rp = 0

Precedes(b, c, l) ==
    b.number > 0 /\ c.number > 0 =>
      /\ b.number <= c.number
      /\ b.number = c.number => b.len = c.len /\ b.at + 1 < b.len /\ (c.at = 0 => l = 1)

InOrder ==
    \A i, j \in 1..(Len(sent) + 1) : \A k \in 1..Filled(i), l \in 1..Filled(j) :
       Earlier(i, k, j, l) => Precedes(At(i, k), At(j, l), l)

Queued ==
    /\ \A m \in 1..Len(Q) : Q[m].number <= made
    /\ \A l, m \in 1..Len(Q) : l < m /\ Q[l].number > 0 /\ Q[m].number > 0 => Q[l].number < Q[m].number
    /\ \A i \in 1..(Len(sent) + 1) : \A k \in 1..Filled(i) :
         /\ At(i, k).number <= made
         /\ \A m \in 1..Len(Q) : At(i, k).number > 0 /\ Q[m].number > 0 =>
              /\ At(i, k).number <= Q[m].number
              /\ At(i, k).number = Q[m].number =>
                   m = 1 /\ At(i, k).len = Q[1].len /\ At(i, k).at + 1 < Q[1].len /\ (t2m.rp = 0 => t2m.wp = 0)

Stands(b) == \E i \in 1..(Len(sent) + 1) : \E k \in 1..Filled(i) : At(i, k) = b

Kept ==
    ~disturbed =>
      /\ \A n \in 1..made :
           \/ \E m \in 1..Len(Q) : Q[m].number = n
           \/ \E len \in 1..DataSize : \A at \in 0..(len - 1) : Stands([number |-> n, at |-> at, len |-> len])
      /\ \A at \in 0..(t2m.rp - 1) : Stands(Byte(Q[1], at))

DownInv ==
    ListInv /\ DownTypeOK /\ Numbered /\ Pointed /\ Connected /\ Cursor /\ InOrder /\ Queued /\ Kept

-----------------------------------------------------------------------------
\* The head of the list is the first packet of the queue.
LEMMA HeadOfQueue ==
  ASSUME ListInv
  PROVE  /\ Q \in Seq(Packets[use]) /\ Len(Q) \in Nat
         /\ IsEmpty <=> Q = <<>>
         /\ Q # <<>> => HeadPacket = Q[1]
<1>1. PICK a, b : Stored /\ Lists(a, b)
  BY DEF ListInv
<1>2. Q = PacketsOf(a) /\ Q \in Seq(Packets[use]) /\ Len(Q) = Len(a) /\ \A k \in 1..Len(a) : Q[k] = packet[a[k]]
  BY <1>1, PacketsAre
<1>3. activeNodes = Len(a) /\ activeHead = IF a = <<>> THEN NULL ELSE a[1]
  BY <1>1, LinksOf
<1>4. Len(a) \in Nat /\ (a = <<>> <=> Len(a) = 0)
  BY <1>1, ListFacts
<1>5. Q = <<>> <=> a = <<>>
  BY <1>1, <1>2, PacketsAre
<1>6. a # <<>> => 1 \in 1..Len(a)
  BY <1>4
<1> HIDE DEF Q
<1> QED BY <1>2, <1>3, <1>4, <1>5, <1>6 DEF IsEmpty, HeadPacket

\* What happens to the queue, and to nothing else of the list that matters here.
LEMMA QueueSteps ==
  ASSUME ListInv
  PROVE  /\ UNCHANGED vars => ListInv' /\ Q' = Q
         /\ \A pk \in Packets[use] : Push(pk) => ListInv' /\ Q' = Append(Q, pk) /\ use' = use
         /\ DropExecuted => ListInv' /\ Q' = Tail(Q) /\ Q # <<>> /\ use' = use
<1>1. ASSUME UNCHANGED vars PROVE ListInv' /\ Q' = Q
  <2>1. [Next]_vars
    BY <1>1
  <2>2. ListInv'
    BY <2>1, ListStep
  <2> QED BY <1>1, <2>2 DEF Q, NodeAt, vars, nodes
<1>2. ASSUME NEW pk \in Packets[use], Push(pk) PROVE ListInv' /\ Q' = Append(Q, pk) /\ use' = use
  <2>1. ListInv' /\ Queue!QueuePush(pk)
    BY <1>2, PushIs
  <2> QED BY <2>1 DEF Queue!QueuePush, Q
<1>3. ASSUME DropExecuted PROVE ListInv' /\ Q' = Tail(Q) /\ Q # <<>> /\ use' = use
  <2>1. ListInv' /\ Queue!QueueTake
    BY <1>3, TakeIs
  <2> QED BY <2>1 DEF Queue!QueueTake, Q
<1> QED BY <1>1, <1>2, <1>3

\* Types in use.
LEMMA DownTypes ==
  ASSUME DownTypeOK
  PROVE  /\ DataSize \in Nat \ {0} /\ Len(sent) \in Nat /\ t2m.wp \in 0..DataSize /\ t2m.rp \in Nat
         /\ \A i \in 1..(Len(sent) + 1) : Filled(i) \in 0..DataSize
         /\ \A i \in 1..(Len(sent) + 1) : \A k \in 1..DataSize : At(i, k) \in ByteSet
         /\ \A i \in 1..Len(sent) : Filled(i) = DataSize /\ sent[i].fhp \in 0..DataSize
         /\ Filled(Len(sent) + 1) = t2m.wp
         /\ Len(Q) \in Nat /\ \A m \in 1..Len(Q) : Q[m] \in TelemetryPackets
         /\ (Q # <<>> => 1 \in 1..Len(Q)) /\ (sent # <<>> => Len(sent) \in 1..Len(sent))
         /\ \A i \in 1..(Len(sent) + 1) : \A k \in 1..DataSize :
              At(i, k).number \in Nat /\ At(i, k).at \in Nat /\ At(i, k).len \in 1..DataSize /\ At(i, k).at < At(i, k).len
         /\ \A m \in 1..Len(Q) : Q[m].number \in Nat /\ Q[m].len \in 1..DataSize
<1>1. DataSize \in Nat \ {0}
  BY DownlinkAssumption
<1>2. Len(sent) \in Nat /\ (sent # <<>> => Len(sent) \in 1..Len(sent))
  BY DEF DownTypeOK
<1>3. t2m.wp \in 0..DataSize /\ t2m.rp \in Nat
  BY DEF DownTypeOK
<1>4. ASSUME NEW i \in 1..(Len(sent) + 1), NEW k \in 1..DataSize PROVE At(i, k) \in ByteSet
  <2>1. CASE i = Len(sent) + 1
    BY <2>1 DEF At, DownTypeOK
  <2>2. CASE i # Len(sent) + 1
    <3>1. i \in 1..Len(sent)
      BY <1>2, <2>2
    <3>2. sent[i] \in FrameSet
      BY <3>1 DEF DownTypeOK
    <3> QED BY <2>2, <3>2 DEF At, FrameSet
  <2> QED BY <2>1, <2>2
<1>5. ASSUME NEW i \in 1..Len(sent) PROVE Filled(i) = DataSize /\ sent[i].fhp \in 0..DataSize
  <2>1. sent[i] \in FrameSet
    BY DEF DownTypeOK
  <2>2. i # Len(sent) + 1
    BY <1>2
  <2> QED BY <2>1, <2>2 DEF Filled, FrameSet
<1>6. Filled(Len(sent) + 1) = t2m.wp
  BY DEF Filled
<1>7. \A i \in 1..(Len(sent) + 1) : Filled(i) \in 0..DataSize
  BY <1>1, <1>3 DEF Filled
<1>8. Q \in Seq(TelemetryPackets)
  BY DEF DownTypeOK
<1> HIDE DEF Q
<1>9. Len(Q) \in Nat /\ (\A m \in 1..Len(Q) : Q[m] \in TelemetryPackets) /\ (Q # <<>> => 1 \in 1..Len(Q))
  BY <1>8
<1>10. \A b \in ByteSet : b.number \in Nat /\ b.at \in Nat /\ b.len \in 1..DataSize /\ b.at < b.len
  BY DEF ByteSet
<1>11. \A p \in TelemetryPackets : p.number \in Nat /\ p.len \in 1..DataSize
  BY DEF TelemetryPackets
<1> QED BY <1>1, <1>2, <1>3, <1>4, <1>5, <1>6, <1>7, <1>9, <1>10, <1>11

\* The stream is the same, or the frame in the making is given up: what stands where it stood keeps
\* its order and its connections.
SameStream ==
    /\ sent' = sent /\ \A k \in 1..t2m'.wp : mPdu'.data[k] = mPdu.data[k]
    /\ t2m'.wp \in {0, t2m.wp}

\* So does its pointer.
SamePointer ==
    /\ t2m'.wp = 0 => ~t2m'.fhpValid
    /\ t2m'.wp # 0 => t2m'.fhpValid = t2m.fhpValid /\ mPdu'.fhp = mPdu.fhp

\* The bytes of the stream when nothing is written.
LEMMA SameStreamBytes ==
  ASSUME DownTypeOK, SameStream
  PROVE  /\ \A i \in 1..(Len(sent) + 1) : Filled(i)' \in {0, Filled(i)} /\ (i # Len(sent) + 1 => Filled(i)' = Filled(i))
         /\ Filled(Len(sent) + 1)' = t2m'.wp
         /\ \A i \in 1..(Len(sent) + 1) : \A k \in 1..Filled(i)' : k \in 1..Filled(i) /\ At(i, k)' = At(i, k)
<1>1. ASSUME NEW i \in 1..(Len(sent) + 1)
      PROVE  Filled(i)' \in {0, Filled(i)} /\ (i # Len(sent) + 1 => Filled(i)' = Filled(i))
  BY DEF Filled, SameStream
<1>2. ASSUME NEW i \in 1..(Len(sent) + 1), NEW k \in 1..Filled(i)'
      PROVE  k \in 1..Filled(i) /\ At(i, k)' = At(i, k)
  <2>1. k \in 1..Filled(i)
    BY <1>1, DownTypes
  <2>2. At(i, k)' = At(i, k)
    <3>1. CASE i = Len(sent) + 1
      <4>1. k \in 1..t2m'.wp
        BY <3>1 DEF Filled, SameStream
      <4> QED BY <3>1, <4>1 DEF At, SameStream
    <3>2. CASE i # Len(sent) + 1
      BY <3>2 DEF At, SameStream
    <3> QED BY <3>1, <3>2
  <2> QED BY <2>1, <2>2
<1>3. Filled(Len(sent) + 1)' = t2m'.wp
  BY DEF Filled, SameStream
<1> QED BY <1>1, <1>2, <1>3

\* What is said of the stream holds on as long as nothing is written and the queue only grows.
LEMMA SameStreamStep ==
  ASSUME DownInv, SameStream
  PROVE  /\ Connected' /\ InOrder'
         /\ counter' = counter => Numbered'
         /\ SamePointer => Pointed'
<1> DEFINE n == Len(sent) + 1
<1>1. DownTypeOK /\ n' = n /\ sent' = sent /\ n \in Nat /\ n \in 1..n
  BY DownTypes DEF DownInv, SameStream
<1>2. /\ \A i \in 1..n : Filled(i)' \in {0, Filled(i)} /\ (i # n => Filled(i)' = Filled(i))
      /\ \A i \in 1..n : \A k \in 1..Filled(i)' : k \in 1..Filled(i) /\ At(i, k)' = At(i, k)
      /\ Filled(n)' = t2m'.wp
  BY <1>1, SameStreamBytes
<1>3. /\ DataSize \in Nat \ {0} /\ t2m.wp \in 0..DataSize /\ Filled(n) = t2m.wp
      /\ \A i \in 1..n : Filled(i) \in 0..DataSize /\ Filled(i)' \in 0..DataSize
      /\ \A i \in 1..Len(sent) : i \in 1..n /\ i + 1 \in 1..n /\ i # n /\ Filled(i) = DataSize /\ Filled(i)' = DataSize
                                 /\ sent[i].fhp \in 0..DataSize
  BY <1>1, <1>2, DownTypes
<1>4. Connected'
  <2>1. ASSUME NEW i \in 1..n, NEW k \in 1..(Filled(i)' - 1) PROVE Succeeds(At(i, k)', At(i, k + 1)')
    <3>1. k \in 1..Filled(i)' /\ k + 1 \in 1..Filled(i)' /\ k \in 1..(Filled(i) - 1)
      BY <1>2, <1>3
    <3> QED BY <1>2, <3>1 DEF Connected, DownInv
  <2>2. ASSUME NEW i \in 1..Len(sent), Written(i + 1, 1)'
        PROVE  At(i + 1, 1)'.at = 0 \/ Succeeds(At(i, DataSize)', At(i + 1, 1)')
    <3>1. 1 \in 1..Filled(i + 1)' /\ DataSize \in 1..Filled(i)' /\ i \in 1..n /\ i + 1 \in 1..n
      BY <1>3, <2>2 DEF Written
    <3>2. Written(i + 1, 1)
      BY <1>2, <3>1 DEF Written
    <3>3. At(i + 1, 1)' = At(i + 1, 1) /\ At(i, DataSize)' = At(i, DataSize)
      BY <1>2, <3>1
    <3> QED BY <3>2, <3>3 DEF Connected, DownInv
  <2> QED BY <1>1, <2>1, <2>2 DEF Connected, Succeeds
<1>5. InOrder'
  <2>1. ASSUME NEW i \in 1..n, NEW j \in 1..n, NEW k \in 1..Filled(i)', NEW l \in 1..Filled(j)',
               Earlier(i, k, j, l)
        PROVE  Precedes(At(i, k)', At(j, l)', l)
    <3>1. k \in 1..Filled(i) /\ l \in 1..Filled(j) /\ At(i, k)' = At(i, k) /\ At(j, l)' = At(j, l)
      BY <1>2
    <3> QED BY <2>1, <3>1 DEF InOrder, DownInv
  <2> QED BY <1>1, <2>1 DEF InOrder, Earlier, Precedes
<1>6. counter' = counter => Numbered'
  BY <1>1 DEF Numbered, DownInv
<1>7. ASSUME SamePointer PROVE Pointed'
  <2>1. ASSUME NEW i \in 1..Len(sent) PROVE PointsTo(i, sent[i].fhp)'
    <3>1. PointsTo(i, sent[i].fhp)
      BY DEF Pointed, DownInv
    <3>2. sent'[i].fhp = sent[i].fhp /\ i \in 1..n /\ Filled(i)' = Filled(i) /\ Filled(i) \in Nat
          /\ sent[i].fhp \in Nat
      BY <1>1, <1>3
    <3>3. \A k \in 1..Filled(i) : At(i, k)' = At(i, k)
      BY <1>2, <3>2
    <3>4. \A k \in 1..sent[i].fhp : k \in 1..Filled(i)
      BY <3>1, <3>2 DEF PointsTo
    <3>5. sent[i].fhp < Filled(i) => sent[i].fhp + 1 \in 1..Filled(i)
      BY <3>2
    <3> QED BY <3>1, <3>2, <3>3, <3>4, <3>5 DEF PointsTo
  <2>2. PointsTo(n, IF t2m.fhpValid THEN mPdu.fhp ELSE t2m.wp)' /\ (t2m'.fhpValid => mPdu'.fhp < t2m'.wp)
    <3>1. CASE t2m'.wp = 0
      BY <1>2, <1>7, <3>1 DEF PointsTo, SamePointer
    <3>2. CASE t2m'.wp # 0
      <4> DEFINE fhp == IF t2m.fhpValid THEN mPdu.fhp ELSE t2m.wp
      <4>1. t2m'.wp = t2m.wp /\ t2m'.fhpValid = t2m.fhpValid /\ mPdu'.fhp = mPdu.fhp /\ Filled(n)' = Filled(n)
            /\ fhp' = fhp
        BY <1>2, <1>3, <1>7, <3>2 DEF SameStream, SamePointer
      <4>2. PointsTo(n, fhp) /\ (t2m.fhpValid => mPdu.fhp < t2m.wp)
        BY DEF Pointed, DownInv
      <4>3. fhp \in Nat /\ Filled(n) \in Nat
        BY <1>1, <1>3 DEF DownTypeOK
      <4>4. \A k \in 1..Filled(n) : At(n, k)' = At(n, k)
        BY <1>1, <1>2, <4>1
      <4> HIDE DEF fhp
      <4>5. \A k \in 1..fhp : k \in 1..Filled(n)
        BY <4>2, <4>3 DEF PointsTo
      <4>6. fhp < Filled(n) => fhp + 1 \in 1..Filled(n)
        BY <4>3
      <4>7. PointsTo(n, fhp)'
        BY <1>1, <4>1, <4>2, <4>4, <4>5, <4>6 DEF PointsTo
      <4> QED BY <4>1, <4>2, <4>7 DEF fhp
    <3> QED BY <3>1, <3>2
  <2> QED BY <1>1, <2>1, <2>2 DEF Pointed
<1> QED BY <1>4, <1>5, <1>6, <1>7

-----------------------------------------------------------------------------
\* The steps that write nothing and leave the queue as it is.
Idle ==
    /\ sent' = sent /\ mPdu' = mPdu /\ counter' = counter /\ made' = made /\ Q' = Q
    /\ t2m'.rp = t2m.rp /\ t2m'.wp = t2m.wp /\ t2m'.fhpValid = t2m.fhpValid
    /\ disturbed' \in {disturbed, TRUE}

\* A step that touches neither the stream nor the queue keeps the invariant.
LEMMA IdleStep ==
  ASSUME DownInv, ListInv', DownTypeOK', Idle
  PROVE  DownInv'
<1>1. SameStream /\ (t2m.wp = 0 => ~t2m.fhpValid)
  BY DEF SameStream, Idle, Pointed, PointsTo, DownInv, DownTypeOK
<1>2. SamePointer
  BY <1>1 DEF Idle, SamePointer
<1>3. Connected' /\ InOrder' /\ Numbered' /\ Pointed'
  BY <1>1, <1>2, SameStreamStep DEF Idle
<1>4. (\A i : Filled(i)' = Filled(i)) /\ (\A i, k : At(i, k)' = At(i, k))
  BY DEF Idle, Filled, At
<1> USE DEF Idle
<1> HIDE DEF Q
<1>5. Cursor'
  BY DEF DownInv, Cursor, Continued
<1>6. Queued'
  BY <1>4 DEF DownInv, Queued
<1>7. Kept'
  <2>1. \A b : Stands(b)' <=> Stands(b)
    BY <1>4 DEF Stands
  <2> QED BY <2>1 DEF DownInv, Kept
<1> QED BY <1>3, <1>5, <1>6, <1>7 DEF DownInv

\* What an action that only changes the clock, the interval or the number of frames leaves.
LEMMA IdleActions ==
  ASSUME DownInv, use = "telemetry",
         \/ StartExecution \/ StopForming \/ Interrupt
         \/ \E elapsed \in 0..ElapsedMax : SetTime(elapsed)
         \/ \E interval \in FlushIntervals : SetFlushInterval(interval)
  PROVE  DownInv'
<1>1. UNCHANGED vars /\ UNCHANGED <<sent, mPdu, counter, made>> /\ disturbed' \in {disturbed, TRUE}
      /\ frames' \in Nat
  <2>1. FifoSize \in Nat /\ frames \in Nat
    BY DownlinkAssumption DEF DownInv, DownTypeOK
  <2>2. CASE StartExecution
    BY <2>1, <2>2 DEF StartExecution
  <2>3. CASE StopForming
    BY <2>1, <2>3 DEF StopForming
  <2>4. CASE Interrupt
    BY <2>1, <2>4 DEF Interrupt
  <2>5. CASE \E elapsed \in 0..ElapsedMax : SetTime(elapsed)
    BY <2>1, <2>5 DEF SetTime
  <2>6. CASE \E interval \in FlushIntervals : SetFlushInterval(interval)
    BY <2>1, <2>6 DEF SetFlushInterval
  <2> QED BY <2>2, <2>3, <2>4, <2>5, <2>6
<1>2. ListInv' /\ Q' = Q
  BY <1>1, QueueSteps DEF DownInv
<1>3. t2m' \in [rp : Nat, wp : 0..DataSize, fhpValid : BOOLEAN, interval : Nat, elapsed : Nat]
      /\ t2m'.rp = t2m.rp /\ t2m'.wp = t2m.wp /\ t2m'.fhpValid = t2m.fhpValid
  <2>1. t2m \in [rp : Nat, wp : 0..DataSize, fhpValid : BOOLEAN, interval : Nat, elapsed : Nat]
    BY DEF DownInv, DownTypeOK
  <2>2. CASE StartExecution \/ StopForming
    BY <2>1, <2>2 DEF StartExecution, StopForming
  <2>3. CASE Interrupt
    BY <2>1, <2>3 DEF Interrupt
  <2>4. ASSUME NEW elapsed \in 0..ElapsedMax, SetTime(elapsed)
        PROVE  t2m' = [t2m EXCEPT !.elapsed = elapsed] /\ elapsed \in Nat
    BY <2>4 DEF SetTime
  <2>5. ASSUME NEW interval \in FlushIntervals, SetFlushInterval(interval)
        PROVE  t2m' = [t2m EXCEPT !.interval = interval] /\ interval \in Nat
    BY <2>5, DownlinkAssumption DEF SetFlushInterval
  <2> QED BY <2>1, <2>2, <2>3, <2>4, <2>5
<1>4. DownTypeOK'
  BY <1>1, <1>2, <1>3 DEF DownInv, DownTypeOK
<1>5. Idle
  BY <1>1, <1>2, <1>3 DEF Idle
<1> QED BY <1>2, <1>4, <1>5, IdleStep

\* T2M_initialize gives up the frame in the making and the place in the packet.
LEMMA ReinitializeStep ==
  ASSUME DownInv, use = "telemetry", Reinitialize
  PROVE  DownInv'
<1>1. /\ UNCHANGED vars /\ UNCHANGED <<sent, mPdu, counter, made, frames>> /\ disturbed' = TRUE
      /\ t2m' = Initialized
  BY DEF Reinitialize
<1>2. ListInv' /\ Q' = Q
  BY <1>1, QueueSteps DEF DownInv
<1>3. t2m' \in [rp : Nat, wp : 0..DataSize, fhpValid : BOOLEAN, interval : Nat, elapsed : Nat]
      /\ t2m'.rp = 0 /\ t2m'.wp = 0 /\ ~t2m'.fhpValid
  BY <1>1, DownlinkAssumption DEF Initialized
<1>4. DownTypeOK'
  <2>1. Q # <<>> => 0 < Q[1].len
    BY DownTypes DEF DownInv, TelemetryPackets
  <2> QED BY <1>1, <1>2, <1>3, <2>1 DEF DownInv, DownTypeOK
<1>5. SameStream /\ SamePointer
  BY <1>1, <1>3 DEF SameStream, SamePointer
<1>6. Connected' /\ InOrder' /\ Numbered' /\ Pointed'
  BY <1>1, <1>5, SameStreamStep
<1>7. Cursor'
  BY <1>3 DEF Cursor
<1>8. Queued'
  <2>1. \A i \in 1..(Len(sent) + 1) : \A k \in 1..Filled(i)' : k \in 1..Filled(i) /\ At(i, k)' = At(i, k)
    BY <1>5, SameStreamBytes DEF DownInv
  <2> QED BY <1>1, <1>2, <1>3, <2>1 DEF Queued, DownInv
<1>9. Kept'
  BY <1>1 DEF Kept
<1> QED BY <1>2, <1>4, <1>6, <1>7, <1>8, <1>9 DEF DownInv

\* A packet that is put into the list comes behind all others.
LEMMA MakeTelemetryStep ==
  ASSUME DownInv, use = "telemetry", NEW len \in Lengths, MakeTelemetry(len)
  PROVE  DownInv'
<1> DEFINE pk == [number |-> made + 1, len |-> len]
<1>1. /\ UNCHANGED <<t2m, mPdu, counter, frames, sent, disturbed>> /\ made' = made + 1 /\ made < TelemetryMax
      /\ Push(pk)
  BY DEF MakeTelemetry
<1>2. pk \in TelemetryPackets /\ made' \in 0..TelemetryMax /\ made \in Nat
  BY <1>1, DownlinkAssumption DEF TelemetryPackets, DownInv, DownTypeOK
<1>3. pk \in Packets[use]
  BY <1>2, DownlinkAssumption DEF TelemetryPackets, DownInv, ListInv, Lists
<1>4. ListInv' /\ Q' = Append(Q, pk)
  BY <1>1, <1>3, QueueSteps DEF DownInv
<1>5. Q \in Seq(TelemetryPackets) /\ Len(Q) \in Nat /\ (Q # <<>> => 1 \in 1..Len(Q))
  BY DownTypes DEF DownInv, DownTypeOK
<1> DEFINE m == Len(Q) + 1
<1> HIDE DEF pk
<1>6. /\ Q' \in Seq(TelemetryPackets) /\ Len(Q') = m /\ Q' # <<>> /\ Q'[m] = pk
      /\ \A l \in 1..Len(Q) : Q'[l] = Q[l]
      /\ \A l \in 1..m : l = m \/ l \in 1..Len(Q)
      /\ m \in Nat /\ m > Len(Q) /\ 1 \in 1..m /\ (m = 1 <=> Q = <<>>)
  <2> DEFINE S == TelemetryPackets
  <2>1. Q \in Seq(S) /\ pk \in S
    BY <1>2, <1>5
  <2> HIDE DEF Q, S
  <2>2. Append(Q, pk) \in Seq(S) /\ Len(Append(Q, pk)) = Len(Q) + 1
        /\ (\A l \in 1..Len(Q) : Append(Q, pk)[l] = Q[l]) /\ Append(Q, pk)[Len(Q) + 1] = pk
    BY <2>1
  <2>3. Len(Q) = 0 <=> Q = <<>>
    BY <2>1
  <2>4. Append(Q, pk) # <<>>
    BY <2>2, <1>5
  <2> QED BY <1>4, <1>5, <2>2, <2>3, <2>4 DEF S
<1> HIDE DEF m
<1>7. pk.number = made + 1 /\ pk.len = len /\ len \in 1..DataSize
  BY <1>2 DEF pk, TelemetryPackets
<1> HIDE DEF Q
<1>8. Q # <<>> => Q'[1] = Q[1]
  BY <1>5, <1>6
<1>9. DownTypeOK'
  <2>1. t2m.rp \in Nat /\ (Q = <<>> => t2m.rp = 0) /\ (Q # <<>> => t2m.rp < Q[1].len)
    BY DEF DownInv, DownTypeOK
  <2>2. t2m.rp < Q'[1].len
    <3>1. CASE Q = <<>>
      BY <1>6, <1>7, <2>1, <3>1
    <3> QED BY <1>8, <2>1, <3>1
  <2> QED BY <1>1, <1>2, <1>6, <2>2 DEF DownInv, DownTypeOK
<1>10. SameStream /\ SamePointer
  BY <1>1 DEF SameStream, SamePointer, Pointed, PointsTo, DownInv, DownTypeOK
<1>11. Connected' /\ InOrder' /\ Numbered' /\ Pointed'
  BY <1>1, <1>10, SameStreamStep
<1>12. (\A i : Filled(i)' = Filled(i)) /\ (\A i, k : At(i, k)' = At(i, k))
  BY <1>1 DEF Filled, At
<1>13. Cursor'
  BY <1>1, <1>6, <1>8 DEF Cursor, Continued, DownInv
<1>14. Queued'
  <2>1. \A l \in 1..m : Q'[l].number <= made + 1
    BY <1>2, <1>6, <1>7, DownTypes DEF Queued, DownInv
  <2>2. \A l, h \in 1..m : l < h /\ Q'[l].number > 0 /\ Q'[h].number > 0 => Q'[l].number < Q'[h].number
    <3> SUFFICES ASSUME NEW l \in 1..m, NEW h \in 1..m, l < h, Q'[l].number > 0, Q'[h].number > 0
                 PROVE  Q'[l].number < Q'[h].number
      OBVIOUS
    <3>1. l \in 1..Len(Q) /\ Q'[l] = Q[l] /\ Q[l].number \in Nat
      BY <1>5, <1>6, DownTypes DEF DownInv
    <3>2. CASE h = m
      BY <1>2, <1>6, <1>7, <3>1, <3>2 DEF Queued, DownInv
    <3>3. CASE h \in 1..Len(Q)
      BY <1>6, <3>1, <3>3 DEF Queued, DownInv
    <3> QED BY <1>6, <3>2, <3>3
  <2>3. ASSUME NEW i \in 1..(Len(sent) + 1), NEW k \in 1..Filled(i), NEW h \in 1..m
        PROVE  /\ At(i, k).number <= made + 1
               /\ At(i, k).number > 0 /\ Q'[h].number > 0 =>
                    /\ At(i, k).number <= Q'[h].number
                    /\ At(i, k).number = Q'[h].number =>
                         h = 1 /\ At(i, k).len = Q'[1].len /\ At(i, k).at + 1 < Q'[1].len
                         /\ (t2m.rp = 0 => t2m.wp = 0)
    <3>1. At(i, k).number \in Nat /\ At(i, k).number <= made
      <4>1. k \in 1..DataSize
        BY DownTypes DEF DownInv
      <4> QED BY <4>1, DownTypes DEF DownInv, Queued
    <3>2. CASE h = m
      BY <1>2, <1>6, <1>7, <3>1, <3>2
    <3>3. CASE h \in 1..Len(Q)
      <4>1. Q'[h] = Q[h] /\ Q # <<>>
        BY <1>6, <3>3, <1>5
      <4> QED BY <1>2, <1>8, <3>1, <3>3, <4>1 DEF Queued, DownInv
    <3> QED BY <1>6, <3>2, <3>3
  <2> QED BY <1>1, <1>6, <1>12, <2>1, <2>2, <2>3 DEF Queued
<1>15. Kept'
  <2> SUFFICES ASSUME ~disturbed
               PROVE  /\ \A n \in 1..(made + 1) :
                           \/ \E l \in 1..m : Q'[l].number = n
                           \/ \E size \in 1..DataSize : \A at \in 0..(size - 1) :
                                 Stands([number |-> n, at |-> at, len |-> size])
                      /\ \A at \in 0..(t2m.rp - 1) : Stands(Byte(Q'[1], at))
    <3>1. \A b : Stands(b)' <=> Stands(b)
      BY <1>1, <1>12 DEF Stands
    <3> QED BY <1>1, <1>6, <3>1 DEF Kept
  <2>1. ASSUME NEW n \in 1..made
        PROVE \/ \E l \in 1..m : Q'[l].number = n
              \/ \E size \in 1..DataSize : \A at \in 0..(size - 1) :
                    Stands([number |-> n, at |-> at, len |-> size])
    <3>1. CASE \E l \in 1..Len(Q) : Q[l].number = n
      <4>1. PICK l \in 1..Len(Q) : Q[l].number = n
        BY <3>1
      <4>2. l \in 1..m /\ Q'[l].number = n
        BY <4>1, <1>5, <1>6
      <4> QED BY <4>2
    <3> QED BY <3>1 DEF Kept, DownInv
  <2>2. Q'[m].number = made + 1 /\ m \in 1..m
    BY <1>5, <1>6, <1>7
  <2>3. \A at \in 0..(t2m.rp - 1) : Stands(Byte(Q'[1], at))
    <3>1. CASE Q = <<>>
      <4>1. t2m.rp = 0
        BY <3>1 DEF DownInv, DownTypeOK
      <4> QED BY <4>1
    <3>2. CASE Q # <<>>
      BY <1>8, <3>2 DEF Kept, DownInv
    <3> QED BY <3>1, <3>2
  <2>4. \A n \in 1..(made + 1) : n \in 1..made \/ n = made + 1
    BY <1>2
  <2> QED BY <2>1, <2>2, <2>3, <2>4
<1> QED BY <1>4, <1>9, <1>11, <1>13, <1>14, <1>15 DEF DownInv

\* A fill packet has no number, and it is alone in the list.
LEMMA PushFillStep ==
  ASSUME DownInv, use = "telemetry", PushFill
  PROVE  DownInv'
<1> DEFINE pk == Fill(FillLen(DataSize - t2m.wp))
<1>1. UNCHANGED downVars /\ Push(pk) /\ Q = <<>>
  BY HeadOfQueue DEF PushFill, DownInv
<1>2. pk \in TelemetryPackets /\ pk.number = 0 /\ pk.len \in 1..DataSize
  <2>1. t2m.wp \in 0..DataSize
    BY DEF DownInv, DownTypeOK
  <2>2. FillLen(DataSize - t2m.wp) \in 1..DataSize
    BY <2>1, DownlinkAssumption DEF FillLen
  <2> QED BY <2>2, DownlinkAssumption DEF Fill, TelemetryPackets
<1>3. pk \in Packets[use]
  BY <1>2, DownlinkAssumption DEF TelemetryPackets, DownInv, ListInv, Lists
<1>4. ListInv' /\ Q' = Append(Q, pk)
  BY <1>1, <1>3, QueueSteps DEF DownInv
<1> HIDE DEF pk, Q
<1>5. Q' = <<pk>> /\ Len(Q') = 1 /\ Q' # <<>> /\ Q'[1] = pk /\ Q' \in Seq(TelemetryPackets)
  <2> DEFINE S == TelemetryPackets
  <2>1. pk \in S
    BY <1>2
  <2> HIDE DEF S
  <2>2. Append(<<>>, pk) = <<pk>> /\ <<pk>> \in Seq(S) /\ Len(<<pk>>) = 1 /\ <<pk>>[1] = pk
    BY <2>1
  <2> QED BY <1>1, <1>4, <2>2 DEF S
<1>6. UNCHANGED <<t2m, mPdu, counter, frames, sent, made, disturbed>>
  BY <1>1 DEF downVars
<1>7. t2m.rp = 0
  BY <1>1, DownTypes DEF DownInv, DownTypeOK
<1>8. DownTypeOK'
  BY <1>2, <1>5, <1>6, <1>7 DEF DownInv, DownTypeOK
<1>9. SameStream /\ SamePointer
  BY <1>6 DEF SameStream, SamePointer, Pointed, PointsTo, DownInv, DownTypeOK
<1>10. Connected' /\ InOrder' /\ Numbered' /\ Pointed'
  BY <1>6, <1>9, SameStreamStep
<1>11. (\A i : Filled(i)' = Filled(i)) /\ (\A i, k : At(i, k)' = At(i, k))
  BY <1>6 DEF Filled, At
<1>12. Cursor'
  BY <1>1, <1>6 DEF Cursor, Continued, DownInv
<1>13. Queued'
  <2>1. made \in Nat
    BY DownlinkAssumption DEF DownInv, DownTypeOK
  <2>2. \A m \in 1..1 : m = 1
    OBVIOUS
  <2> QED BY <1>2, <1>5, <1>6, <1>11, <2>1, <2>2 DEF Queued, DownInv
<1>14. Kept'
  <2>1. \A b : Stands(b)' <=> Stands(b)
    BY <1>6, <1>11 DEF Stands
  <2>2. \A at \in 0..(t2m.rp - 1) : FALSE
    BY <1>7
  <2>3. \A m \in 1..Len(Q) : FALSE
    BY <1>1
  <2> QED BY <1>6, <2>1, <2>2, <2>3 DEF Kept, DownInv
<1> QED BY <1>4, <1>8, <1>10, <1>12, <1>13, <1>14 DEF DownInv

\* A frame that is sent leaves its bytes where they stand.
LEMMA SendFrameStep ==
  ASSUME DownInv, use = "telemetry", SendFrame
  PROVE  DownInv'
<1>0. Len(sent) \in Nat
  BY DownTypes DEF DownInv
<1> PICK n \in Nat : n = Len(sent) + 1
  BY <1>0
<1> DEFINE frame == [counter |-> counter, fhp |-> FirstHeader, data |-> mPdu.data]
<1>1. /\ t2m.wp = DataSize /\ frames > 0 /\ UNCHANGED <<vars, made, disturbed>> /\ frames' = frames - 1
      /\ mPdu' = [mPdu EXCEPT !.fhp = FirstHeader] /\ sent' = Append(sent, frame)
      /\ t2m' = [t2m EXCEPT !.wp = 0, !.fhpValid = FALSE] /\ counter' = (counter + 1) % CounterMod
  BY DEF SendFrame
<1>2. ListInv' /\ Q' = Q
  BY <1>1, QueueSteps DEF DownInv
<1>3. /\ DataSize \in Nat \ {0} /\ Len(sent) \in Nat /\ n \in 1..n /\ Filled(n) = DataSize
      /\ \A i \in 1..n : Filled(i) = DataSize /\ i \in 1..(n + 1)
  <2>1. DataSize \in Nat \ {0} /\ Len(sent) \in Nat /\ Filled(n) = DataSize
        /\ \A i \in 1..Len(sent) : Filled(i) = DataSize
    BY <1>1, DownTypes DEF DownInv
  <2> QED BY <2>1
<1>4. FirstHeader \in 0..DataSize /\ FirstHeader = IF t2m.fhpValid THEN mPdu.fhp ELSE t2m.wp
  BY <1>1, <1>3 DEF FirstHeader, NoHeader, Pointed, DownInv, DownTypeOK
<1>5. frame \in FrameSet /\ t2m'.wp = 0 /\ t2m'.rp = t2m.rp /\ ~t2m'.fhpValid
  BY <1>1, <1>4, DownlinkAssumption DEF FrameSet, DownInv, DownTypeOK
<1> HIDE DEF frame
<1>6. /\ sent' \in Seq(FrameSet) /\ Len(sent') = n /\ sent'[n] = frame /\ sent' # <<>>
      /\ \A i \in 1..Len(sent) : sent'[i] = sent[i]
      /\ \A i \in 1..n : i = n \/ i \in 1..Len(sent)
  <2>1. sent \in Seq(FrameSet)
    BY DEF DownInv, DownTypeOK
  <2> QED BY <1>1, <1>5, <2>1
<1>7. counter \in Nat /\ counter' \in Nat /\ counter' = n % CounterMod /\ counter = (n - 1) % CounterMod
  <2>1. counter = Len(sent) % CounterMod /\ CounterMod \in Nat \ {0}
    BY DownlinkAssumption DEF DownInv, Numbered
  <2> PICK mod \in Nat \ {0} : mod = CounterMod
    BY <2>1
  <2>2. (((n - 1) % mod) + 1) % mod = n % mod /\ n % mod \in Nat /\ (n - 1) % mod \in Nat
    <3> PICK a \in Nat : a = n - 1 /\ a + 1 = n
      BY <1>3
    <3>1. ((a % mod) + 1) % mod = (a + 1) % mod
      BY Successor
    <3>2. a % mod \in Nat /\ n % mod \in Nat
      BY RemainderBound
    <3> QED BY <3>1, <3>2
  <2>3. n - 1 = Len(sent)
    BY <1>3
  <2> QED BY <1>1, <2>1, <2>2, <2>3
<1>8. DownTypeOK'
  <2>1. t2m' \in [rp : Nat, wp : 0..DataSize, fhpValid : BOOLEAN, interval : Nat, elapsed : Nat]
    <3>1. t2m \in [rp : Nat, wp : 0..DataSize, fhpValid : BOOLEAN, interval : Nat, elapsed : Nat]
      BY DEF DownInv, DownTypeOK
    <3>2. 0 \in 0..DataSize
      BY <1>3
    <3> QED BY <1>1, <3>1, <3>2
  <2>2. mPdu' \in [fhp : Nat, data : [1..DataSize -> ByteSet]]
    <3>1. FirstHeader \in Nat
      BY <1>3, <1>4
    <3> HIDE DEF FirstHeader
    <3> QED BY <1>1, <3>1 DEF DownInv, DownTypeOK
  <2>3. frames' \in Nat /\ made' = made /\ disturbed' = disturbed
    BY <1>1 DEF DownInv, DownTypeOK
  <2> QED BY <1>2, <1>5, <1>6, <1>7, <2>1, <2>2, <2>3 DEF DownInv, DownTypeOK
<1>9. /\ \A i \in 1..n : Filled(i)' = DataSize
      /\ Filled(n + 1)' = 0 /\ Len(sent') + 1 = n + 1
  BY <1>3, <1>5, <1>6 DEF Filled
<1>10. \A i \in 1..n : \A k \in 1..DataSize : At(i, k)' = At(i, k)
  <2> SUFFICES ASSUME NEW i \in 1..n, NEW k \in 1..DataSize PROVE At(i, k)' = At(i, k)
    OBVIOUS
  <2>1. At(i, k)' = sent'[i].data[k]
    BY <1>3, <1>6 DEF At
  <2>2. CASE i = n
    BY <1>6, <2>1, <2>2 DEF At, frame
  <2>3. CASE i \in 1..Len(sent)
    <3>1. i # n
      BY <1>3, <2>3
    <3> QED BY <1>6, <2>1, <2>3, <3>1 DEF At
  <2> QED BY <1>6, <2>2, <2>3
<1>11. \A i \in 1..(n + 1) : \A k \in 1..Filled(i)' : i \in 1..n /\ k \in 1..Filled(i) /\ At(i, k)' = At(i, k)
  BY <1>3, <1>9, <1>10
<1>12. Numbered'
  BY <1>6, <1>7 DEF Numbered, DownInv, frame
<1>13. Pointed'
  <2>1. ASSUME NEW i \in 1..n PROVE PointsTo(i, sent[i].fhp)'
    <3> DEFINE fhp == sent'[i].fhp
    <3>1. PointsTo(i, fhp) /\ fhp \in 0..DataSize
      <4>1. CASE i = n
        BY <1>4, <1>6, <4>1 DEF Pointed, DownInv, frame
      <4>2. CASE i \in 1..Len(sent)
        BY <1>6, <4>2, DownTypes DEF Pointed, DownInv
      <4> QED BY <1>6, <4>1, <4>2
    <3> HIDE DEF fhp
    <3>2. Filled(i) = DataSize /\ Filled(i)' = DataSize /\ \A k \in 1..DataSize : At(i, k)' = At(i, k)
      BY <1>3, <1>9, <1>10
    <3> PICK place \in 0..DataSize : place = fhp
      BY <3>1
    <3>3. /\ place <= DataSize /\ \A k \in 1..place : At(i, k)'.at # 0
          /\ place < DataSize => At(i, place + 1)'.at = 0
      BY <1>3, <3>1, <3>2 DEF PointsTo
    <3> QED BY <3>2, <3>3 DEF PointsTo, fhp
  <2>2. PointsTo(n + 1, t2m.wp)'
    BY <1>5, <1>9 DEF PointsTo
  <2> QED BY <1>5, <1>6, <1>9, <2>1, <2>2 DEF Pointed
<1>14. Connected'
  <2>1. ASSUME NEW i \in 1..(n + 1), NEW k \in 1..(Filled(i)' - 1) PROVE Succeeds(At(i, k)', At(i, k + 1)')
    <3>1. i \in 1..n /\ k \in 1..DataSize /\ k + 1 \in 1..DataSize /\ k \in 1..(Filled(i) - 1)
      BY <1>3, <1>9
    <3> QED BY <1>10, <3>1 DEF Connected, DownInv
  <2>2. ASSUME NEW i \in 1..n, Written(i + 1, 1)'
        PROVE  At(i + 1, 1)'.at = 0 \/ Succeeds(At(i, DataSize)', At(i + 1, 1)')
    <3>1. i + 1 \in 1..n /\ i \in 1..Len(sent) /\ 1 \in 1..DataSize /\ DataSize \in 1..DataSize
      BY <1>3, <1>9, <2>2 DEF Written
    <3>2. Written(i + 1, 1)
      BY <1>3, <3>1 DEF Written
    <3> QED BY <1>3, <1>10, <3>1, <3>2 DEF Connected, DownInv
  <2> QED BY <1>6, <1>9, <2>1, <2>2 DEF Connected, Succeeds
<1>15. Cursor'
  <2>1. Continued(mPdu.data[t2m.wp]) /\ sent'[n].data[DataSize] = mPdu.data[t2m.wp]
    BY <1>1, <1>3, <1>6 DEF Cursor, DownInv, frame
  <2> QED BY <1>2, <1>5, <1>6, <2>1 DEF Cursor, Continued
<1>16. InOrder'
  <2>1. ASSUME NEW i \in 1..(n + 1), NEW j \in 1..(n + 1), NEW k \in 1..Filled(i)', NEW l \in 1..Filled(j)',
               Earlier(i, k, j, l)
        PROVE  Precedes(At(i, k)', At(j, l)', l)
    BY <1>11, <2>1 DEF InOrder, DownInv
  <2> QED BY <1>9, <2>1 DEF InOrder, Earlier, Precedes
<1> HIDE DEF Q
<1>17. Queued'
  <2>1. t2m.wp # 0
    BY <1>1, <1>3
  <2> QED BY <1>1, <1>2, <1>5, <1>9, <1>11, <2>1 DEF Queued, DownInv
<1>18. Kept'
  <2>1. ASSUME NEW b, Stands(b) PROVE Stands(b)'
    <3>0. PICK i \in 1..n : \E k \in 1..Filled(i) : At(i, k) = b
      BY <2>1 DEF Stands
    <3>1. PICK k \in 1..Filled(i) : At(i, k) = b
      BY <3>0
    <3>2. i \in 1..(n + 1) /\ k \in 1..Filled(i)' /\ At(i, k)' = b
      BY <1>3, <1>9, <1>10, <3>1
    <3> QED BY <1>9, <3>2 DEF Stands
  <2> QED BY <1>1, <1>2, <1>5, <2>1 DEF Kept, DownInv
<1> QED BY <1>2, <1>8, <1>12, <1>13, <1>14, <1>15, <1>16, <1>17, <1>18 DEF DownInv

-----------------------------------------------------------------------------
\* A packet is written into the frame as far as it fits.
Chunk(len, ends) ==
    /\ len \in 1..(DataSize - t2m.wp) /\ t2m.rp + len <= Q[1].len
    /\ ends <=> t2m.rp + len = Q[1].len
    /\ sent' = sent /\ counter' = counter /\ made' = made /\ disturbed' = disturbed
    /\ t2m'.wp = t2m.wp + len
    /\ t2m'.rp = IF ends THEN 0 ELSE t2m.rp + len
    /\ t2m'.fhpValid = (t2m.fhpValid \/ t2m.rp = 0)
    /\ mPdu'.fhp = IF ~t2m.fhpValid /\ t2m.rp = 0 THEN t2m.wp ELSE mPdu.fhp
    /\ \A k \in 1..DataSize :
         mPdu'.data[k] = IF k \in (t2m.wp + 1)..(t2m.wp + len) THEN Byte(Q[1], t2m.rp + (k - t2m.wp - 1))
                         ELSE mPdu.data[k]
    /\ Q # <<>> /\ Q' = IF ends THEN Tail(Q) ELSE Q

\* WritePacket writes a chunk.
LEMMA WriteIsChunk ==
  ASSUME DownInv, use = "telemetry", WritePacket
  PROVE  /\ ListInv' /\ DownTypeOK'
         /\ \E len \in Nat : \E ends \in BOOLEAN : Chunk(len, ends)
<1> DEFINE len == WriteLen
           ends == t2m.rp + len = HeadPacket.len
<1>1. /\ frames > 0 /\ ~IsEmpty /\ t2m.wp # DataSize
      /\ mPdu' = [fhp |-> IF BeginsHere THEN t2m.wp ELSE mPdu.fhp,
                  data |-> [i \in 1..DataSize |->
                              IF i \in (t2m.wp + 1)..(t2m.wp + len)
                              THEN Byte(HeadPacket, t2m.rp + (i - t2m.wp - 1)) ELSE mPdu.data[i]]]
      /\ t2m' = [t2m EXCEPT !.fhpValid = @ \/ BeginsHere, !.wp = @ + len, !.elapsed = 0,
                            !.rp = IF ends THEN 0 ELSE @ + len]
      /\ ends => DropExecuted
      /\ ~ends => UNCHANGED vars
      /\ UNCHANGED <<counter, frames, sent, made, disturbed>>
  BY DEF WritePacket
<1>2. Q # <<>> /\ HeadPacket = Q[1] /\ Q \in Seq(TelemetryPackets) /\ Q[1] \in TelemetryPackets
      /\ t2m.rp < Q[1].len /\ Q[1].len \in 1..DataSize /\ Q[1].number \in 0..TelemetryMax
  <2>1. Q # <<>> /\ HeadPacket = Q[1]
    BY <1>1, HeadOfQueue DEF DownInv
  <2>2. Q \in Seq(TelemetryPackets) /\ Q[1] \in TelemetryPackets /\ t2m.rp < Q[1].len
    BY <2>1, DownTypes DEF DownInv, DownTypeOK
  <2>3. Q[1].len \in 1..DataSize /\ Q[1].number \in 0..TelemetryMax
    BY <2>2 DEF TelemetryPackets
  <2> QED BY <2>1, <2>2, <2>3
<1> HIDE DEF Q
<1>3. /\ t2m.wp \in 0..DataSize /\ t2m.rp \in Nat /\ DataSize \in Nat /\ TelemetryMax \in Nat
      /\ t2m \in [rp : Nat, wp : 0..DataSize, fhpValid : BOOLEAN, interval : Nat, elapsed : Nat]
      /\ mPdu.fhp \in Nat /\ \A k \in 1..DataSize : mPdu.data[k] \in ByteSet
  BY DownlinkAssumption DEF DownInv, DownTypeOK
<1>4. len \in 1..(DataSize - t2m.wp) /\ t2m.rp + len <= Q[1].len
  BY <1>1, <1>2, <1>3 DEF WriteLen
<1>5. ends <=> t2m.rp + len = Q[1].len
  BY <1>2
<1>6. len \in Nat /\ ends \in BOOLEAN
  BY <1>3, <1>4
<1> HIDE DEF len, ends
<1>7. ListInv' /\ Q' = (IF ends THEN Tail(Q) ELSE Q)
  BY <1>1, QueueSteps DEF DownInv
<1>8. /\ t2m'.wp = t2m.wp + len /\ t2m'.rp = (IF ends THEN 0 ELSE t2m.rp + len)
      /\ t2m'.fhpValid = (t2m.fhpValid \/ BeginsHere)
      /\ t2m' \in [rp : Nat, wp : 0..DataSize, fhpValid : BOOLEAN, interval : Nat, elapsed : Nat]
  <2>1. t2m.wp + len \in 0..DataSize /\ t2m.rp + len \in Nat
    BY <1>3, <1>4
  <2>2. (t2m.fhpValid \/ BeginsHere) \in BOOLEAN
    OBVIOUS
  <2> HIDE DEF BeginsHere
  <2> QED BY <1>1, <1>3, <2>1, <2>2
<1>9. Chunk(len, ends)
  BY <1>1, <1>2, <1>3, <1>4, <1>5, <1>7, <1>8 DEF Chunk, BeginsHere
<1>10. DownTypeOK'
  <2>1. mPdu' \in [fhp : Nat, data : [1..DataSize -> ByteSet]]
    <3>1. ASSUME NEW k \in 1..DataSize, k \in (t2m.wp + 1)..(t2m.wp + len)
          PROVE  Byte(HeadPacket, t2m.rp + (k - t2m.wp - 1)) \in ByteSet
      <4>1. t2m.rp + (k - t2m.wp - 1) \in Nat /\ t2m.rp + (k - t2m.wp - 1) < Q[1].len
        <5> DEFINE w == t2m.wp  r == t2m.rp  size == Q[1].len
        <5>1. w \in Nat /\ r \in Nat /\ size \in Nat /\ len \in Nat /\ k \in Nat
              /\ k >= w + 1 /\ k <= w + len /\ r + len <= size
          BY <1>2, <1>3, <1>4, <1>6, <3>1
        <5> HIDE DEF w, r, size
        <5>2. r + (k - w - 1) \in Nat /\ r + (k - w - 1) < size
          BY <5>1
        <5> QED BY <5>2 DEF w, r, size
      <4> QED BY <1>2, <4>1 DEF Byte, ByteSet
    <3>2. (IF BeginsHere THEN t2m.wp ELSE mPdu.fhp) \in Nat
      BY <1>3
    <3> QED BY <1>1, <1>3, <3>1, <3>2
  <2>2. Q' \in Seq(TelemetryPackets) /\ (t2m'.rp > 0 => Q' # <<>>) /\ (Q' # <<>> => t2m'.rp < Q'[1].len)
    <3>1. CASE ends
      <4>1. Q' = Tail(Q) /\ t2m'.rp = 0
        BY <1>7, <1>8, <3>1
      <4>2. Tail(Q) \in Seq(TelemetryPackets)
        BY <1>2
      <4>3. Tail(Q) # <<>> => Tail(Q)[1].len \in 1..DataSize
        <5>1. Tail(Q) # <<>> => Tail(Q)[1] \in TelemetryPackets
          BY <4>2
        <5> QED BY <5>1 DEF TelemetryPackets
      <4> QED BY <4>1, <4>2, <4>3
    <3>2. CASE ~ends
      BY <1>2, <1>3, <1>4, <1>5, <1>7, <1>8, <3>2
    <3> QED BY <3>1, <3>2
  <2> QED BY <1>1, <1>8, <2>1, <2>2 DEF DownInv, DownTypeOK
<1> QED BY <1>6, <1>7, <1>9, <1>10

\* The place in the packet of byte k of the frame, when its byte w + 1 is byte r of the packet.
Place(r, w, k) == r + (k - w - 1)

\* Which byte of the packet goes where.
LEMMA ChunkPlaces ==
  ASSUME NEW w \in Nat, NEW r \in Nat, NEW len \in Nat, NEW k \in (w + 1)..(w + len)
  PROVE  /\ Place(r, w, k) \in Nat /\ r <= Place(r, w, k) /\ Place(r, w, k) < r + len
BY DEF Place

\* The place behind a place.
LEMMA NextPlace ==
  ASSUME NEW w \in Nat, NEW r \in Nat, NEW k \in Nat, NEW l \in Nat, l = k + 1
  PROVE  Place(r, w, l) = Place(r, w, k) + 1
BY DEF Place

\* Later places are later bytes.
LEMMA PlaceOrder ==
  ASSUME NEW w \in Nat, NEW r \in Nat
  PROVE  /\ \A k, l \in Nat : k < l => Place(r, w, k) < Place(r, w, l)
         /\ \A k \in Nat : Place(r, w, k) \in Int
         /\ \A k \in Nat : k > w /\ Place(r, w, k) = 0 => r = 0 /\ k = w + 1
BY DEF Place

\* Every new byte has its place.
HasPlace(w, r, len, at) == \E k \in (w + 1)..(w + len) : Place(r, w, k) = at

\* The place of an octet of the packet is one of the new places of the frame.
LEMMA PlaceExists ==
  ASSUME NEW w \in Nat, NEW r \in Nat, NEW len \in Nat, NEW at \in Nat, r <= at, at < r + len
  PROVE  HasPlace(w, r, len, at)
<1> DEFINE k == (w + 1) + (at - r)
<1>1. k \in (w + 1)..(w + len) /\ r + (k - w - 1) = at
  OBVIOUS
<1> QED BY <1>1 DEF Place, HasPlace

\* What stands in the stream then: what stood there, and bytes of the first packet behind it.
Grown(len, n, w, r, H) ==
    /\ n \in Nat \ {0} /\ w \in Nat /\ r \in Nat /\ DataSize \in Nat /\ w + len <= DataSize /\ len >= 1
    /\ H.len \in 1..DataSize /\ H.number \in Nat /\ H.number <= made /\ r + len <= H.len
    /\ \A i \in 1..n : Filled(i) \in 0..DataSize /\ Filled(i)' \in 0..DataSize
    /\ \A i \in 1..n : i # n => Filled(i)' = DataSize /\ Filled(i) = DataSize
    /\ Filled(n) = w /\ Filled(n)' = w + len
    /\ \A i \in 1..n : \A k \in 1..Filled(i) : k \in 1..Filled(i)' /\ At(i, k)' = At(i, k)
    /\ \A k \in (w + 1)..(w + len) : k \in 1..Filled(n)' /\ At(n, k)' = Byte(H, Place(r, w, k))
    /\ \A i \in 1..n : \A k \in 1..Filled(i)' : k \in 1..Filled(i) \/ (i = n /\ k \in (w + 1)..(w + len))

\* A chunk (T2M_form_ of the framing of telemetry) adds exactly its bytes.
LEMMA ChunkBytes ==
  ASSUME DownInv, NEW len \in Nat, NEW ends \in BOOLEAN, Chunk(len, ends), NEW n, n = Len(sent) + 1,
         NEW H, H = Q[1], NEW w, w = t2m.wp, NEW r, r = t2m.rp
  PROVE  Grown(len, n, w, r, H)
<1>1. n \in Nat \ {0} /\ DataSize \in Nat \ {0} /\ w \in 0..DataSize /\ r \in Nat
      /\ Filled(n) = w /\ (\A i \in 1..n : Filled(i) \in 0..DataSize)
      /\ (\A i \in 1..(n - 1) : Filled(i) = DataSize)
      /\ (Q # <<>> => 1 \in 1..Len(Q))
      /\ \A m \in 1..Len(Q) : Q[m].number \in Nat /\ Q[m].len \in 1..DataSize
  BY DownTypes DEF DownInv
<1>2. /\ len \in 1..(DataSize - w) /\ r + len <= H.len /\ sent' = sent /\ t2m'.wp = w + len /\ Q # <<>>
      /\ \A k \in 1..DataSize : mPdu'.data[k] = IF k \in (w + 1)..(w + len) THEN Byte(H, Place(r, w, k))
                                               ELSE mPdu.data[k]
  BY DEF Chunk, Place
<1>3. H.len \in 1..DataSize /\ H.number \in Nat /\ H.number <= made
  <2>1. \A m \in 1..Len(Q) : Q[m].number <= made
    BY DEF DownInv, Queued
  <2> QED BY <1>1, <1>2, <2>1
<1>4. w \in Nat /\ w + len <= DataSize /\ len >= 1
  BY <1>1, <1>2
<1>5. \A i \in 1..n : i # n => Filled(i)' = DataSize /\ Filled(i) = DataSize
  BY <1>1, <1>2 DEF Filled
<1>6. Filled(n)' = w + len
  BY <1>2 DEF Filled
<1>7. \A i \in 1..n : Filled(i)' \in 0..DataSize
  BY <1>1, <1>4, <1>5, <1>6
<1>8. ASSUME NEW i \in 1..n, NEW k \in 1..Filled(i) PROVE k \in 1..Filled(i)' /\ At(i, k)' = At(i, k)
  <2>1. CASE i # n
    BY <1>2, <1>5, <2>1 DEF At
  <2>2. CASE i = n
    <3>1. k \in 1..w /\ k \in 1..DataSize /\ k \in 1..(w + len) /\ k \notin (w + 1)..(w + len)
      BY <1>1, <1>4, <2>2
    <3> QED BY <1>2, <1>6, <2>2, <3>1 DEF At
  <2> QED BY <2>1, <2>2
<1>9. ASSUME NEW k \in (w + 1)..(w + len) PROVE k \in 1..Filled(n)' /\ At(n, k)' = Byte(H, Place(r, w, k))
  <2>1. k \in 1..DataSize /\ k \in 1..(w + len)
    BY <1>1, <1>4
  <2> QED BY <1>2, <1>6, <2>1 DEF At
<1>10. ASSUME NEW i \in 1..n, NEW k \in 1..Filled(i)'
       PROVE  k \in 1..Filled(i) \/ (i = n /\ k \in (w + 1)..(w + len))
  BY <1>1, <1>4, <1>5, <1>6
<1> QED BY <1>1, <1>2, <1>3, <1>4, <1>5, <1>6, <1>7, <1>8, <1>9, <1>10 DEF Grown

\* The bytes of a packet follow one another also then, and the position behind them is right.
LEMMA ChunkConnected ==
  ASSUME DownInv, NEW len \in Nat, NEW ends \in BOOLEAN, Chunk(len, ends)
  PROVE  Connected' /\ Cursor' /\ Numbered'
<1>0. Len(sent) + 1 \in Nat /\ t2m.wp \in Nat /\ t2m.rp \in Nat
  BY DownTypes DEF DownInv
<1> PICK n \in Nat, w \in Nat, r \in Nat, H \in {Q[1]} : n = Len(sent) + 1 /\ H = Q[1] /\ w = t2m.wp /\ r = t2m.rp
  BY <1>0
<1>00. Grown(len, n, w, r, H)
  BY ChunkBytes
<1>1. /\ n \in Nat \ {0} /\ w \in Nat /\ r \in Nat /\ DataSize \in Nat /\ w + len <= DataSize /\ len >= 1
      /\ H.len \in 1..DataSize /\ r + len <= H.len
      /\ \A i \in 1..n : Filled(i) \in 0..DataSize /\ Filled(i)' \in 0..DataSize
      /\ \A i \in 1..n : i # n => Filled(i)' = DataSize /\ Filled(i) = DataSize
      /\ Filled(n) = w /\ Filled(n)' = w + len
      /\ \A i \in 1..n : \A k \in 1..Filled(i) : k \in 1..Filled(i)' /\ At(i, k)' = At(i, k)
      /\ \A k \in (w + 1)..(w + len) : k \in 1..Filled(n)' /\ At(n, k)' = Byte(H, Place(r, w, k))
      /\ \A i \in 1..n : \A k \in 1..Filled(i)' : k \in 1..Filled(i) \/ (i = n /\ k \in (w + 1)..(w + len))
  BY <1>00 DEF Grown
<1>2. sent' = sent /\ Len(sent') + 1 = n /\ counter' = counter /\ t2m'.wp = w + len
      /\ t2m'.rp = (IF ends THEN 0 ELSE r + len) /\ (ends <=> r + len = H.len)
      /\ (~ends => Q' = Q) /\ Q # <<>>
  BY DEF Chunk
<1>3. \A i : i \in 1..Len(sent) <=> i \in 1..n /\ i # n
  <2>1. Len(sent) \in Nat
    BY DownTypes DEF DownInv
  <2> QED BY <2>1
\* The bytes of one packet follow one another.
<1>4. ASSUME NEW x \in Nat, x + 1 < H.len PROVE Succeeds(Byte(H, x), Byte(H, x + 1))
  BY <1>4 DEF Succeeds, Byte
\* The first new byte follows what was written last.
<1>5. ASSUME NEW b, Continued(b) PROVE Succeeds(b, Byte(H, r))
  BY <1>5 DEF Continued, Succeeds, Byte
<1>5a. \A k, l \in Nat : l = k + 1 => Place(r, w, l) = Place(r, w, k) + 1
  BY NextPlace
<1>6. ASSUME NEW i \in 1..n, NEW k \in Nat, k \in 1..(Filled(i)' - 1) PROVE Succeeds(At(i, k)', At(i, k + 1)')
  <2>1. k \in 1..Filled(i)' /\ k + 1 \in 1..Filled(i)' /\ k \in Nat
    BY <1>1, <1>6
  <2>2. CASE k + 1 \in 1..Filled(i)
    <3>1. k \in 1..Filled(i) /\ k \in 1..(Filled(i) - 1)
      BY <1>1, <2>1, <2>2
    <3>2. Succeeds(At(i, k), At(i, k + 1))
      BY <3>1 DEF Connected, DownInv
    <3>3. At(i, k)' = At(i, k) /\ At(i, k + 1)' = At(i, k + 1)
      BY <1>1, <2>2, <3>1
    <3> QED BY <3>2, <3>3
  <2>3. CASE i = n /\ k + 1 \in (w + 1)..(w + len) /\ k \in 1..Filled(i)
    <3>1. k = w /\ w > 0 /\ k + 1 = w + 1
      BY <1>1, <2>3
    <3>2. At(i, k)' = mPdu.data[w]
      <4>1. At(n, w)' = At(n, w)
        BY <1>1, <2>3, <3>1
      <4> QED BY <2>3, <3>1, <4>1 DEF At
    <3>3. Continued(mPdu.data[w])
      BY <3>1 DEF Cursor, DownInv
    <3>4. At(i, k + 1)' = Byte(H, r)
      <4>1. Place(r, w, w + 1) = r
        BY <1>1 DEF Place
      <4> QED BY <1>1, <2>3, <3>1, <4>1
    <3> QED BY <1>5, <3>2, <3>3, <3>4
  <2>4. CASE i = n /\ k + 1 \in (w + 1)..(w + len) /\ k \in (w + 1)..(w + len)
    <3>0. k \in (w + 1)..(w + len) /\ k + 1 \in (w + 1)..(w + len)
      BY <2>4
    <3> PICK x \in Nat : x = Place(r, w, k)
      BY <1>1, <3>0, ChunkPlaces
    <3> PICK l \in Nat : l = k + 1
      BY <2>1
    <3>1. x + 1 = Place(r, w, l)
      <4>1. Place(r, w, l) = Place(r, w, k) + 1
        BY <1>5a
      <4> QED BY <4>1
    <3>2. x + 1 < H.len
      <4>1. \A m \in (w + 1)..(w + len) : Place(r, w, m) < r + len
        BY ChunkPlaces
      <4>2. x + 1 < r + len
        BY <3>0, <3>1, <4>1
      <4> PICK size \in Nat : size = H.len
        BY <1>1
      <4>3. r + len <= size
        BY <1>1
      <4> QED BY <4>2, <4>3
    <3>3. At(i, k)' = Byte(H, x) /\ At(i, l)' = Byte(H, x + 1)
      BY <1>1, <2>4, <3>1
    <3> QED BY <1>4, <3>2, <3>3
  <2> QED BY <1>1, <2>1, <2>2, <2>3, <2>4
<1>7. ASSUME NEW i \in 1..Len(sent), Written(i + 1, 1)'
      PROVE  At(i + 1, 1)'.at = 0 \/ Succeeds(At(i, DataSize)', At(i + 1, 1)')
  <2>1. i \in 1..n /\ i + 1 \in 1..n /\ DataSize \in 1..Filled(i) /\ At(i, DataSize)' = At(i, DataSize)
        /\ 1 \in 1..Filled(i + 1)'
    <3>1. i \in 1..n /\ i # n /\ i + 1 \in 1..n
      BY <1>1, <1>3
    <3>2. DataSize \in 1..Filled(i)
      BY <1>1, <3>1
    <3> QED BY <1>1, <1>7, <3>1, <3>2 DEF Written
  <2>2. CASE 1 \in 1..Filled(i + 1)
    <3>1. Written(i + 1, 1) /\ At(i + 1, 1)' = At(i + 1, 1)
      BY <1>1, <2>1, <2>2 DEF Written
    <3> QED BY <2>1, <3>1 DEF Connected, DownInv
  <2>3. CASE i + 1 = n /\ 1 \in (w + 1)..(w + len)
    <3>1. w = 0 /\ i = Len(sent) /\ sent # <<>>
      <4>1. Len(sent) \in Nat /\ Len(sent) = i
        BY <1>1, <1>3, <2>3
      <4> QED BY <1>1, <2>3, <4>1
    <3>2. At(i + 1, 1)' = Byte(H, r)
      <4>1. Place(r, w, 1) = r
        BY <1>1, <3>1 DEF Place
      <4> QED BY <1>1, <2>3, <4>1
    <3>3. r = 0 \/ Continued(sent[Len(sent)].data[DataSize])
      BY <3>1 DEF Cursor, DownInv
    <3>4. At(i, DataSize) = sent[Len(sent)].data[DataSize]
      BY <1>1, <1>3, <3>1 DEF At
    <3>5. CASE r = 0
      BY <3>2, <3>5 DEF Byte
    <3>6. CASE Continued(sent[Len(sent)].data[DataSize])
      BY <1>5, <2>1, <3>2, <3>4, <3>6
    <3> QED BY <3>3, <3>5, <3>6
  <2> QED BY <1>1, <2>1, <2>2, <2>3
<1>8. Connected'
  <2>1. \A i \in 1..n : \A k \in 1..(Filled(i)' - 1) : Succeeds(At(i, k)', At(i, k + 1)')
    BY <1>1, <1>6
  <2> QED BY <1>2, <1>7, <2>1 DEF Connected, Succeeds
<1>9. Cursor'
  <2>1. w + len \in (w + 1)..(w + len) /\ w + len > 0
    BY <1>1
  <2>2. mPdu'.data[w + len] = Byte(H, Place(r, w, w + len))
    <3>1. At(n, w + len)' = mPdu'.data[w + len]
      BY <1>2 DEF At
    <3> QED BY <1>1, <2>1, <3>1
  <2>3. Place(r, w, w + len) = (r + len) - 1 /\ ((r + len) - 1) + 1 = r + len
    BY <1>1 DEF Place
  <2>4. LET c == mPdu'.data[w + len] IN
        IF c.at + 1 < c.len THEN t2m'.rp = c.at + 1 /\ Q' # <<>> /\ c = Byte(Q'[1], c.at) ELSE t2m'.rp = 0
    <3>1. mPdu'.data[w + len] = [number |-> H.number, at |-> (r + len) - 1, len |-> H.len]
      BY <2>2, <2>3 DEF Byte
    <3>2. CASE ends
      BY <1>1, <1>2, <2>3, <3>1, <3>2
    <3>3. CASE ~ends
      <4>1. r + len < H.len
        <5> PICK size \in Nat : size = H.len
          BY <1>1
        <5>1. r + len <= size /\ r + len # size
          BY <1>1, <1>2, <3>3
        <5> QED BY <5>1
      <4>2. Q'[1] = H
        BY <1>2, <3>3
      <4> QED BY <1>2, <2>3, <3>1, <3>3, <4>1, <4>2 DEF Byte
    <3> QED BY <3>2, <3>3
  <2> QED BY <1>2, <2>1, <2>4 DEF Cursor, Continued
<1>10. Numbered'
  BY <1>2 DEF Numbered, DownInv
<1> QED BY <1>8, <1>9, <1>10

\* A new byte comes behind everything that was written.
LEMMA ChunkOrdered ==
  ASSUME DownInv, NEW len \in Nat, NEW ends \in BOOLEAN, Chunk(len, ends)
  PROVE  InOrder'
<1>0. Len(sent) + 1 \in Nat /\ t2m.wp \in Nat /\ t2m.rp \in Nat
  BY DownTypes DEF DownInv
<1>01. PICK n \in Nat, w \in Nat, r \in Nat, H \in {Q[1]} : n = Len(sent) + 1 /\ H = Q[1] /\ w = t2m.wp /\ r = t2m.rp
  BY <1>0
<1>00. Grown(len, n, w, r, H)
  BY <1>01, ChunkBytes
<1>1. /\ w + len <= DataSize /\ len >= 1 /\ DataSize \in Nat
      /\ H.len \in 1..DataSize /\ r + len <= H.len /\ H.number \in Nat
      /\ \A i \in 1..n : Filled(i) \in 0..DataSize /\ Filled(i)' \in 0..DataSize
      /\ Filled(n) = w
      /\ \A i \in 1..n : \A k \in 1..Filled(i) : k \in 1..Filled(i)' /\ At(i, k)' = At(i, k)
      /\ \A k \in (w + 1)..(w + len) : At(n, k)' = Byte(H, Place(r, w, k))
      /\ \A i \in 1..n : \A k \in 1..Filled(i)' : k \in 1..Filled(i) \/ (i = n /\ k \in (w + 1)..(w + len))
  BY <1>00 DEF Grown
<1>02. PICK size \in Nat : size = H.len
  BY <1>1
<1>2. sent' = sent /\ Q # <<>> /\ Len(sent') + 1 = n
  BY <1>01 DEF Chunk
<1>3. \A k \in (w + 1)..(w + len) : k \in Nat /\ k > w /\ Place(r, w, k) \in Nat /\ Place(r, w, k) < size
  <2>1. r + len <= size
    BY <1>1, <1>02
  <2>2. \A k \in (w + 1)..(w + len) : Place(r, w, k) \in Nat /\ Place(r, w, k) < r + len
    BY ChunkPlaces
  <2> QED BY <2>1, <2>2
<1>4. \A k, l \in Nat : k < l => Place(r, w, k) < Place(r, w, l)
  BY PlaceOrder
<1>5. \A k \in Nat : k > w /\ Place(r, w, k) = 0 => r = 0 /\ k = w + 1
  BY PlaceOrder
<1>6. ASSUME NEW i \in 1..n, NEW j \in 1..n, NEW k \in 1..Filled(i)', NEW l \in 1..Filled(j)',
             Earlier(i, k, j, l)
      PROVE  Precedes(At(i, k)', At(j, l)', l)
  <2>1. CASE k \in 1..Filled(i) /\ l \in 1..Filled(j)
    <3>1. At(i, k)' = At(i, k) /\ At(j, l)' = At(j, l)
      BY <1>1, <2>1
    <3> QED BY <1>01, <1>6, <2>1, <3>1 DEF InOrder, DownInv
  <2>2. CASE k \in 1..Filled(i) /\ j = n /\ l \in (w + 1)..(w + len)
    <3>1. At(i, k)' = At(i, k) /\ At(j, l)' = Byte(H, Place(r, w, l))
      BY <1>1, <2>2
    <3>2. At(i, k).number > 0 /\ H.number > 0 =>
             /\ At(i, k).number <= H.number
             /\ At(i, k).number = H.number =>
                  At(i, k).len = H.len /\ At(i, k).at + 1 < H.len /\ (r = 0 => w = 0)
      <4>1. 1 \in 1..Len(Q)
        BY <1>2, DownTypes DEF DownInv
      <4> QED BY <1>01, <2>2, <4>1 DEF Queued, DownInv
    <3>3. Place(r, w, l) = 0 => r = 0 /\ l = w + 1
      BY <1>3, <1>5, <2>2
    <3>4. Place(r, w, l) = 0 /\ w = 0 => l = 1
      BY <3>3
    <3> QED BY <3>1, <3>2, <3>3, <3>4 DEF Precedes, Byte
  <2>3. CASE i = n /\ k \in (w + 1)..(w + len) /\ l \in 1..Filled(j)
    <3>1. j = n => l <= w
      BY <1>1, <2>3
    <3>2. ~Earlier(i, k, j, l)
      BY <1>1, <2>3, <3>1 DEF Earlier
    <3> QED BY <1>6, <3>2
  <2>4. CASE i = n /\ k \in (w + 1)..(w + len) /\ j = n /\ l \in (w + 1)..(w + len)
    <3> PICK x \in Nat, y \in Nat : x = Place(r, w, k) /\ y = Place(r, w, l)
      BY <1>3, <2>4
    <3>1. k \in Nat /\ l \in Nat /\ k < l
      BY <1>3, <1>6, <2>4 DEF Earlier
    <3>2. x < y /\ y < size
      BY <1>3, <1>4, <2>4, <3>1
    <3>3. At(i, k)' = Byte(H, x) /\ At(j, l)' = Byte(H, y)
      BY <1>1, <2>4
    <3> QED BY <1>1, <1>02, <3>2, <3>3 DEF Precedes, Byte
  <2> QED BY <1>1, <2>1, <2>2, <2>3, <2>4
<1> QED BY <1>01, <1>2, <1>6 DEF InOrder, Earlier, Precedes

\* What is in the list comes behind everything that was written.
LEMMA ChunkQueued ==
  ASSUME DownInv, NEW len \in Nat, NEW ends \in BOOLEAN, Chunk(len, ends)
  PROVE  Queued'
<1>0. Len(sent) + 1 \in Nat /\ t2m.wp \in Nat /\ t2m.rp \in Nat
  BY DownTypes DEF DownInv
<1>01. PICK n \in Nat, w \in Nat, r \in Nat, H \in {Q[1]} : n = Len(sent) + 1 /\ H = Q[1] /\ w = t2m.wp /\ r = t2m.rp
  BY <1>0
<1>00. Grown(len, n, w, r, H)
  BY <1>01, ChunkBytes
<1>1. /\ w + len <= DataSize /\ len >= 1 /\ DataSize \in Nat
      /\ H.len \in 1..DataSize /\ r + len <= H.len /\ H.number \in Nat /\ H.number <= made
      /\ \A i \in 1..n : Filled(i) \in 0..DataSize /\ Filled(i)' \in 0..DataSize
      /\ \A i \in 1..n : \A k \in 1..Filled(i) : k \in 1..Filled(i)' /\ At(i, k)' = At(i, k)
      /\ \A k \in (w + 1)..(w + len) : At(n, k)' = Byte(H, Place(r, w, k))
      /\ \A i \in 1..n : \A k \in 1..Filled(i)' : k \in 1..Filled(i) \/ (i = n /\ k \in (w + 1)..(w + len))
  BY <1>00 DEF Grown
<1>02. PICK size \in Nat : size = H.len
  BY <1>1
<1>2. /\ sent' = sent /\ Q # <<>> /\ Len(sent') + 1 = n /\ made' = made
      /\ t2m'.rp = (IF ends THEN 0 ELSE r + len) /\ (ends <=> r + len = H.len)
      /\ Q' = IF ends THEN Tail(Q) ELSE Q
  BY <1>01 DEF Chunk
<1>3. \A k \in (w + 1)..(w + len) : Place(r, w, k) \in Nat /\ Place(r, w, k) < r + len
  BY ChunkPlaces
<1>4. /\ Q \in Seq(TelemetryPackets) /\ Len(Q) \in Nat /\ 1 \in 1..Len(Q)
      /\ \A m \in 1..Len(Q) : Q[m].number \in Nat /\ Q[m].number <= made
      /\ \A l, m \in 1..Len(Q) : l < m /\ Q[l].number > 0 /\ Q[m].number > 0 => Q[l].number < Q[m].number
  BY <1>2, DownTypes DEF DownInv, DownTypeOK, Queued
<1>5. /\ ends => Len(Q') = Len(Q) - 1 /\ \A m \in 1..Len(Q') : m + 1 \in 1..Len(Q) /\ m + 1 # 1 /\ Q'[m] = Q[m + 1]
      /\ ~ends => Len(Q') = Len(Q) /\ \A m \in 1..Len(Q') : m \in 1..Len(Q) /\ Q'[m] = Q[m]
  BY <1>2, <1>4
<1>6. \A m \in 1..Len(Q') : Q'[m].number <= made'
  BY <1>2, <1>4, <1>5
<1>7. \A l, m \in 1..Len(Q') : l < m /\ Q'[l].number > 0 /\ Q'[m].number > 0 => Q'[l].number < Q'[m].number
  <2>1. CASE ends
    <3> SUFFICES ASSUME NEW l \in 1..Len(Q'), NEW m \in 1..Len(Q'), l < m, Q'[l].number > 0, Q'[m].number > 0
                 PROVE  Q'[l].number < Q'[m].number
      OBVIOUS
    <3>1. l + 1 \in 1..Len(Q) /\ m + 1 \in 1..Len(Q) /\ l + 1 < m + 1 /\ Q'[l] = Q[l + 1] /\ Q'[m] = Q[m + 1]
      BY <1>4, <1>5, <2>1
    <3> QED BY <1>4, <3>1
  <2> QED BY <1>4, <1>5, <2>1
<1>8. ASSUME NEW i \in 1..n, NEW k \in 1..Filled(i)'
      PROVE  /\ At(i, k)'.number <= made
             /\ \A m \in 1..Len(Q') : At(i, k)'.number > 0 /\ Q'[m].number > 0 =>
                  /\ At(i, k)'.number <= Q'[m].number
                  /\ At(i, k)'.number = Q'[m].number =>
                       m = 1 /\ At(i, k)'.len = Q'[1].len /\ At(i, k)'.at + 1 < Q'[1].len /\ (t2m'.rp = 0 => t2m'.wp = 0)
  <2>0. ~ends => t2m'.rp # 0 /\ Q'[1] = H /\ r + len < size
    <3>1. ~ends => r + len # size /\ r + len <= size
      BY <1>1, <1>02, <1>2
    <3>2. r + len > 0
      BY <1>1
    <3> QED BY <1>01, <1>2, <3>1, <3>2
  <2>1. CASE k \in 1..Filled(i)
    <3> DEFINE b == At(i, k)
    <3>1. At(i, k)' = b
      BY <1>1, <2>1
    <3>2. /\ b.number <= made
          /\ \A m \in 1..Len(Q) : b.number > 0 /\ Q[m].number > 0 =>
               /\ b.number <= Q[m].number
               /\ b.number = Q[m].number =>
                    m = 1 /\ b.len = Q[1].len /\ b.at + 1 < Q[1].len
      BY <1>01, <2>1 DEF Queued, DownInv
    <3>3. CASE ends
      BY <1>4, <1>5, <3>1, <3>2, <3>3
    <3>4. CASE ~ends
      BY <1>2, <1>5, <2>0, <3>1, <3>2, <3>4
    <3> QED BY <3>3, <3>4
  <2>2. CASE i = n /\ k \in (w + 1)..(w + len)
    <3> PICK x \in Nat : x = Place(r, w, k)
      BY <1>3, <2>2
    <3>1. At(i, k)' = [number |-> H.number, at |-> x, len |-> H.len] /\ x < r + len
      BY <1>1, <1>3, <2>2 DEF Byte
    <3>2. \A m \in 1..Len(Q) : m # 1 /\ H.number > 0 /\ Q[m].number > 0 => H.number < Q[m].number
      BY <1>01, <1>4
    <3>3. CASE ends
      <4>1. \A m \in 1..Len(Q') : H.number > 0 /\ Q'[m].number > 0 => H.number < Q'[m].number
        BY <1>5, <3>2, <3>3
      <4>2. \A m \in 1..Len(Q') : Q'[m].number \in Nat
        BY <1>4, <1>5, <3>3
      <4> QED BY <1>1, <3>1, <4>1, <4>2
    <3>4. CASE ~ends
      <4>1. x + 1 < size
        BY <2>0, <3>1, <3>4
      <4>2. x + 1 < H.len
        BY <1>02, <4>1
      <4>3. Q'[1] = H /\ t2m'.rp # 0
        BY <2>0, <3>4
      <4>4. \A m \in 1..Len(Q') : H.number > 0 /\ Q'[m].number > 0 =>
              H.number <= Q'[m].number /\ (H.number = Q'[m].number => m = 1)
        BY <1>1, <1>4, <1>5, <1>01, <3>2, <3>4
      <4> QED BY <1>1, <3>1, <4>2, <4>3, <4>4
    <3> QED BY <3>3, <3>4
  <2> QED BY <1>1, <2>1, <2>2
<1> QED BY <1>01, <1>2, <1>6, <1>7, <1>8 DEF Queued

\* A packet that leaves the list stands in the stream, from its first byte to its last one.
LEMMA ChunkKept ==
  ASSUME DownInv, NEW len \in Nat, NEW ends \in BOOLEAN, Chunk(len, ends)
  PROVE  Kept'
<1>0. Len(sent) + 1 \in Nat /\ t2m.wp \in Nat /\ t2m.rp \in Nat
  BY DownTypes DEF DownInv
<1>01. PICK n \in Nat, w \in Nat, r \in Nat, H \in {Q[1]} : n = Len(sent) + 1 /\ H = Q[1] /\ w = t2m.wp /\ r = t2m.rp
  BY <1>0
<1>00. Grown(len, n, w, r, H)
  BY <1>01, ChunkBytes
<1>1. /\ n \in 1..n /\ H.len \in 1..DataSize /\ DataSize \in Nat
      /\ \A i \in 1..n : \A k \in 1..Filled(i) : k \in 1..Filled(i)' /\ At(i, k)' = At(i, k)
      /\ \A k \in (w + 1)..(w + len) : k \in 1..Filled(n)' /\ At(n, k)' = Byte(H, Place(r, w, k))
  BY <1>00 DEF Grown
<1>2. /\ sent' = sent /\ Q # <<>> /\ Len(sent') + 1 = n /\ made' = made /\ disturbed' = disturbed
      /\ t2m'.rp = (IF ends THEN 0 ELSE r + len) /\ (ends <=> r + len = H.len)
      /\ Q' = IF ends THEN Tail(Q) ELSE Q
  BY <1>01 DEF Chunk
<1>3. Q \in Seq(TelemetryPackets) /\ Len(Q) \in Nat /\ 1 \in 1..Len(Q)
  BY <1>2, DownTypes DEF DownInv, DownTypeOK
<1>4. /\ ends => Len(Q') = Len(Q) - 1 /\ \A m \in 2..Len(Q) : m - 1 \in 1..Len(Q') /\ Q'[m - 1] = Q[m]
      /\ ~ends => Len(Q') = Len(Q) /\ Q' = Q
  <2>1. ASSUME ends, NEW m \in 2..Len(Q) PROVE m - 1 \in 1..(Len(Q) - 1) /\ Tail(Q)[m - 1] = Q[m]
    <3>1. m - 1 \in 1..(Len(Q) - 1) /\ (m - 1) + 1 = m
      BY <1>3
    <3>2. Len(Tail(Q)) = Len(Q) - 1 /\ \A l \in 1..(Len(Q) - 1) : Tail(Q)[l] = Q[l + 1]
      BY <1>2, <1>3
    <3> QED BY <3>1, <3>2
  <2> QED BY <1>2, <1>3, <2>1
<1>5. ASSUME NEW b, Stands(b) PROVE Stands(b)'
  <2>1. PICK i \in 1..n : \E k \in 1..Filled(i) : At(i, k) = b
    BY <1>01, <1>5 DEF Stands
  <2>2. PICK k \in 1..Filled(i) : At(i, k) = b
    BY <2>1
  <2>3. i \in 1..n /\ k \in 1..Filled(i)' /\ At(i, k)' = b
    BY <1>1, <2>2
  <2> QED BY <1>2, <2>3 DEF Stands
<1>6. ASSUME ~disturbed, NEW at \in Nat, at < r + len PROVE Stands(Byte(H, at))'
  <2>1. CASE at < r
    <3>1. at \in 0..(r - 1)
      BY <2>1
    <3>2. Stands(Byte(H, at))
      BY <1>01, <1>6, <3>1 DEF Kept, DownInv
    <3> QED BY <1>5, <3>2
  <2>2. CASE r <= at
    <3>0. HasPlace(w, r, len, at)
      BY <1>6, <2>2, PlaceExists
    <3>1. PICK k \in (w + 1)..(w + len) : Place(r, w, k) = at
      BY <3>0 DEF HasPlace
    <3>2. n \in 1..n /\ k \in 1..Filled(n)' /\ At(n, k)' = Byte(H, at)
      BY <1>1, <3>1
    <3>3. \E i \in 1..n : \E l \in 1..Filled(i)' : At(i, l)' = Byte(H, at)
      BY <3>2
    <3> QED BY <1>2, <3>3 DEF Stands, Byte
  <2> QED BY <2>1, <2>2
<1>7. ASSUME ~disturbed, NEW p \in 1..made
      PROVE  \/ \E m \in 1..Len(Q') : Q'[m].number = p
             \/ \E size \in 1..DataSize : \A at \in 0..(size - 1) : Stands([number |-> p, at |-> at, len |-> size])'
  <2>1. \/ \E m \in 1..Len(Q) : Q[m].number = p
        \/ \E size \in 1..DataSize : \A at \in 0..(size - 1) : Stands([number |-> p, at |-> at, len |-> size])
    BY <1>7 DEF Kept, DownInv
  <2>2. CASE \E m \in 1..Len(Q) : Q[m].number = p
    <3>1. PICK m \in 1..Len(Q) : Q[m].number = p
      BY <2>2
    <3>2. CASE ~ends
      BY <1>4, <3>1, <3>2
    <3>3. CASE ends /\ m # 1
      <4>1. m \in 2..Len(Q)
        BY <3>3
      <4> QED BY <1>4, <3>1, <3>3, <4>1
    <3>4. CASE ends /\ m = 1
      <4> DEFINE size == H.len
      <4>1. H.number = p /\ r + len = size /\ size \in 1..DataSize
        BY <1>01, <1>1, <1>2, <3>1, <3>4
      <4>2. ASSUME NEW at \in 0..(size - 1) PROVE Stands([number |-> p, at |-> at, len |-> size])'
        <5>1. at \in Nat /\ at < r + len
          BY <1>1, <4>1
        <5>2. Stands(Byte(H, at))'
          BY <1>6, <1>7, <5>1
        <5>3. Byte(H, at) = [number |-> p, at |-> at, len |-> size]
          BY <4>1 DEF Byte
        <5> QED BY <5>2, <5>3
      <4> QED BY <4>1, <4>2
    <3> QED BY <3>2, <3>3, <3>4
  <2>3. CASE \E size \in 1..DataSize : \A at \in 0..(size - 1) : Stands([number |-> p, at |-> at, len |-> size])
    BY <1>5, <2>3
  <2> QED BY <2>1, <2>2, <2>3
<1>8. ASSUME ~disturbed, NEW at \in 0..(t2m'.rp - 1)
      PROVE  \E i \in 1..n : \E l \in 1..Filled(i)' : At(i, l)' = Byte(Q'[1], at)
  <2>1. CASE ends
    BY <1>2, <2>1
  <2>2. CASE ~ends
    <3>1. Q'[1] = H /\ at \in Nat /\ at < r + len
      BY <1>01, <1>2, <2>2
    <3>2. Stands(Byte(H, at))'
      BY <1>6, <1>8, <3>1
    <3>3. \E i \in 1..n : \E l \in 1..Filled(i)' : At(i, l)' = Byte(H, at)
      BY <1>2, <3>2 DEF Stands, Byte
    <3> QED BY <3>1, <3>3
  <2> QED BY <2>1, <2>2
<1>9. ASSUME ~disturbed, NEW at \in 0..(t2m'.rp - 1) PROVE Stands(Byte(Q[1], at))'
  BY <1>2, <1>8, <1>9 DEF Stands, Byte
<1> QED BY <1>2, <1>7, <1>9 DEF Kept

\* The pointer is set where the first packet of the frame begins.
LEMMA ChunkPointed ==
  ASSUME DownInv, NEW len \in Nat, NEW ends \in BOOLEAN, Chunk(len, ends)
  PROVE  Pointed'
<1>0. Len(sent) + 1 \in Nat /\ t2m.wp \in Nat /\ t2m.rp \in Nat
  BY DownTypes DEF DownInv
<1>01. PICK n \in Nat, w \in Nat, r \in Nat, H \in {Q[1]} : n = Len(sent) + 1 /\ H = Q[1] /\ w = t2m.wp /\ r = t2m.rp
  BY <1>0
<1>00. Grown(len, n, w, r, H)
  BY <1>01, ChunkBytes
<1>1. /\ n \in 1..n /\ len >= 1 /\ Filled(n) = w /\ Filled(n)' = w + len /\ DataSize \in Nat
      /\ \A i \in 1..n : i # n => Filled(i)' = DataSize /\ Filled(i) = DataSize
      /\ \A i \in 1..n : \A k \in 1..Filled(i) : k \in 1..Filled(i)' /\ At(i, k)' = At(i, k)
      /\ \A k \in (w + 1)..(w + len) : k \in 1..Filled(n)' /\ At(n, k)' = Byte(H, Place(r, w, k))
  BY <1>00 DEF Grown
<1>2. /\ sent' = sent /\ Len(sent') + 1 = n /\ t2m'.wp = w + len
      /\ t2m'.fhpValid = (t2m.fhpValid \/ r = 0)
      /\ mPdu'.fhp = IF ~t2m.fhpValid /\ r = 0 THEN w ELSE mPdu.fhp
  BY <1>01 DEF Chunk
<1>3. Len(sent) \in Nat /\ mPdu.fhp \in Nat /\ t2m.fhpValid \in BOOLEAN
      /\ \A i \in 1..Len(sent) : sent[i].fhp \in Nat /\ sent[i].fhp <= DataSize /\ i \in 1..n /\ i # n
  BY <1>01, DownTypes DEF DownInv, DownTypeOK
<1> DEFINE PointsThen(i, p) ==
             /\ p <= Filled(i)' /\ \A k \in 1..p : At(i, k)'.at # 0
             /\ p < Filled(i)' => At(i, p + 1)'.at = 0
<1>4. ASSUME NEW i \in 1..n, NEW fhp \in Nat, PointsTo(i, fhp), Filled(i)' \in Nat, Filled(i) \in Nat,
             Filled(i) <= Filled(i)', fhp < Filled(i) \/ Filled(i) = Filled(i)'
      PROVE  PointsThen(i, fhp)
  <2>1. fhp <= Filled(i)
    BY <1>4 DEF PointsTo
  <2>2. ASSUME NEW k \in 1..fhp PROVE At(i, k)'.at # 0
    <3>1. k \in 1..Filled(i)
      BY <1>4, <2>1
    <3> QED BY <1>1, <1>4, <3>1 DEF PointsTo
  <2>3. ASSUME fhp < Filled(i)' PROVE At(i, fhp + 1)'.at = 0
    <3>1. fhp < Filled(i) /\ fhp + 1 \in 1..Filled(i)
      BY <1>4, <2>3
    <3> QED BY <1>1, <1>4, <3>1 DEF PointsTo
  <2>4. fhp <= Filled(i)'
    BY <1>4, <2>1
  <2> QED BY <2>2, <2>3, <2>4
<1> HIDE DEF PointsThen
<1>5. ASSUME NEW i \in 1..Len(sent) PROVE PointsTo(i, sent[i].fhp)'
  <2>1. PointsTo(i, sent[i].fhp)
    BY DEF Pointed, DownInv
  <2>2. sent[i].fhp \in Nat /\ i \in 1..n /\ Filled(i) \in Nat /\ Filled(i)' = Filled(i)
    BY <1>1, <1>3
  <2>3. PICK p \in Nat : p = sent[i].fhp
    BY <2>2
  <2>4. PointsThen(i, p) /\ p = sent'[i].fhp
    BY <1>2, <1>4, <2>1, <2>2, <2>3
  <2> QED BY <2>4 DEF PointsTo, PointsThen
<1>6. (\E p \in Nat : PointsThen(n, p) /\ p = IF t2m'.fhpValid THEN mPdu'.fhp ELSE t2m'.wp) /\ (t2m'.fhpValid => mPdu'.fhp < t2m'.wp)
  <2>1. PointsTo(n, IF t2m.fhpValid THEN mPdu.fhp ELSE w) /\ (t2m.fhpValid => mPdu.fhp < w)
    BY <1>01 DEF Pointed, DownInv
  <2>2. CASE t2m.fhpValid
    <3>1. PICK p \in Nat : p = mPdu.fhp
      BY <1>3
    <3>2. PointsTo(n, p) /\ p < w /\ t2m'.fhpValid /\ mPdu'.fhp = p
      BY <1>2, <2>1, <2>2, <3>1
    <3>3. PointsThen(n, p)
      BY <1>1, <1>4, <3>2
    <3>4. p < w + len
      BY <3>2
    <3> QED BY <1>2, <3>2, <3>3, <3>4
  <2>3. CASE ~t2m.fhpValid
    <3>1. \A k \in 1..w : At(n, k)'.at # 0
      BY <1>1, <2>1, <2>3 DEF PointsTo
    <3>2. CASE r = 0
      <4>1. t2m'.fhpValid /\ mPdu'.fhp = w
        BY <1>2, <2>3, <3>2
      <4>2. At(n, w + 1)'.at = 0
        <5>1. w + 1 \in (w + 1)..(w + len)
          BY <1>1
        <5>2. Place(r, w, w + 1) = r
          BY DEF Place
        <5> QED BY <1>1, <3>2, <5>1, <5>2 DEF Byte
      <4>3. w <= w + len /\ w < w + len
        BY <1>1
      <4>4. PointsThen(n, w)
        BY <1>1, <3>1, <4>2, <4>3 DEF PointsThen
      <4> QED BY <1>2, <4>1, <4>3, <4>4
    <3>3. CASE r # 0
      <4>1. ~t2m'.fhpValid /\ t2m'.wp = w + len
        BY <1>2, <2>3, <3>3
      <4>2. ASSUME NEW k \in 1..(w + len) PROVE At(n, k)'.at # 0
        <5>1. CASE k \in 1..w
          BY <3>1, <5>1
        <5>2. CASE k \in (w + 1)..(w + len)
          <6>1. Place(r, w, k) \in Nat /\ r <= Place(r, w, k)
            BY <5>2, ChunkPlaces
          <6>2. Place(r, w, k) # 0
            BY <3>3, <6>1
          <6> QED BY <1>1, <5>2, <6>2 DEF Byte
        <5> QED BY <5>1, <5>2
      <4> QED BY <1>1, <4>1, <4>2 DEF PointsThen
    <3> QED BY <3>2, <3>3
  <2> QED BY <1>3, <2>2, <2>3
<1>7. PICK p \in Nat : PointsThen(n, p) /\ p = IF t2m'.fhpValid THEN mPdu'.fhp ELSE t2m'.wp
  BY <1>6
<1>8. PointsTo(Len(sent) + 1, IF t2m.fhpValid THEN mPdu.fhp ELSE t2m.wp)'
  BY <1>2, <1>7 DEF PointsTo, PointsThen
<1>9. \A i \in 1..Len(sent') : PointsTo(i, sent[i].fhp)'
  BY <1>2, <1>5
<1> QED BY <1>6, <1>8, <1>9 DEF Pointed

\* An iteration of the loop that writes.
LEMMA WritePacketStep ==
  ASSUME DownInv, use = "telemetry", WritePacket
  PROVE  DownInv'
<1>1. PICK len \in Nat, ends \in BOOLEAN : Chunk(len, ends)
  BY WriteIsChunk
<1>2. ListInv' /\ DownTypeOK'
  BY WriteIsChunk
<1>3. Connected' /\ Cursor' /\ Numbered' /\ InOrder' /\ Queued' /\ Kept' /\ Pointed'
  BY <1>1, ChunkConnected, ChunkOrdered, ChunkQueued, ChunkKept, ChunkPointed
<1> QED BY <1>2, <1>3 DEF DownInv

\* In the beginning nothing is written.
LEMMA DownlinkInit ==
  ASSUME Init, DownlinkStart
  PROVE  DownInv
<1>1. ListInv /\ Q = <<>>
  <2>1. ListInv /\ Queue!QueueInit
    BY ListInit
  <2> QED BY <2>1 DEF Queue!QueueInit, Q
<1>2. /\ t2m = Initialized /\ mPdu = [fhp |-> 0, data |-> [i \in 1..DataSize |-> Byte(Fill(1), 0)]]
      /\ counter = 0 /\ frames = 0 /\ sent = <<>> /\ made = 0 /\ disturbed = FALSE
  BY DEF DownlinkStart
<1>3. /\ DataSize \in Nat \ {0} /\ TelemetryMax \in Nat /\ DefaultInterval \in Nat
      /\ CounterMod \in Nat \ {0}
  BY DownlinkAssumption
<1>4. t2m.rp = 0 /\ t2m.wp = 0 /\ ~t2m.fhpValid /\ Len(sent) = 0
      /\ t2m \in [rp : Nat, wp : 0..DataSize, fhpValid : BOOLEAN, interval : Nat, elapsed : Nat]
  BY <1>2, <1>3 DEF Initialized
<1>5. Byte(Fill(1), 0) \in ByteSet
  BY <1>3 DEF Byte, Fill, ByteSet
<1>6. DownTypeOK
  <2>1. <<>> \in Seq(FrameSet) /\ <<>> \in Seq(TelemetryPackets)
    OBVIOUS
  <2>2. mPdu \in [fhp : Nat, data : [1..DataSize -> ByteSet]]
    BY <1>2, <1>5
  <2>3. sent \in Seq(FrameSet) /\ Q \in Seq(TelemetryPackets)
    <3>1. sent = <<>>
      BY <1>2
    <3> QED BY <1>1, <2>1, <3>1
  <2>4. counter \in Nat /\ frames \in Nat /\ made \in 0..TelemetryMax /\ disturbed \in BOOLEAN
    <3>1. counter = 0 /\ frames = 0 /\ made = 0 /\ disturbed = FALSE
      BY <1>2
    <3>2. counter \in Nat /\ frames \in Nat /\ made \in 0..TelemetryMax
      BY <1>3, <3>1
    <3>3. disturbed \in BOOLEAN
      BY <3>1
    <3> QED BY <3>2, <3>3
  <2> QED BY <1>1, <1>4, <2>2, <2>3, <2>4 DEF DownTypeOK
<1>7. \A i \in 1..1 : Filled(i) = 0
  BY <1>4 DEF Filled
<1>8. Numbered
  <2>1. 0 % CounterMod = 0
    BY <1>3, RemainderBound
  <2> QED BY <1>2, <1>4, <2>1 DEF Numbered
<1>9. Pointed
  BY <1>4, <1>7 DEF Pointed, PointsTo
<1>10. Connected /\ InOrder
  BY <1>4, <1>7 DEF Connected, InOrder
<1>11. Cursor
  BY <1>2, <1>4 DEF Cursor
<1>12. Queued
  BY <1>1, <1>4, <1>7 DEF Queued
<1>13. Kept
  BY <1>2, <1>4 DEF Kept
<1> QED BY <1>1, <1>6, <1>8, <1>9, <1>10, <1>11, <1>12, <1>13 DEF DownInv

\* The invariant of the downlink: types and counters, the pointers of the frames, the bytes of a
\* packet behind one another, packets in the order they were made, and none lost on board.
THEOREM DownlinkInvariance == DownlinkSpec => []DownInv
<1>1. Init /\ DownlinkStart => DownInv
  BY DownlinkInit
<1>2. DownInv /\ [DownlinkNext]_<<vars, downVars>> => DownInv'
  <2> SUFFICES ASSUME DownInv, [DownlinkNext]_<<vars, downVars>> PROVE DownInv'
    OBVIOUS
  <2>1. CASE DownlinkNext
    <3>1. use = "telemetry" /\ DownlinkSteps
      BY <2>1 DEF DownlinkNext, AsTelemetry
    <3>2. CASE \E len \in Lengths : MakeTelemetry(len)
      BY <3>1, <3>2, MakeTelemetryStep
    <3>3. CASE PushFill
      BY <3>1, <3>3, PushFillStep
    <3>4. CASE WritePacket
      BY <3>1, <3>4, WritePacketStep
    <3>5. CASE SendFrame
      BY <3>1, <3>5, SendFrameStep
    <3>6. CASE Reinitialize
      BY <3>1, <3>6, ReinitializeStep
    <3>7. CASE \/ StartExecution \/ StopForming \/ Interrupt
               \/ \E elapsed \in 0..ElapsedMax : SetTime(elapsed)
               \/ \E interval \in FlushIntervals : SetFlushInterval(interval)
      BY <3>1, <3>7, IdleActions
    <3> QED BY <3>1, <3>2, <3>3, <3>4, <3>5, <3>6, <3>7 DEF DownlinkSteps, FormStep
  <2>2. CASE UNCHANGED <<vars, downVars>>
    <3>1. ListInv' /\ Q' = Q
      BY <2>2, QueueSteps DEF DownInv
    <3>2. UNCHANGED <<t2m, mPdu, counter, frames, sent, made, disturbed>>
      BY <2>2 DEF downVars
    <3>3. DownTypeOK'
      BY <3>1, <3>2 DEF DownInv, DownTypeOK
    <3>4. Idle
      BY <3>1, <3>2 DEF Idle
    <3> QED BY <3>1, <3>3, <3>4, IdleStep
  <2> QED BY <2>1, <2>2
<1> QED BY <1>1, <1>2, PTL DEF DownlinkSpec

-----------------------------------------------------------------------------
(***************************************************************************)
(* The receiver, in a state with the invariant: arrived are the frames     *)
(* that it gets.                                                           *)
(***************************************************************************)
ReceiverSet == [inStep : BOOLEAN, open : Seq(ByteSet), got : Seq(Seq(ByteSet)), counter : Nat]

\* The first k bytes of the packet of byte c, and all of them.
Begun(c, k) == [m \in 1..k |-> [c EXCEPT !.at = m - 1]]
PacketOf(c) == Begun(c, c.len)

EndsAt(j, l) == At(j, l).at + 1 = At(j, l).len
FirstByte(c) == [c EXCEPT !.at = 0]

\* Byte l of the j-th frame is not behind byte x of the i-th one.
Passed(j, l, i, x) == j < i \/ (j = i /\ l <= x)

\* What was got up to byte x of the i-th frame: the packets that end there, whole, in their order,
\* and each one that can be got.
OpenArrived(open, arrived) == \A m \in 1..Len(open) : open[m] \in BytesOf(arrived)
GotWhole(got, arrived, i, x) ==
    \A k \in 1..Len(got) : \E j \in arrived : \E l \in 1..DataSize :
      /\ Passed(j, l, i, x) /\ EndsAt(j, l) /\ got[k] = PacketOf(At(j, l))
      /\ \A m \in 1..Len(got[k]) : got[k][m] \in BytesOf(arrived)
GotInOrder(got) ==
    \A h, k \in 1..Len(got) :
      h < k /\ got[h][1].number > 0 /\ got[k][1].number > 0 => got[h][1].number < got[k][1].number
GotAll(got, arrived, i, x) ==
    \A j \in arrived : \A l \in 1..DataSize :
      Passed(j, l, i, x) /\ EndsAt(j, l) /\ At(j, l).number > 0 /\ FirstByte(At(j, l)) \in BytesOf(arrived) =>
        \E k \in 1..Len(got) : got[k][1] = FirstByte(At(j, l))
Gathered(r, arrived, i, x) ==
    OpenArrived(r.open, arrived) /\ GotWhole(r.got, arrived, i, x) /\ GotInOrder(r.got) /\ GotAll(r.got, arrived, i, x)

\* In step before the byte c, and behind it.
Before(r, c) == r.inStep => r.open = Begun(c, c.at)
Behind(r, c) == r.inStep => r.open = IF c.at + 1 = c.len THEN <<>> ELSE Begun(c, c.at + 1)

\* A byte and its neighbours in the packet.
LEMMA ByteFacts ==
  ASSUME NEW c \in ByteSet
  PROVE  /\ c.number \in Nat /\ c.at \in Nat /\ c.len \in 1..DataSize /\ c.len \in Nat /\ c.at < c.len
         /\ c = [number |-> c.number, at |-> c.at, len |-> c.len]
         /\ \A at \in Nat : at < c.len => [c EXCEPT !.at = at] \in ByteSet
         /\ \A at : [c EXCEPT !.at = at] = [number |-> c.number, at |-> at, len |-> c.len]
<1>1. c.number \in Nat /\ c.at \in Nat /\ c.len \in 1..DataSize /\ c.len \in Nat /\ c.at < c.len
  BY DownlinkAssumption DEF ByteSet
<1>2. c = [number |-> c.number, at |-> c.at, len |-> c.len]
  BY DEF ByteSet
<1>3. \A at : [c EXCEPT !.at = at] = [number |-> c.number, at |-> at, len |-> c.len]
  BY DEF ByteSet
<1>4. ASSUME NEW at \in Nat, at < c.len PROVE [c EXCEPT !.at = at] \in ByteSet
  BY <1>4 DEF ByteSet
<1> QED BY <1>1, <1>2, <1>3, <1>4

\* The first bytes of a packet.
LEMMA BegunFacts ==
  ASSUME NEW c \in ByteSet
  PROVE  /\ \A k \in 0..c.len : Begun(c, k) \in Seq(ByteSet) /\ Len(Begun(c, k)) = k
         /\ \A k \in 0..c.len : \A m \in 1..k : Begun(c, k)[m] = [c EXCEPT !.at = m - 1]
         /\ Begun(c, 0) = <<>>
         /\ Append(Begun(c, c.at), c) = Begun(c, c.at + 1)
         /\ \A b \in ByteSet : b.number = c.number /\ b.len = c.len => \A k : Begun(b, k) = Begun(c, k)
<1>1. c.at \in Nat /\ c.len \in Nat /\ c.at < c.len /\ \A at \in Nat : at < c.len => [c EXCEPT !.at = at] \in ByteSet
  BY ByteFacts
<1>2. ASSUME NEW k \in 0..c.len
      PROVE  /\ Begun(c, k) \in Seq(ByteSet) /\ Len(Begun(c, k)) = k
             /\ \A m \in 1..k : Begun(c, k)[m] = [c EXCEPT !.at = m - 1]
  <2>1. k \in Nat /\ \A m \in 1..k : [c EXCEPT !.at = m - 1] \in ByteSet
    BY <1>1
  <2> QED BY <2>1 DEF Begun
<1>3. Begun(c, 0) = <<>>
  BY DEF Begun
<1>4. Append(Begun(c, c.at), c) = Begun(c, c.at + 1)
  <2> DEFINE a == Append(Begun(c, c.at), c)
             b == Begun(c, c.at + 1)
  <2>1. c.at \in 0..c.len /\ c.at + 1 \in 0..c.len
    BY <1>1
  <2>2. Begun(c, c.at) \in Seq(ByteSet) /\ Len(Begun(c, c.at)) = c.at /\ b \in Seq(ByteSet) /\ Len(b) = c.at + 1
    BY <1>2, <2>1
  <2>3. a \in Seq(ByteSet) /\ Len(a) = c.at + 1
    BY <2>2
  <2>4. ASSUME NEW m \in 1..(c.at + 1) PROVE a[m] = b[m]
    <3>1. b[m] = [c EXCEPT !.at = m - 1]
      BY <1>2, <2>1
    <3>2. CASE m = c.at + 1
      <4>1. a[m] = c /\ m - 1 = c.at
        BY <1>1, <2>2, <3>2
      <4>2. [c EXCEPT !.at = c.at] = c
        BY ByteFacts
      <4> QED BY <3>1, <4>1, <4>2
    <3>3. CASE m # c.at + 1
      <4>1. m \in 1..c.at
        BY <1>1, <3>3
      <4>2. a[m] = Begun(c, c.at)[m]
        BY <1>1, <2>2, <4>1
      <4> QED BY <1>2, <2>1, <3>1, <4>1, <4>2
    <3> QED BY <3>2, <3>3
  <2> HIDE DEF a, b
  <2>5. a = b
    BY <2>2, <2>3, <2>4, SeqEqual
  <2> QED BY <2>5 DEF a, b
<1>5. ASSUME NEW b \in ByteSet, b.number = c.number, b.len = c.len, NEW k PROVE Begun(b, k) = Begun(c, k)
  <2>1. \A at : [b EXCEPT !.at = at] = [c EXCEPT !.at = at]
    BY <1>5, ByteFacts
  <2> QED BY <2>1 DEF Begun
<1> QED BY <1>2, <1>3, <1>4, <1>5

\* What is known of the bytes of the frames that were sent.
LEMMA SentFacts ==
  ASSUME DownInv
  PROVE  /\ Len(sent) \in Nat /\ DataSize \in Nat \ {0} /\ CounterMod \in Nat \ {0}
         /\ \A i \in 1..Len(sent) : /\ sent[i].data \in [1..DataSize -> ByteSet] /\ sent[i].fhp \in 0..DataSize
                                    /\ sent[i].counter = (i - 1) % CounterMod /\ sent[i].counter \in Nat
         /\ \A i \in 1..Len(sent) : \A k \in 1..DataSize : At(i, k) = sent[i].data[k] /\ At(i, k) \in ByteSet
         /\ \A i \in 1..Len(sent) : \A k \in 1..sent[i].fhp : At(i, k).at # 0
         /\ \A i \in 1..Len(sent) : sent[i].fhp < DataSize => At(i, sent[i].fhp + 1).at = 0
         /\ \A i \in 1..Len(sent) : \A k \in 1..(DataSize - 1) : Succeeds(At(i, k), At(i, k + 1))
         /\ \A i \in 1..Len(sent) : i + 1 \in 1..Len(sent) /\ At(i + 1, 1).at # 0 =>
              Succeeds(At(i, DataSize), At(i + 1, 1))
         /\ \A i, j \in 1..Len(sent) : \A k, l \in 1..DataSize :
              Earlier(i, k, j, l) => Precedes(At(i, k), At(j, l), l)
<1>1. /\ Len(sent) \in Nat /\ DataSize \in Nat \ {0} /\ CounterMod \in Nat \ {0}
      /\ \A i \in 1..Len(sent) : Filled(i) = DataSize /\ i \in 1..(Len(sent) + 1) /\ i # Len(sent) + 1
      /\ \A i \in 1..(Len(sent) + 1) : \A k \in 1..DataSize : At(i, k) \in ByteSet
  BY DownTypes, DownlinkAssumption DEF DownInv
<1>2. \A i \in 1..Len(sent) : sent[i] \in FrameSet
  BY DEF DownInv, DownTypeOK
<1>3. \A i \in 1..Len(sent) : /\ sent[i].data \in [1..DataSize -> ByteSet] /\ sent[i].fhp \in 0..DataSize
                              /\ sent[i].counter = (i - 1) % CounterMod /\ sent[i].counter \in Nat
  BY <1>2 DEF FrameSet, Numbered, DownInv
<1>4. \A i \in 1..Len(sent) : \A k \in 1..DataSize : At(i, k) = sent[i].data[k] /\ At(i, k) \in ByteSet
  BY <1>1 DEF At
<1>5. ASSUME NEW i \in 1..Len(sent)
      PROVE  /\ \A k \in 1..sent[i].fhp : At(i, k).at # 0
             /\ sent[i].fhp < DataSize => At(i, sent[i].fhp + 1).at = 0
  BY <1>1 DEF DownInv, Pointed, PointsTo
<1>6. \A i \in 1..Len(sent) : \A k \in 1..(DataSize - 1) : Succeeds(At(i, k), At(i, k + 1))
  BY <1>1 DEF DownInv, Connected
<1>7. ASSUME NEW i \in 1..Len(sent), i + 1 \in 1..Len(sent), At(i + 1, 1).at # 0
      PROVE  Succeeds(At(i, DataSize), At(i + 1, 1))
  <2>1. Written(i + 1, 1)
    BY <1>1, <1>7 DEF Written
  <2> QED BY <1>7, <2>1 DEF DownInv, Connected
<1>8. ASSUME NEW i \in 1..Len(sent), NEW j \in 1..Len(sent), NEW k \in 1..DataSize, NEW l \in 1..DataSize,
             Earlier(i, k, j, l)
      PROVE  Precedes(At(i, k), At(j, l), l)
  BY <1>1, <1>8 DEF DownInv, InOrder
<1> QED BY <1>1, <1>3, <1>4, <1>5, <1>6, <1>7, <1>8

\* In a frame, the bytes before byte b of a packet are the bytes before b of that packet.
LEMMA BytesBefore ==
  ASSUME DownInv, NEW i \in 1..Len(sent), NEW y \in 1..DataSize, NEW b, b = At(i, y)
  PROVE  \A m \in Nat : m < y /\ m <= b.at => At(i, y - m) = [b EXCEPT !.at = b.at - m]
<1>1. DataSize \in Nat \ {0} /\ b \in ByteSet /\ y \in Nat
      /\ (\A k \in 1..DataSize : At(i, k) \in ByteSet)
      /\ (\A k \in 1..(DataSize - 1) : Succeeds(At(i, k), At(i, k + 1)))
  BY SentFacts
<1>2. PICK at \in Nat : at = b.at
  BY <1>1, ByteFacts
<1>2a. \A v : [b EXCEPT !.at = v] = [number |-> b.number, at |-> v, len |-> b.len]
  BY <1>1, ByteFacts
<1> DEFINE S == {m \in Nat : m < y /\ m <= at => At(i, y - m) = [b EXCEPT !.at = at - m]}
<1>3. 0 \in S
  <2>1. y - 0 = y /\ at - 0 = at
    BY <1>1
  <2>2. [b EXCEPT !.at = b.at] = b
    BY <1>1, ByteFacts
  <2> QED BY <1>2, <2>1, <2>2
<1>4. ASSUME NEW m \in Nat, m \in S PROVE m + 1 \in S
  <2> SUFFICES ASSUME m + 1 < y, m + 1 <= at
               PROVE  At(i, y - (m + 1)) = [b EXCEPT !.at = at - (m + 1)]
    OBVIOUS
  <2>0. y - (m + 1) \in Nat /\ at - (m + 1) \in Nat
    <3>1. y \in Nat
      BY <1>1
    <3> QED BY <3>1
  <2> DEFINE k == y - (m + 1)
             x == at - (m + 1)
  <2>1. k \in Nat /\ x \in Nat /\ k + 1 = y - m /\ x + 1 = at - m /\ k + 1 \in 1..y /\ y \in 1..DataSize /\ k # 0
    <3>1. y \in Nat
      BY <1>1
    <3> QED BY <2>0, <3>1
  <2> HIDE DEF k, x
  <2>2. k \in 1..(DataSize - 1) /\ k \in 1..DataSize
    BY <1>1, <2>1
  <2>3. At(i, k + 1) = [b EXCEPT !.at = x + 1]
    BY <1>4, <2>1
  <2>4. At(i, k + 1) = [number |-> b.number, at |-> x + 1, len |-> b.len] /\ x + 1 # 0
    BY <1>2a, <2>1, <2>3
  <2> DEFINE c == At(i, k)
  <2>5. c \in ByteSet /\ Succeeds(c, At(i, k + 1))
    BY <1>1, <2>2
  <2> HIDE DEF c
  <2>6. At(i, k + 1) = [c EXCEPT !.at = c.at + 1]
    BY <2>4, <2>5 DEF Succeeds
  <2>7. c = [number |-> c.number, at |-> c.at, len |-> c.len] /\ c.at \in Nat
        /\ At(i, k + 1) = [number |-> c.number, at |-> c.at + 1, len |-> c.len]
    BY <2>5, <2>6, ByteFacts
  <2>8. c.number = b.number /\ c.len = b.len /\ c.at + 1 = x + 1
    <3> DEFINE e == At(i, k + 1)
    <3>1. e.number = b.number /\ e.len = b.len /\ e.at = x + 1
      BY <2>4
    <3>2. e.number = c.number /\ e.len = c.len /\ e.at = c.at + 1
      BY <2>7
    <3> QED BY <3>1, <3>2
  <2>9. c.at = x
    <3> PICK z \in Nat : z = c.at
      BY <2>7
    <3>1. z + 1 = x + 1
      BY <2>8
    <3> QED BY <2>1, <3>1
  <2>10. c = [b EXCEPT !.at = x]
    BY <1>2a, <2>7, <2>8, <2>9
  <2> QED BY <2>10 DEF c, k, x
<1> HIDE DEF S
<1>5. \A m \in Nat : m \in S
  BY <1>3, <1>4, NatSetInduction
<1> QED BY <1>2, <1>5 DEF S

\* A packet that ends before the first one that begins in a frame began in the frame before.
LEMMA Carried ==
  ASSUME DownInv, NEW i \in 1..Len(sent), NEW y \in 1..sent[i].fhp, At(i, y).number > 0, EndsAt(i, y),
         NEW j \in 1..Len(sent), NEW l \in 1..DataSize, At(j, l) = FirstByte(At(i, y))
  PROVE  i > 1 /\ j = i - 1 /\ sent[j].fhp < DataSize
<1>1. Len(sent) \in Nat /\ DataSize \in Nat \ {0} /\ sent[i].fhp \in 0..DataSize /\ y \in 1..DataSize /\ y \in Nat
      /\ (\A g \in 1..Len(sent) : \A k \in 1..DataSize : At(g, k) \in ByteSet)
      /\ (\A k \in 1..sent[i].fhp : At(i, k).at # 0)
  BY SentFacts
<1>2. PICK b \in ByteSet : b = At(i, y)
  BY <1>1
<1>3. /\ b.number \in Nat /\ b.number > 0 /\ b.len \in 1..DataSize /\ b.at + 1 = b.len
      /\ \A v : [b EXCEPT !.at = v] = [number |-> b.number, at |-> v, len |-> b.len]
      /\ At(j, l) = [number |-> b.number, at |-> 0, len |-> b.len]
  <2>1. b.number > 0 /\ b.at + 1 = b.len /\ At(j, l) = [b EXCEPT !.at = 0]
    BY <1>2 DEF EndsAt, FirstByte
  <2> QED BY <2>1, ByteFacts
<1>4. PICK at \in Nat : at = b.at
  BY ByteFacts
<1>5. at + 1 = b.len /\ at < DataSize
  <2>1. at + 1 = b.len
    BY <1>3, <1>4
  <2> QED BY <1>1, <1>3, <2>1
<1>6. \A m \in Nat : m < y /\ m <= at => At(i, y - m) = [b EXCEPT !.at = at - m]
  BY <1>1, <1>2, <1>4, BytesBefore
\* It begins before the frame.
<1>7. at >= y
  <2> SUFFICES ASSUME at < y PROVE FALSE
    BY <1>1
  <2>1. At(i, y - at) = [b EXCEPT !.at = at - at] /\ y - at \in 1..sent[i].fhp /\ at - at = 0
    BY <1>1, <1>6
  <2>2. At(i, y - at).at = 0
    BY <1>3, <2>1
  <2> QED BY <1>1, <2>1, <2>2
<1>8. At(i, 1) = [number |-> b.number, at |-> at - (y - 1), len |-> b.len] /\ at - (y - 1) \in Nat \ {0}
  <2>1. y - 1 \in Nat /\ y - 1 < y /\ y - 1 <= at /\ y - (y - 1) = 1 /\ at - (y - 1) \in Nat \ {0}
    BY <1>1, <1>7
  <2>2. At(i, y - (y - 1)) = [b EXCEPT !.at = at - (y - 1)]
    BY <1>6, <2>1
  <2> QED BY <1>3, <2>1, <2>2
\* The first byte is not behind the last one, nor in the same frame.
<1>9. ~Earlier(i, y, j, l)
  <2>1. Earlier(i, y, j, l) => Precedes(At(i, y), At(j, l), l)
    BY <1>1, SentFacts
  <2>2. ~Precedes(b, At(j, l), l)
    BY <1>3 DEF Precedes
  <2> QED BY <1>2, <2>1, <2>2
<1>10. j # i
  <2> SUFFICES ASSUME j = i PROVE FALSE
    OBVIOUS
  <2>1. l <= y
    BY <1>1, <1>9 DEF Earlier
  <2>2. l \in 1..sent[i].fhp
    BY <1>1, <2>1
  <2> QED BY <1>1, <1>3, <2>2
<1>11. i > 1 /\ j < i
  BY <1>1, <1>9, <1>10 DEF Earlier
<1>12. PICK g \in Nat : g = i - 1 /\ i = g + 1 /\ g \in 1..Len(sent)
  <2>1. i - 1 \in Nat /\ i = (i - 1) + 1 /\ i - 1 \in 1..Len(sent)
    BY <1>1, <1>11
  <2> QED BY <2>1
\* The last byte of the frame before is the one before the first byte of the frame.
<1>13. At(g, DataSize) = [number |-> b.number, at |-> at - y, len |-> b.len] /\ at - y \in Nat
  <2> DEFINE e == At(g, DataSize)
             c == At(i, 1)
  <2>1. c.at # 0 /\ c.number = b.number /\ c.len = b.len /\ c.at = at - (y - 1)
    BY <1>8
  <2>2. Succeeds(e, c)
    BY <1>12, <2>1, SentFacts
  <2>3. e \in ByteSet
    BY <1>1, <1>12
  <2> HIDE DEF e, c
  <2>4. c = [e EXCEPT !.at = e.at + 1]
    BY <2>1, <2>2 DEF Succeeds
  <2>5. e = [number |-> e.number, at |-> e.at, len |-> e.len] /\ e.at \in Nat
        /\ c = [number |-> e.number, at |-> e.at + 1, len |-> e.len]
    BY <2>3, <2>4, ByteFacts
  <2>6. c.number = e.number /\ c.len = e.len /\ c.at = e.at + 1
    BY <2>5
  <2>7. PICK z \in Nat : z = e.at
    BY <2>5
  <2>8. z + 1 = at - (y - 1)
    BY <2>1, <2>6, <2>7
  <2>9. z = at - y
    BY <1>1, <2>8
  <2> QED BY <2>1, <2>5, <2>6, <2>7, <2>9 DEF e
\* So the packet begins there, and not with the first byte of the frame.
<1>14. PICK p \in Nat : p \in 2..DataSize /\ At(g, p) = [number |-> b.number, at |-> 0, len |-> b.len]
  <2> DEFINE e == At(g, DataSize)
  <2>1. PICK z \in Nat : z = at - y
    BY <1>13
  <2>2. e.at = z /\ e.number = b.number /\ e.len = b.len
    BY <1>13, <2>1
  <2>3. e \in ByteSet
    BY <1>1, <1>12
  <2>4. DataSize \in 1..DataSize /\ z < DataSize /\ z - z = 0 /\ DataSize - z \in 2..DataSize /\ DataSize - z \in Nat
    BY <1>1, <1>5, <2>1
  <2>5. \A m \in Nat : m < DataSize /\ m <= e.at => At(g, DataSize - m) = [e EXCEPT !.at = e.at - m]
    BY <1>12, <2>4, BytesBefore
  <2>6. At(g, DataSize - z) = [e EXCEPT !.at = e.at - z]
    BY <2>2, <2>4, <2>5
  <2>7. [e EXCEPT !.at = 0] = [number |-> e.number, at |-> 0, len |-> e.len]
    BY <2>3, ByteFacts
  <2> QED BY <2>2, <2>4, <2>6, <2>7
\* A packet begins again with the first byte of a frame only: this is where its first byte arrived.
<1>15. j = g /\ l = p
  <2>1. \A k \in 1..Len(sent), h \in 1..Len(sent), q \in 1..DataSize, o \in 1..DataSize :
          Earlier(k, q, h, o) => Precedes(At(k, q), At(h, o), o)
    BY SentFacts
  <2>2. p \in 1..DataSize /\ p # 1
    BY <1>1, <1>14
  <2>3. ~Earlier(j, l, g, p)
    <3>1. ~Precedes(At(j, l), At(g, p), p)
      BY <1>3, <1>14, <2>2 DEF Precedes
    <3> QED BY <1>12, <2>1, <2>2, <3>1
  <2>4. ~Earlier(g, p, j, l)
    <3> SUFFICES ASSUME Earlier(g, p, j, l) PROVE FALSE
      OBVIOUS
    <3>1. Precedes(At(g, p), At(j, l), l)
      BY <1>12, <2>1, <2>2
    <3>2. l = 1
      BY <1>3, <1>14, <3>1 DEF Precedes
    <3>3. j = g /\ p < l
      BY <1>11, <1>12 DEF Earlier
    <3> QED BY <1>14, <3>2, <3>3
  <2>5. \A x, z \in Nat : x < z \/ z < x \/ x = z
    OBVIOUS
  <2>6. j \in Nat /\ l \in Nat
    BY <1>1
  <2> QED BY <1>12, <1>14, <2>3, <2>4, <2>5, <2>6 DEF Earlier
<1>16. sent[g].fhp < DataSize
  <2>1. sent[g].fhp \in 0..DataSize /\ \A k \in 1..sent[g].fhp : At(g, k).at # 0
    BY <1>12, SentFacts
  <2>2. p \notin 1..sent[g].fhp
    BY <1>14, <2>1
  <2> QED BY <1>1, <1>14, <2>1, <2>2
<1> QED BY <1>11, <1>12, <1>15, <1>16

-----------------------------------------------------------------------------
\* The fields of the receiver.
LEMMA ReceiverFields ==
  ASSUME NEW r \in ReceiverSet
  PROVE  \A o, g : /\ [r EXCEPT !.open = o] = [inStep |-> r.inStep, open |-> o, got |-> r.got, counter |-> r.counter]
                  /\ [r EXCEPT !.open = <<>>, !.got = g] =
                       [inStep |-> r.inStep, open |-> <<>>, got |-> g, counter |-> r.counter]
<1> TAKE o, g
<1> DEFINE a == [inStep |-> r.inStep, open |-> <<>>, got |-> r.got, counter |-> r.counter]
<1>1. [r EXCEPT !.open = o] = [inStep |-> r.inStep, open |-> o, got |-> r.got, counter |-> r.counter]
  BY DEF ReceiverSet
<1>2. [r EXCEPT !.open = <<>>] = a
  BY DEF ReceiverSet
<1>3. [a EXCEPT !.got = g] = [inStep |-> r.inStep, open |-> <<>>, got |-> g, counter |-> r.counter]
  OBVIOUS
<1> HIDE DEF a
<1>4. [r EXCEPT !.open = <<>>, !.got = g] = [[r EXCEPT !.open = <<>>] EXCEPT !.got = g]
  OBVIOUS
<1> QED BY <1>1, <1>2, <1>3, <1>4

\* What one byte changes in the receiver.
LEMMA TakeByteTypes ==
  ASSUME NEW r \in ReceiverSet, NEW c \in ByteSet
  PROVE  /\ TakeByte(r, c) \in ReceiverSet
         /\ TakeByte(r, c).inStep = r.inStep /\ TakeByte(r, c).counter = r.counter
         /\ ~r.inStep => TakeByte(r, c) = r
         /\ r.inStep /\ Len(Append(r.open, c)) # Head(Append(r.open, c)).len =>
              TakeByte(r, c).open = Append(r.open, c) /\ TakeByte(r, c).got = r.got
         /\ r.inStep /\ Len(Append(r.open, c)) = Head(Append(r.open, c)).len =>
              TakeByte(r, c).open = <<>> /\ TakeByte(r, c).got = Append(r.got, Append(r.open, c))
<1> DEFINE open == Append(r.open, c)
<1>1. r.open \in Seq(ByteSet) /\ r.got \in Seq(Seq(ByteSet))
      /\ r = [inStep |-> r.inStep, open |-> r.open, got |-> r.got, counter |-> r.counter]
      /\ r.inStep \in BOOLEAN /\ r.counter \in Nat
  BY DEF ReceiverSet
<1>2. open \in Seq(ByteSet) /\ <<>> \in Seq(ByteSet)
  BY <1>1
<1>3. Append(r.got, open) \in Seq(Seq(ByteSet))
  BY <1>1, <1>2, AppendProperties
<1> DEFINE complete == Len(open) = Head(open).len
<1>4. TakeByte(r, c) = IF ~r.inStep THEN r
                       ELSE IF complete THEN [r EXCEPT !.open = <<>>, !.got = Append(r.got, open)]
                       ELSE [r EXCEPT !.open = open]
  BY DEF TakeByte
<1> HIDE DEF open
<1> HIDE DEF complete
<1>5. /\ [r EXCEPT !.open = open] = [inStep |-> r.inStep, open |-> open, got |-> r.got, counter |-> r.counter]
      /\ [r EXCEPT !.open = <<>>, !.got = Append(r.got, open)] =
           [inStep |-> r.inStep, open |-> <<>>, got |-> Append(r.got, open), counter |-> r.counter]
  BY ReceiverFields
<1>6. /\ [inStep |-> r.inStep, open |-> open, got |-> r.got, counter |-> r.counter] \in ReceiverSet
      /\ [inStep |-> r.inStep, open |-> <<>>, got |-> Append(r.got, open), counter |-> r.counter] \in ReceiverSet
  BY <1>1, <1>2, <1>3 DEF ReceiverSet
<1>7. CASE ~r.inStep
  BY <1>4, <1>7
<1>8. CASE r.inStep /\ complete
  BY <1>4, <1>5, <1>6, <1>8 DEF open, complete
<1>9. CASE r.inStep /\ ~complete
  BY <1>4, <1>5, <1>6, <1>9 DEF open, complete
<1> QED BY <1>1, <1>7, <1>8, <1>9

\* One byte more.
LEMMA TakeByteStep ==
  ASSUME DownInv, NEW arrived \in SUBSET (1..Len(sent)), NEW i \in arrived, NEW x \in Nat, x + 1 <= DataSize,
         NEW r \in ReceiverSet, Gathered(r, arrived, i, x), NEW c, c = At(i, x + 1), Before(r, c),
         ~r.inStep => ~(EndsAt(i, x + 1) /\ c.number > 0 /\ FirstByte(c) \in BytesOf(arrived)),
         NEW q, q = TakeByte(r, c)
  PROVE  Gathered(q, arrived, i, x + 1) /\ Behind(q, c)
<1>1. Len(sent) \in Nat /\ DataSize \in Nat \ {0} /\ i \in 1..Len(sent) /\ x + 1 \in 1..DataSize
      /\ (\A g \in 1..Len(sent) : \A k \in 1..DataSize : At(g, k) = sent[g].data[k] /\ At(g, k) \in ByteSet)
  <2>1. Len(sent) \in Nat /\ DataSize \in Nat \ {0}
        /\ (\A g \in 1..Len(sent) : \A k \in 1..DataSize : At(g, k) = sent[g].data[k] /\ At(g, k) \in ByteSet)
    BY SentFacts
  <2>2. i \in 1..Len(sent)
    OBVIOUS
  <2>3. x + 1 \in 1..DataSize
    BY <2>1
  <2> QED BY <2>1, <2>2, <2>3
<1>2. c \in ByteSet /\ c \in BytesOf(arrived) /\ (EndsAt(i, x + 1) <=> c.at + 1 = c.len)
  BY <1>1 DEF BytesOf, EndsAt
<1>3. c.number \in Nat /\ c.at \in Nat /\ c.len \in Nat /\ c.at < c.len
  BY <1>2, ByteFacts
<1>4. /\ r.open \in Seq(ByteSet) /\ r.got \in Seq(Seq(ByteSet)) /\ Len(r.got) \in Nat
      /\ r.inStep \in BOOLEAN
  BY DEF ReceiverSet
<1>5. \A j \in arrived : \A l \in 1..DataSize : Passed(j, l, i, x) => Passed(j, l, i, x + 1)
  BY <1>1 DEF Passed
<1>6. \A j \in arrived : \A l \in 1..DataSize :
         Passed(j, l, i, x + 1) => Passed(j, l, i, x) \/ (j = i /\ l = x + 1)
  BY <1>1 DEF Passed
<1>6a. GotWhole(r.got, arrived, i, x + 1)
  <2> SUFFICES ASSUME NEW k \in 1..Len(r.got)
               PROVE  \E j \in arrived : \E l \in 1..DataSize :
                        /\ Passed(j, l, i, x + 1) /\ EndsAt(j, l) /\ r.got[k] = PacketOf(At(j, l))
                        /\ \A m \in 1..Len(r.got[k]) : r.got[k][m] \in BytesOf(arrived)
    BY DEF GotWhole
  <2>1. PICK j \in arrived : \E l \in 1..DataSize :
          /\ Passed(j, l, i, x) /\ EndsAt(j, l) /\ r.got[k] = PacketOf(At(j, l))
          /\ \A m \in 1..Len(r.got[k]) : r.got[k][m] \in BytesOf(arrived)
    BY DEF Gathered, GotWhole
  <2> QED BY <1>5, <2>1
<1>7. CASE ~r.inStep
  <2>1. q = r
    BY <1>2, <1>7, TakeByteTypes
  <2>2. GotAll(r.got, arrived, i, x + 1)
    BY <1>6, <1>7 DEF Gathered, GotAll
  <2> QED BY <1>6a, <1>7, <2>1, <2>2 DEF Gathered, Behind
<1>8. CASE r.inStep
  <2> DEFINE open == Append(r.open, c)
  <2>1. r.open = Begun(c, c.at) /\ open = Begun(c, c.at + 1)
    BY <1>2, <1>8, BegunFacts DEF Before
  <2>2. Len(open) = c.at + 1 /\ Head(open) = [c EXCEPT !.at = 0] /\ open \in Seq(ByteSet)
        /\ open[1] = [c EXCEPT !.at = 0]
    <3>1. c.at + 1 \in 0..c.len /\ 1 \in 1..(c.at + 1) /\ 1 - 1 = 0
      BY <1>3
    <3>2. Begun(c, c.at + 1) \in Seq(ByteSet) /\ Len(Begun(c, c.at + 1)) = c.at + 1
          /\ \A m \in 1..(c.at + 1) : Begun(c, c.at + 1)[m] = [c EXCEPT !.at = m - 1]
      BY <1>2, <3>1, BegunFacts
    <3>3. open[1] = [c EXCEPT !.at = 0]
      BY <2>1, <3>1, <3>2
    <3>4. Head(open) = open[1]
      BY <2>1, <3>1, <3>2
    <3> QED BY <2>1, <3>2, <3>3, <3>4
  <2>3. Head(open).len = c.len /\ Head(open).number = c.number
    BY <1>2, <2>2, ByteFacts
  <2>4. OpenArrived(open, arrived)
    <3>1. Len(r.open) \in Nat /\ \A m \in 1..Len(r.open) : r.open[m] \in BytesOf(arrived)
      BY <1>4 DEF Gathered, OpenArrived
    <3> QED BY <1>2, <1>4, <3>1 DEF OpenArrived
  <2> HIDE DEF open
  <2>5. CASE c.at + 1 # c.len
    <3>1. q.open = open /\ q.got = r.got
      BY <1>2, <1>8, <2>2, <2>3, <2>5, TakeByteTypes DEF open
    <3>2. GotAll(r.got, arrived, i, x + 1)
      BY <1>2, <1>6, <2>5 DEF Gathered, GotAll
    <3>3. Gathered(q, arrived, i, x + 1)
      BY <1>6a, <2>4, <3>1, <3>2 DEF Gathered
    <3> QED BY <2>1, <2>5, <3>1, <3>3 DEF Behind
  <2>6. CASE c.at + 1 = c.len
    <3>1. q.open = <<>> /\ q.got = Append(r.got, open)
      <4>1. Len(open) = Head(open).len
        BY <2>2, <2>3, <2>6
      <4> QED BY <1>2, <1>8, <4>1, TakeByteTypes DEF open
    <3>2. PICK n \in Nat : n = Len(r.got)
      BY <1>4
    <3>3. /\ Len(q.got) = n + 1 /\ q.got[n + 1] = open
          /\ \A k \in 1..n : q.got[k] = r.got[k]
          /\ \A k \in 1..(n + 1) : k \in 1..n \/ k = n + 1
          /\ \A k \in 1..n : k \in 1..(n + 1)
      <4> DEFINE S == Seq(ByteSet)
      <4>1. r.got \in Seq(S) /\ open \in S
        BY <1>4, <2>2
      <4> HIDE DEF S
      <4>2. Len(Append(r.got, open)) = Len(r.got) + 1 /\ Append(r.got, open)[Len(r.got) + 1] = open
            /\ \A k \in 1..Len(r.got) : Append(r.got, open)[k] = r.got[k]
        BY <4>1
      <4> QED BY <3>1, <3>2, <4>2
    <3>4. EndsAt(i, x + 1) /\ open = PacketOf(c) /\ Passed(i, x + 1, i, x + 1) /\ q.got[n + 1][1] = FirstByte(c)
      BY <1>1, <1>2, <2>1, <2>2, <2>6, <3>3 DEF PacketOf, Passed, FirstByte
    <3>5. ASSUME NEW k \in 1..(n + 1)
          PROVE  \E j \in arrived : \E l \in 1..DataSize :
                   /\ Passed(j, l, i, x + 1) /\ EndsAt(j, l) /\ q.got[k] = PacketOf(At(j, l))
                   /\ \A m \in 1..Len(q.got[k]) : q.got[k][m] \in BytesOf(arrived)
      <4>1. CASE k \in 1..n
        <5>1. PICK j \in arrived : \E l \in 1..DataSize :
                /\ Passed(j, l, i, x) /\ EndsAt(j, l) /\ r.got[k] = PacketOf(At(j, l))
                /\ \A m \in 1..Len(r.got[k]) : r.got[k][m] \in BytesOf(arrived)
          BY <3>2, <4>1 DEF Gathered, GotWhole
        <5> QED BY <1>5, <3>3, <4>1, <5>1
      <4>2. CASE k = n + 1
        <5>1. q.got[k] = PacketOf(At(i, x + 1)) /\ \A m \in 1..Len(q.got[k]) : q.got[k][m] \in BytesOf(arrived)
          BY <2>4, <3>3, <3>4, <4>2 DEF OpenArrived
        <5> QED BY <1>1, <3>4, <5>1
      <4> QED BY <3>3, <4>1, <4>2
    <3>6. ASSUME NEW h \in 1..(n + 1), NEW k \in 1..(n + 1), h < k, q.got[h][1].number > 0, q.got[k][1].number > 0
          PROVE  q.got[h][1].number < q.got[k][1].number
      <4>1. h \in 1..n /\ q.got[h] = r.got[h]
        BY <3>3, <3>6
      <4>2. CASE k \in 1..n
        BY <3>2, <3>3, <3>6, <4>1, <4>2 DEF Gathered, GotInOrder
      <4>3. CASE k = n + 1
        <5>1. PICK j \in arrived : \E l \in 1..DataSize : Passed(j, l, i, x) /\ EndsAt(j, l) /\ r.got[h] = PacketOf(At(j, l))
          BY <3>2, <4>1 DEF Gathered, GotWhole
        <5>2. PICK l \in 1..DataSize : Passed(j, l, i, x) /\ EndsAt(j, l) /\ r.got[h] = PacketOf(At(j, l))
          BY <5>1
        <5>3. PICK b \in ByteSet : b = At(j, l)
          BY <1>1
        <5>4. q.got[h][1].number = b.number
          <6>1. b.len \in 0..b.len /\ 1 \in 1..b.len /\ 1 - 1 = 0 /\ [b EXCEPT !.at = 0].number = b.number
            BY <1>1, <5>3, ByteFacts
          <6>2. \A v \in 0..b.len : \A m \in 1..v : Begun(b, v)[m] = [b EXCEPT !.at = m - 1]
            BY BegunFacts
          <6>3. Begun(b, b.len)[1] = [b EXCEPT !.at = 0]
            BY <6>1, <6>2
          <6> QED BY <4>1, <5>2, <5>3, <6>1, <6>3 DEF PacketOf
        <5>5. Earlier(j, l, i, x + 1)
          BY <1>1, <5>2 DEF Passed, Earlier
        <5>6. Precedes(b, c, x + 1)
          BY <1>1, <5>3, <5>5, SentFacts
        <5>7. b.at + 1 = b.len /\ b.number \in Nat /\ b.at \in Nat
          BY <5>2, <5>3, ByteFacts DEF EndsAt
        <5>8. q.got[k][1].number = c.number
          BY <2>2, <2>3, <3>3, <4>3
        <5> QED BY <1>3, <3>6, <5>4, <5>6, <5>7, <5>8 DEF Precedes
      <4> QED BY <3>3, <4>2, <4>3
    <3>7. ASSUME NEW j \in arrived, NEW l \in 1..DataSize,
                 Passed(j, l, i, x + 1), EndsAt(j, l), At(j, l).number > 0, FirstByte(At(j, l)) \in BytesOf(arrived)
          PROVE  \E k \in 1..(n + 1) : q.got[k][1] = FirstByte(At(j, l))
      <4>1. CASE Passed(j, l, i, x)
        <5>1. PICK k \in 1..n : r.got[k][1] = FirstByte(At(j, l))
          BY <3>2, <3>7, <4>1 DEF Gathered, GotAll
        <5> QED BY <3>3, <5>1
      <4>2. CASE j = i /\ l = x + 1
        <5>1. n + 1 \in 1..(n + 1)
          BY <3>2
        <5> QED BY <3>4, <4>2, <5>1
      <4> QED BY <1>6, <3>7, <4>1, <4>2
    <3>8. OpenArrived(q.open, arrived)
      BY <3>1 DEF OpenArrived
    <3>9. Gathered(q, arrived, i, x + 1)
      <4>1. GotWhole(q.got, arrived, i, x + 1)
        BY <3>3, <3>5 DEF GotWhole
      <4>2. GotInOrder(q.got)
        BY <3>3, <3>6 DEF GotInOrder
      <4>3. GotAll(q.got, arrived, i, x + 1)
        BY <3>3, <3>7 DEF GotAll
      <4> QED BY <3>8, <4>1, <4>2, <4>3 DEF Gathered
    <3> QED BY <2>6, <3>1, <3>9 DEF Behind
  <2> QED BY <2>5, <2>6
<1> QED BY <1>4, <1>7, <1>8

\* The bytes are taken one after the other.
TakesAlong(after, r, data, first, n) ==
    after[0] = r /\ \A k \in 1..n : after[k] = TakeByte(after[k - 1], data[first + k])

\* The recursion over the bytes is the iteration of TakeByte.
LEMMA TakenBytes ==
  ASSUME NEW r \in ReceiverSet, NEW data \in [1..DataSize -> ByteSet],
         NEW first \in Nat, NEW last \in Nat, first <= last, last <= DataSize
  PROVE  \E n \in Nat : n = last - first /\ \E after \in [0..n -> ReceiverSet] :
           TakesAlong(after, r, data, first, n) /\ TakeBytes(r, data, first, last) = after[n]
<1> DEFINE D == ReceiverSet
<1>0. PICK n \in Nat : n = last - first /\ \A k \in 1..n : first + k \in 1..DataSize
  <2>1. last - first \in Nat /\ \A k \in 1..(last - first) : first + k \in 1..DataSize
    BY DownlinkAssumption
  <2> QED BY <2>1
<1> DEFINE Take(d, k) == TakeByte(d, data[first + k])
           step == [k \in 1..n |-> [d \in D |-> Take(d, k)]]
           Body(f) == [k \in 0..n |-> IF k = 0 THEN r ELSE Take(f[k - 1], k)]
           after == CHOOSE f : f = Body(f)
<1>1. TakeBytes(r, data, first, last) = after[n]
  BY <1>0 DEF TakeBytes
<1>2. \A k \in 1..n : \A d \in D : Take(d, k) \in D
  <2> SUFFICES ASSUME NEW k \in 1..n, NEW d \in D PROVE Take(d, k) \in D
    OBVIOUS
  <2>1. data[first + k] \in ByteSet
    BY <1>0
  <2> QED BY <2>1, TakeByteTypes
<1>2a. r \in D
  OBVIOUS
<1> HIDE DEF after, Take, D
<1>3. step \in [1..n -> [D -> D]]
  BY <1>2
<1> HIDE DEF step
<1>4. PICK g \in [0..n -> D] : Iterates(g, r, step, n)
  BY <1>2a, <1>3, RecursionExists
<1> USE DEF step, Iterates
<1>5. g = Body(g)
  <2>1. ASSUME NEW k \in 0..n, k # 0 PROVE g[k] = Take(g[k - 1], k)
    <3>1. k \in 1..n /\ k - 1 \in 0..n
      BY <2>1
    <3>2. g[k - 1] \in D /\ g[k] = step[k][g[k - 1]]
      BY <3>1, <1>4
    <3> QED BY <3>1, <3>2
  <2>2. \A k \in 0..n : g[k] = IF k = 0 THEN r ELSE Take(g[k - 1], k)
    BY <2>1, <1>4
  <2> QED BY <2>2
<1> HIDE DEF step
<1>6. after = Body(after)
  <2> HIDE DEF Body
  <2> QED BY <1>5 DEF after
<1>7. after[0] = r /\ \A k \in 1..n : after[k] = Take(after[k - 1], k)
  <2>1. \A k \in 0..n : after[k] = IF k = 0 THEN r ELSE Take(after[k - 1], k)
    BY <1>6
  <2>2. 0 \in 0..n /\ \A k \in 1..n : k \in 0..n /\ k # 0
    OBVIOUS
  <2> HIDE DEF Body
  <2> QED BY <2>1, <2>2
<1>8. \A k \in 0..n : after[k] \in D
  <2> DEFINE S == {k \in Nat : k <= n => after[k] \in D}
  <2>1. 0 \in S
    BY <1>2a, <1>7
  <2>2. ASSUME NEW k \in Nat, k \in S PROVE k + 1 \in S
    <3>1. ASSUME k + 1 <= n PROVE after[k + 1] \in D
      <4>1. k <= n /\ k + 1 \in 1..n /\ (k + 1) - 1 = k
        BY <3>1
      <4>2. after[k] \in D
        BY <4>1, <2>2
      <4> QED BY <4>1, <4>2, <1>2, <1>7
    <3> QED BY <3>1
  <2> HIDE DEF S
  <2>3. \A k \in Nat : k \in S
    BY <2>1, <2>2, NatSetInduction
  <2> QED BY <2>3 DEF S
<1>9. after \in [0..n -> D]
  <2>1. after = [k \in 0..n |-> after[k]]
    BY <1>6
  <2> HIDE DEF Body
  <2> QED BY <1>8, <2>1
<1>10. \A k \in 1..n : after[k] = TakeByte(after[k - 1], data[first + k])
  BY <1>7 DEF Take
<1> HIDE DEF Body
<1> QED BY <1>0, <1>1, <1>7, <1>9, <1>10 DEF D, TakesAlong

\* Behind a byte is before the next one.
LEMMA BehindBefore ==
  ASSUME NEW r, NEW b \in ByteSet, NEW c \in ByteSet, Succeeds(b, c), Behind(r, b)
  PROVE  Before(r, c)
<1> SUFFICES ASSUME r.inStep PROVE r.open = Begun(c, c.at)
  BY DEF Before
<1>1. b.at \in Nat /\ b.len \in Nat /\ b.at < b.len
      /\ [b EXCEPT !.at = b.at + 1] = [number |-> b.number, at |-> b.at + 1, len |-> b.len]
  BY ByteFacts
<1>2. CASE b.at + 1 < b.len
  <2>1. c = [number |-> b.number, at |-> b.at + 1, len |-> b.len]
    BY <1>1, <1>2 DEF Succeeds
  <2>2. c.number = b.number /\ c.at = b.at + 1 /\ c.len = b.len
    BY <2>1
  <2>3. b.at + 1 # b.len
    BY <1>1, <1>2
  <2>4. r.open = Begun(b, b.at + 1)
    BY <2>3 DEF Behind
  <2>5. \A k : Begun(c, k) = Begun(b, k)
    BY <2>2, BegunFacts
  <2> QED BY <2>2, <2>4, <2>5
<1>3. CASE ~(b.at + 1 < b.len)
  <2>1. b.at + 1 = b.len
    BY <1>1, <1>3
  <2>2. r.open = <<>> /\ c.at = 0
    BY <1>3, <2>1 DEF Behind, Succeeds
  <2> QED BY <2>2, BegunFacts
<1> QED BY <1>2, <1>3

\* The receiver before a part of a frame: in step, or without anything to lose.
PartReady(r, arrived, i, first, last) ==
    /\ r \in ReceiverSet /\ first \in Nat /\ last \in Nat /\ first <= last /\ last <= DataSize
    /\ Gathered(r, arrived, i, first)
    /\ first < last => Before(r, At(i, first + 1))
    /\ ~r.inStep => \A y \in (first + 1)..last :
                      EndsAt(i, y) /\ At(i, y).number > 0 => FirstByte(At(i, y)) \notin BytesOf(arrived)

\* A part of a frame: the receiver that is in step before it is in step behind it, and one that is
\* not in step has nothing to lose.
LEMMA TakenSegment ==
  ASSUME DownInv, NEW arrived \in SUBSET (1..Len(sent)), NEW i \in arrived, NEW r, NEW first, NEW last,
         PartReady(r, arrived, i, first, last), NEW q, q = TakeBytes(r, sent[i].data, first, last)
  PROVE  /\ q \in ReceiverSet /\ q.inStep = r.inStep /\ q.counter = r.counter /\ Gathered(q, arrived, i, last)
         /\ first < last => Behind(q, At(i, last))
         /\ first = last => q = r
<1>0. /\ r \in ReceiverSet /\ first \in Nat /\ last \in Nat /\ first <= last /\ last <= DataSize
      /\ Gathered(r, arrived, i, first)
      /\ (first < last => Before(r, At(i, first + 1)))
      /\ (~r.inStep => \A y \in (first + 1)..last :
                      EndsAt(i, y) /\ At(i, y).number > 0 => FirstByte(At(i, y)) \notin BytesOf(arrived))
  BY DEF PartReady
<1>1. Len(sent) \in Nat /\ DataSize \in Nat \ {0} /\ i \in 1..Len(sent) /\ sent[i].data \in [1..DataSize -> ByteSet]
      /\ (\A k \in 1..DataSize : At(i, k) = sent[i].data[k] /\ At(i, k) \in ByteSet)
      /\ (\A k \in 1..(DataSize - 1) : Succeeds(At(i, k), At(i, k + 1)))
  BY SentFacts
<1>1a. DataSize \in Nat \ {0}
  BY <1>1
<1> DEFINE data == sent[i].data
<1>1b. data \in [1..DataSize -> ByteSet]
  BY <1>1
<1> HIDE DEF data
<1>2. PICK n \in Nat : n = last - first /\ \E after \in [0..n -> ReceiverSet] :
         TakesAlong(after, r, data, first, n) /\ TakeBytes(r, data, first, last) = after[n]
  BY <1>0, <1>1b, TakenBytes
<1>2a. PICK after \in [0..n -> ReceiverSet] :
         TakesAlong(after, r, data, first, n) /\ TakeBytes(r, data, first, last) = after[n]
  BY <1>2
<1>2b. n = last - first
  BY <1>2
<1>3. after[0] = r /\ q = after[n] /\ \A k \in 1..n : after[k] = TakeByte(after[k - 1], data[first + k])
  BY <1>2a DEF TakesAlong, data
<1> DEFINE Good(k) == /\ after[k].inStep = r.inStep /\ after[k].counter = r.counter
                      /\ Gathered(after[k], arrived, i, first + k)
                      /\ k > 0 => Behind(after[k], At(i, first + k))
           S == {k \in Nat : k <= n => Good(k)}
<1>4. 0 \in S
  <2>1. first + 0 = first
    BY <1>0
  <2> QED BY <1>0, <1>3, <2>1
<1>5. ASSUME NEW k \in Nat, k \in S PROVE k + 1 \in S
  <2> SUFFICES ASSUME k + 1 <= n PROVE Good(k + 1)
    OBVIOUS
  <2>1. Good(k)
    BY <1>5
  <2> HIDE DEF Good, S
  <2>2. PICK x \in Nat : x = first + k
    BY <1>0
  <2>3. /\ k \in 0..n /\ k + 1 \in 1..n /\ (k + 1) - 1 = k /\ first + (k + 1) = x + 1
        /\ x + 1 <= DataSize /\ x + 1 \in 1..DataSize /\ x + 1 \in (first + 1)..last
        /\ k > 0 => x \in 1..(DataSize - 1) /\ x \in 1..DataSize
        /\ ~(k > 0) => x = first /\ first < last
    <3>1. k \in 0..n /\ k + 1 \in 1..n /\ (k + 1) - 1 = k
      OBVIOUS
    <3>2. first + (k + 1) = x + 1 /\ x + 1 <= last /\ x + 1 <= DataSize
      BY <1>0, <1>1a, <1>2b, <2>2
    <3>3. x + 1 \in 1..DataSize /\ x + 1 \in (first + 1)..last
      BY <1>0, <1>1a, <2>2, <3>2
    <3> QED BY <1>0, <1>1a, <1>2b, <2>2, <3>1, <3>2, <3>3
  <2>4. PICK d \in ReceiverSet : d = after[k]
    BY <2>3
  <2>5. PICK c \in ByteSet : c = At(i, x + 1)
    BY <1>1, <2>3
  <2>6. d.inStep = r.inStep /\ d.counter = r.counter /\ Gathered(d, arrived, i, x) /\ (k > 0 => Behind(d, At(i, x)))
    BY <2>1, <2>2, <2>4 DEF Good
  <2>7. Before(d, c)
    <3>1. CASE k > 0
      <4>1. At(i, x) \in ByteSet /\ Succeeds(At(i, x), c) /\ Behind(d, At(i, x))
        BY <1>1, <2>3, <2>5, <2>6, <3>1
      <4> QED BY <4>1, BehindBefore
    <3>2. CASE ~(k > 0)
      <4>1. k = 0
        BY <3>2
      <4>2. d = r /\ c = At(i, first + 1) /\ first < last
        BY <1>3, <2>3, <2>4, <2>5, <3>2, <4>1
      <4> QED BY <1>0, <4>2
    <3> QED BY <3>1, <3>2
  <2>8. after[k + 1] = TakeByte(d, c)
    BY <1>1, <1>3, <2>3, <2>4, <2>5 DEF data
  <2>9. ~d.inStep => ~(EndsAt(i, x + 1) /\ c.number > 0 /\ FirstByte(c) \in BytesOf(arrived))
    BY <1>0, <2>3, <2>5, <2>6
  <2>10. Gathered(after[k + 1], arrived, i, x + 1) /\ Behind(after[k + 1], c)
    BY <2>3, <2>5, <2>6, <2>7, <2>8, <2>9, TakeByteStep
  <2>11. after[k + 1].inStep = r.inStep /\ after[k + 1].counter = r.counter
    BY <2>6, <2>8, TakeByteTypes
  <2> QED BY <2>3, <2>5, <2>10, <2>11 DEF Good
<1> HIDE DEF S
<1>6. \A k \in Nat : k \in S
  BY <1>4, <1>5, NatSetInduction
<1>7. Good(n)
  <2>1. n \in S /\ n <= n
    BY <1>6
  <2> QED BY <2>1 DEF S
<1>8. first + n = last /\ n \in 0..n /\ (first < last => n > 0) /\ (first = last => n = 0)
  BY <1>0, <1>2b
<1> QED BY <1>0, <1>3, <1>7, <1>8

-----------------------------------------------------------------------------
\* From frame to frame: the places that have passed are the same.
LEMMA GatheredSame ==
  ASSUME NEW r, NEW arrived, NEW i, NEW x, NEW h, NEW y, Gathered(r, arrived, i, x),
         \A j \in arrived : \A l \in 1..DataSize : Passed(j, l, i, x) <=> Passed(j, l, h, y),
         NEW q, q.got = r.got, q.open = r.open \/ q.open = <<>>
  PROVE  Gathered(q, arrived, h, y)
<1>1. OpenArrived(q.open, arrived)
  <2>1. OpenArrived(r.open, arrived)
    BY DEF Gathered
  <2>2. OpenArrived(<<>>, arrived)
    BY DEF OpenArrived
  <2> QED BY <2>1, <2>2
<1>2. GotWhole(r.got, arrived, h, y)
  <2> SUFFICES ASSUME NEW k \in 1..Len(r.got)
               PROVE  \E j \in arrived : \E l \in 1..DataSize :
                        /\ Passed(j, l, h, y) /\ EndsAt(j, l) /\ r.got[k] = PacketOf(At(j, l))
                        /\ \A m \in 1..Len(r.got[k]) : r.got[k][m] \in BytesOf(arrived)
    BY DEF GotWhole
  <2>1. \E j \in arrived : \E l \in 1..DataSize :
          /\ Passed(j, l, i, x) /\ EndsAt(j, l) /\ r.got[k] = PacketOf(At(j, l))
          /\ \A m \in 1..Len(r.got[k]) : r.got[k][m] \in BytesOf(arrived)
    BY DEF Gathered, GotWhole
  <2> QED BY <2>1
<1>3. GotAll(r.got, arrived, h, y)
  <2>1. GotAll(r.got, arrived, i, x)
    BY DEF Gathered
  <2> QED BY <2>1 DEF GotAll
<1>4. GotInOrder(r.got)
  BY DEF Gathered
<1> QED BY <1>1, <1>2, <1>3, <1>4 DEF Gathered

\* The receiver that follows a frame, and the one that is in step again.
LEMMA FollowedFields ==
  ASSUME NEW r \in ReceiverSet, NEW frame, frame.counter \in Nat, NEW f, f = Followed(r, frame)
  PROVE  /\ f \in ReceiverSet /\ f.open = r.open /\ f.got = r.got /\ f.counter = frame.counter
         /\ f.inStep = (r.inStep /\ frame.counter = (r.counter + 1) % CounterMod)
<1> DEFINE in == r.inStep /\ frame.counter = (r.counter + 1) % CounterMod
           a == [inStep |-> in, open |-> r.open, got |-> r.got, counter |-> r.counter]
<1>1. f = [r EXCEPT !.inStep = in, !.counter = frame.counter]
  BY DEF Followed
<1>2. in \in BOOLEAN
  BY Zenon
<1> HIDE DEF in
<1>3. [r EXCEPT !.inStep = in] = a
  BY DEF ReceiverSet
<1>4. [a EXCEPT !.counter = frame.counter] =
        [inStep |-> in, open |-> r.open, got |-> r.got, counter |-> frame.counter]
  OBVIOUS
<1> HIDE DEF a
<1>5. f = [inStep |-> in, open |-> r.open, got |-> r.got, counter |-> frame.counter]
  <2>1. [r EXCEPT !.inStep = in, !.counter = frame.counter] = [[r EXCEPT !.inStep = in] EXCEPT !.counter = frame.counter]
    OBVIOUS
  <2> QED BY <1>1, <1>3, <1>4, <2>1
<1>6. r.open \in Seq(ByteSet) /\ r.got \in Seq(Seq(ByteSet))
  BY DEF ReceiverSet
<1>7. f \in ReceiverSet
  BY <1>2, <1>5, <1>6 DEF ReceiverSet
<1> QED BY <1>5, <1>7 DEF in

\* The receiver that is in step again.
LEMMA ResynchronizedFields ==
  ASSUME NEW r \in ReceiverSet, NEW s, s = Resynchronized(r)
  PROVE  s \in ReceiverSet /\ s.open = <<>> /\ s.got = r.got /\ s.counter = r.counter /\ s.inStep
<1> DEFINE in == TRUE
           none == <<>>
           a == [inStep |-> in, open |-> r.open, got |-> r.got, counter |-> r.counter]
<1>0. s = [r EXCEPT !.inStep = in, !.open = none]
  BY DEF Resynchronized
<1> HIDE DEF in, none
<1>1. [r EXCEPT !.inStep = in] = a
  BY DEF ReceiverSet
<1>2. [a EXCEPT !.open = none] = [inStep |-> in, open |-> none, got |-> r.got, counter |-> r.counter]
  OBVIOUS
<1> HIDE DEF a
<1>3. s = [inStep |-> in, open |-> none, got |-> r.got, counter |-> r.counter]
  <2>1. [r EXCEPT !.inStep = in, !.open = none] = [[r EXCEPT !.inStep = in] EXCEPT !.open = none]
    OBVIOUS
  <2> QED BY <1>0, <1>1, <1>2, <2>1
<1>4. r.got \in Seq(Seq(ByteSet)) /\ r.counter \in Nat /\ none \in Seq(ByteSet) /\ in \in BOOLEAN
  BY DEF ReceiverSet, none, in
<1>5. s \in ReceiverSet
  BY <1>3, <1>4 DEF ReceiverSet
<1> QED BY <1>3, <1>5 DEF none, in

\* A frame: its bytes up to the pointer, and then those behind it.
LEMMA TakeFrameStep ==
  ASSUME DownInv, NEW arrived \in SUBSET (1..Len(sent)), NEW i \in arrived, NEW r \in ReceiverSet,
         Gathered(r, arrived, i, 0), NEW f, f = Followed(r, sent[i]),
         sent[i].fhp > 0 => Before(f, At(i, 1)),
         ~f.inStep => \A y \in 1..sent[i].fhp :
                        EndsAt(i, y) /\ At(i, y).number > 0 => FirstByte(At(i, y)) \notin BytesOf(arrived),
         NEW q, q = TakeFrame(r, sent[i])
  PROVE  /\ q \in ReceiverSet /\ q.counter = sent[i].counter /\ Gathered(q, arrived, i, DataSize)
         /\ Behind(q, At(i, DataSize)) /\ (sent[i].fhp < DataSize => q.inStep)
<1>1. i \in 1..Len(sent) /\ sent[i].counter \in Nat
      /\ (sent[i].fhp < DataSize => At(i, sent[i].fhp + 1).at = 0)
      /\ \A k \in 1..DataSize : At(i, k) \in ByteSet
  BY SentFacts
<1>2. DataSize \in Nat \ {0}
  BY SentFacts
<1>3. PICK p \in 0..DataSize : p = sent[i].fhp
  BY SentFacts
<1>4. f \in ReceiverSet /\ f.open = r.open /\ f.got = r.got /\ f.counter = sent[i].counter
  BY <1>1, FollowedFields
<1>5. Gathered(f, arrived, i, 0)
  BY <1>4, GatheredSame
<1> DEFINE before == TakeBytes(f, sent[i].data, 0, p)
<1>6. /\ before \in ReceiverSet /\ before.inStep = f.inStep /\ before.counter = f.counter
      /\ Gathered(before, arrived, i, p) /\ (0 < p => Behind(before, At(i, p)))
  <2>1. 0 \in Nat /\ p \in Nat /\ 0 <= p /\ p <= DataSize /\ 0 + 1 = 1
    BY <1>2
  <2>2. PartReady(f, arrived, i, 0, p)
    BY <1>3, <1>4, <1>5, <2>1 DEF PartReady
  <2> QED BY <2>2, TakenSegment
<1>7. q = IF p = DataSize THEN before ELSE TakeBytes(Resynchronized(before), sent[i].data, p, DataSize)
  BY <1>3 DEF TakeFrame, NoHeader
<1> HIDE DEF before
<1>8. CASE p = DataSize
  <2>1. q = before /\ 0 < p
    BY <1>2, <1>7, <1>8
  <2> QED BY <1>3, <1>4, <1>6, <1>8, <2>1
<1>9. CASE p # DataSize
  <2>1. p \in Nat /\ p < DataSize /\ p <= DataSize /\ DataSize <= DataSize /\ DataSize \in Nat /\ p # DataSize
        /\ p + 1 \in 1..DataSize
    BY <1>2, <1>9
  <2>2. PICK s : s = Resynchronized(before)
    OBVIOUS
  <2>3. s \in ReceiverSet /\ s.open = <<>> /\ s.got = before.got /\ s.counter = before.counter /\ s.inStep
    BY <1>6, <2>2, ResynchronizedFields
  <2>4. Gathered(s, arrived, i, p)
    BY <1>6, <2>3, GatheredSame
  <2>5. Before(s, At(i, p + 1))
    <3>1. At(i, p + 1).at = 0 /\ At(i, p + 1) \in ByteSet
      BY <1>1, <1>3, <2>1
    <3>2. Begun(At(i, p + 1), 0) = <<>>
      BY <3>1, BegunFacts
    <3> QED BY <2>3, <3>1, <3>2 DEF Before
  <2>6. q = TakeBytes(s, sent[i].data, p, DataSize)
    BY <1>7, <1>9, <2>2
  <2>7. q \in ReceiverSet /\ q.inStep = s.inStep /\ q.counter = s.counter /\ Gathered(q, arrived, i, DataSize)
        /\ Behind(q, At(i, DataSize))
    <3>1. PartReady(s, arrived, i, p, DataSize)
      BY <2>1, <2>3, <2>4, <2>5 DEF PartReady
    <3> QED BY <2>1, <2>6, <3>1, TakenSegment
  <2> QED BY <1>4, <1>6, <2>3, <2>7
<1> QED BY <1>8, <1>9

\* The frames are taken one after the other.
LEMMA TakeFrameTypes ==
  ASSUME NEW r \in ReceiverSet, NEW frame \in FrameSet
  PROVE  TakeFrame(r, frame) \in ReceiverSet
<1>1. frame.counter \in Nat /\ frame.fhp \in 0..DataSize /\ frame.data \in [1..DataSize -> ByteSet]
  BY DEF FrameSet
<1>1a. DataSize \in Nat /\ 0 \in Nat
  BY DownlinkAssumption
<1>2. PICK f \in ReceiverSet : f = Followed(r, frame)
  BY <1>1, FollowedFields
<1> DEFINE data == frame.data
<1>3. \A e \in ReceiverSet : \A first, last \in Nat :
        first <= last /\ last <= DataSize => TakeBytes(e, data, first, last) \in ReceiverSet
  <2> SUFFICES ASSUME NEW e \in ReceiverSet, NEW first \in Nat, NEW last \in Nat, first <= last, last <= DataSize
               PROVE  TakeBytes(e, data, first, last) \in ReceiverSet
    OBVIOUS
  <2>1. data \in [1..DataSize -> ByteSet]
    BY <1>1
  <2> HIDE DEF data
  <2>2. PICK n \in Nat : n = last - first /\ \E after \in [0..n -> ReceiverSet] :
           TakesAlong(after, e, data, first, n) /\ TakeBytes(e, data, first, last) = after[n]
    BY <2>1, TakenBytes
  <2>3. n \in 0..n
    OBVIOUS
  <2> QED BY <2>2, <2>3
<1>4. PICK p \in Nat : p = frame.fhp /\ p <= DataSize
  BY <1>1, <1>1a
<1> HIDE DEF data
<1>5. TakeBytes(f, data, 0, p) \in ReceiverSet
  BY <1>1a, <1>3, <1>4
<1>6. Resynchronized(TakeBytes(f, data, 0, p)) \in ReceiverSet
  BY <1>5, ResynchronizedFields
<1>7. TakeBytes(Resynchronized(TakeBytes(f, data, 0, p)), data, p, DataSize) \in ReceiverSet
  BY <1>1a, <1>3, <1>4, <1>6
<1> QED BY <1>2, <1>4, <1>5, <1>7 DEF TakeFrame, data

Arriving(r, i, arrived) == IF i \in arrived THEN TakeFrame(r, sent[i]) ELSE r

\* The recursion over the frames is the iteration of Arriving.
LEMMA TakenFrames ==
  ASSUME DownInv, NEW arrived \in SUBSET (1..Len(sent))
  PROVE  \E after \in [0..Len(sent) -> ReceiverSet] :
           /\ after[0] = NothingReceived /\ Received(arrived) = after[Len(sent)].got
           /\ \A i \in 1..Len(sent) : after[i] = Arriving(after[i - 1], i, arrived)
<1> DEFINE D == ReceiverSet
           r == NothingReceived
<1>0. PICK n \in Nat : n = Len(sent)
  BY SentFacts
<1> DEFINE Take(d, k) == Arriving(d, k, arrived)
           step == [k \in 1..n |-> [d \in D |-> Take(d, k)]]
           Body(f) == [k \in 0..n |-> IF k = 0 THEN r ELSE Take(f[k - 1], k)]
           after == CHOOSE f : f = Body(f)
<1>1. Received(arrived) = after[n].got
  BY <1>0 DEF Received, Arriving
<1>2. \A k \in 1..n : \A d \in D : Take(d, k) \in D
  <2> SUFFICES ASSUME NEW k \in 1..n, NEW d \in D PROVE Take(d, k) \in D
    OBVIOUS
  <2>1. sent[k] \in FrameSet
    BY <1>0 DEF DownInv, DownTypeOK
  <2> QED BY <2>1, TakeFrameTypes DEF Arriving
<1>2a. r \in D
  <2>1. <<>> \in Seq(ByteSet) /\ <<>> \in Seq(Seq(ByteSet)) /\ FALSE \in BOOLEAN /\ 0 \in Nat
    OBVIOUS
  <2> QED BY <2>1 DEF NothingReceived, ReceiverSet
<1> HIDE DEF after, Take, D, r
<1>3. step \in [1..n -> [D -> D]]
  BY <1>2
<1> HIDE DEF step
<1>4. PICK g \in [0..n -> D] : Iterates(g, r, step, n)
  BY <1>2a, <1>3, RecursionExists
<1> USE DEF step, Iterates
<1>5. g = Body(g)
  <2>1. ASSUME NEW k \in 0..n, k # 0 PROVE g[k] = Take(g[k - 1], k)
    <3>1. k \in 1..n /\ k - 1 \in 0..n
      BY <2>1
    <3>2. g[k - 1] \in D /\ g[k] = step[k][g[k - 1]]
      BY <3>1, <1>4
    <3> QED BY <3>1, <3>2
  <2>2. \A k \in 0..n : g[k] = IF k = 0 THEN r ELSE Take(g[k - 1], k)
    BY <2>1, <1>4
  <2> QED BY <2>2
<1> HIDE DEF step
<1>6. after = Body(after)
  <2> HIDE DEF Body
  <2> QED BY <1>5 DEF after
<1>7. after[0] = r /\ \A k \in 1..n : after[k] = Take(after[k - 1], k)
  <2>1. \A k \in 0..n : after[k] = IF k = 0 THEN r ELSE Take(after[k - 1], k)
    BY <1>6
  <2>2. 0 \in 0..n /\ \A k \in 1..n : k \in 0..n /\ k # 0
    OBVIOUS
  <2> HIDE DEF Body
  <2> QED BY <2>1, <2>2
<1>8. \A k \in 0..n : after[k] \in D
  <2> DEFINE S == {k \in Nat : k <= n => after[k] \in D}
  <2>1. 0 \in S
    BY <1>2a, <1>7
  <2>2. ASSUME NEW k \in Nat, k \in S PROVE k + 1 \in S
    <3>1. ASSUME k + 1 <= n PROVE after[k + 1] \in D
      <4>1. k <= n /\ k + 1 \in 1..n /\ (k + 1) - 1 = k
        BY <3>1
      <4>2. after[k] \in D
        BY <4>1, <2>2
      <4> QED BY <4>1, <4>2, <1>2, <1>7
    <3> QED BY <3>1
  <2> HIDE DEF S
  <2>3. \A k \in Nat : k \in S
    BY <2>1, <2>2, NatSetInduction
  <2> QED BY <2>3 DEF S
<1>9. after \in [0..n -> D]
  <2>1. after = [k \in 0..n |-> after[k]]
    BY <1>6
  <2> HIDE DEF Body
  <2> QED BY <1>8, <2>1
<1>10. \A k \in 1..n : after[k] = Arriving(after[k - 1], k, arrived)
  BY <1>7 DEF Take
<1> HIDE DEF Body
<1> QED BY <1>0, <1>1, <1>7, <1>9, <1>10 DEF D, r

\* The receiver behind the i-th frame knows the last frame that arrived.
LastFrame(r, arrived, i) ==
    \/ ~r.inStep /\ \A b \in arrived : b > i
    \/ \E a \in arrived : /\ a <= i /\ \A b \in arrived : b <= i => b <= a
                          /\ r.counter = sent[a].counter /\ Behind(r, At(a, DataSize))
                          /\ sent[a].fhp < DataSize => r.inStep

\* A frame that follows the last one in its number is the next one, as long as not too many are lost.
LEMMA FollowsNext ==
  ASSUME DownInv, NEW arrived \in Losses, NEW i \in Nat, NEW h \in arrived, h = i + 1,
         NEW a \in arrived, a <= i, \A b \in arrived : b <= i => b <= a
  PROVE  (sent[h].counter = (sent[a].counter + 1) % CounterMod) <=> a = i
<1>1. Len(sent) \in Nat /\ CounterMod \in Nat \ {0} /\ a \in 1..Len(sent) /\ h \in 1..Len(sent)
      /\ sent[h].counter = (h - 1) % CounterMod /\ sent[a].counter = (a - 1) % CounterMod
  <2>1. arrived \in SUBSET (1..Len(sent))
    BY DEF Losses
  <2> QED BY <2>1, SentFacts
<1>2. a \in Nat /\ h - 1 = i /\ a - 1 \in Nat /\ (a - 1) + 1 = a
  BY <1>1
<1>3. sent[h].counter = i % CounterMod /\ (sent[a].counter + 1) % CounterMod = a % CounterMod
  <2>1. (((a - 1) % CounterMod) + 1) % CounterMod = ((a - 1) + 1) % CounterMod
    BY <1>1, <1>2, Successor
  <2> QED BY <1>1, <1>2, <2>1
<1>4. ASSUME i % CounterMod = a % CounterMod PROVE a = i
  <2>1. h - a <= CounterMod
    <3> SUFFICES ASSUME h - a > CounterMod PROVE FALSE
      BY <1>1, <1>2
    <3>1. PICK k \in arrived : a < k /\ k < h
      BY DEF Losses
    <3>2. k \in 1..Len(sent)
      BY DEF Losses
    <3>3. k <= i
      BY <1>1, <3>1, <3>2
    <3>4. k <= a
      BY <3>3
    <3> QED BY <1>1, <1>2, <3>1, <3>2, <3>4
  <2>2. i - a < CounterMod /\ a - i < CounterMod
    BY <1>1, <1>2, <2>1
  <2> QED BY <1>1, <1>2, <1>4, <2>2, SameNumber
<1> QED BY <1>3, <1>4

\* One frame more.
LEMMA NextFrame ==
  ASSUME DownInv, NEW arrived \in Losses, NEW i \in Nat, NEW h \in 1..Len(sent), h = i + 1,
         NEW r \in ReceiverSet, Gathered(r, arrived, i, DataSize), LastFrame(r, arrived, i),
         NEW q, q = Arriving(r, h, arrived)
  PROVE  q \in ReceiverSet /\ Gathered(q, arrived, h, DataSize) /\ LastFrame(q, arrived, h)
<1>0. arrived \in SUBSET (1..Len(sent))
  BY DEF Losses
<1>1. DataSize \in Nat \ {0} /\ Len(sent) \in Nat /\ \A b \in arrived : b \in Nat \ {0}
  <2>1. DataSize \in Nat \ {0} /\ Len(sent) \in Nat
    BY SentFacts
  <2> QED BY <1>0, <2>1
<1>2. h \in Nat /\ h - 1 = i /\ i <= h /\ i < h /\ i # h
  OBVIOUS
<1>3. CASE h \notin arrived
  <2>1. q = r
    BY <1>3 DEF Arriving
  <2>2. \A b \in arrived : b <= h <=> b <= i
    BY <1>1, <1>2, <1>3
  <2>3. \A j \in arrived : \A l \in 1..DataSize : Passed(j, l, i, DataSize) <=> Passed(j, l, h, DataSize)
    BY <1>1, <1>2, <1>3 DEF Passed
  <2>4. Gathered(q, arrived, h, DataSize)
    BY <2>1, <2>3, GatheredSame
  <2>5. \A b \in arrived : b > i <=> b > h
    BY <1>1, <1>2, <1>3
  <2>6. LastFrame(q, arrived, h)
    BY <2>1, <2>2, <2>5 DEF LastFrame
  <2> QED BY <2>1, <2>4, <2>6
<1>4. CASE h \in arrived
  <2>1. q = TakeFrame(r, sent[h])
    BY <1>4 DEF Arriving
  <2>2. Gathered(r, arrived, h, 0)
    <3>1. \A j \in arrived : \A l \in 1..DataSize : Passed(j, l, i, DataSize) <=> Passed(j, l, h, 0)
      BY <1>1, <1>2 DEF Passed
    <3> QED BY <3>1, GatheredSame
  <2>3. PICK f \in ReceiverSet : /\ f = Followed(r, sent[h]) /\ f.open = r.open
                                 /\ f.inStep = (r.inStep /\ sent[h].counter = (r.counter + 1) % CounterMod)
    <3>1. sent[h].counter \in Nat
      BY SentFacts
    <3> QED BY <3>1, FollowedFields
  <2>4. f.inStep => \E a \in arrived : a = i /\ Behind(f, At(a, DataSize))
    <3> SUFFICES ASSUME f.inStep PROVE \E a \in arrived : a = i /\ Behind(f, At(a, DataSize))
      OBVIOUS
    <3>1. r.inStep /\ sent[h].counter = (r.counter + 1) % CounterMod
      BY <2>3
    <3>2. PICK a \in arrived : /\ a <= i /\ \A b \in arrived : b <= i => b <= a
                               /\ r.counter = sent[a].counter /\ Behind(r, At(a, DataSize))
      BY <3>1 DEF LastFrame
    <3>3. a = i
      BY <1>4, <3>1, <3>2, FollowsNext
    <3>4. Behind(f, At(a, DataSize))
      BY <2>3, <3>1, <3>2 DEF Behind
    <3> QED BY <3>3, <3>4
  <2>5. sent[h].fhp > 0 => Before(f, At(h, 1))
    <3> SUFFICES ASSUME sent[h].fhp > 0, f.inStep PROVE Before(f, At(h, 1))
      BY DEF Before
    <3>1. PICK a \in arrived : a = i /\ Behind(f, At(a, DataSize))
      BY <2>4
    <3>2. a \in 1..Len(sent) /\ h = a + 1
      BY <1>0, <3>1
    <3>3. 1 \in 1..sent[h].fhp /\ 1 \in 1..DataSize /\ DataSize \in 1..DataSize
      <4>1. PICK p \in 0..DataSize : p = sent[h].fhp
        BY SentFacts
      <4> QED BY <1>1, <4>1
    <3>4. At(h, 1).at # 0 /\ At(h, 1) \in ByteSet /\ At(a, DataSize) \in ByteSet
      BY <3>2, <3>3, SentFacts
    <3>5. Succeeds(At(a, DataSize), At(h, 1))
      BY <3>2, <3>4, SentFacts
    <3> QED BY <3>1, <3>4, <3>5, BehindBefore
  <2>6. ~f.inStep => \A y \in 1..sent[h].fhp :
                        EndsAt(h, y) /\ At(h, y).number > 0 => FirstByte(At(h, y)) \notin BytesOf(arrived)
    <3> SUFFICES ASSUME ~f.inStep, NEW y \in 1..sent[h].fhp, EndsAt(h, y), At(h, y).number > 0,
                        FirstByte(At(h, y)) \in BytesOf(arrived)
                 PROVE  FALSE
      OBVIOUS
    <3>1. PICK j \in arrived, l \in 1..DataSize : sent[j].data[l] = FirstByte(At(h, y))
      BY DEF BytesOf
    <3>2. j \in 1..Len(sent) /\ At(j, l) = FirstByte(At(h, y))
      BY <1>0, <3>1, SentFacts
    <3>3. h > 1 /\ j = h - 1 /\ sent[j].fhp < DataSize
      BY <3>2, Carried
    <3>4. j = i /\ ~(\A b \in arrived : b > i)
      BY <1>2, <3>3
    <3>5. PICK a \in arrived : /\ a <= i /\ (\A b \in arrived : b <= i => b <= a)
                               /\ r.counter = sent[a].counter /\ (sent[a].fhp < DataSize => r.inStep)
      BY <3>4 DEF LastFrame
    <3>6. a = i
      <4>1. i <= a /\ a \in Nat
        BY <1>1, <3>4, <3>5
      <4> QED BY <3>5, <4>1
    <3>7. r.inStep
      BY <3>3, <3>4, <3>5, <3>6
    <3>8. sent[h].counter = (sent[a].counter + 1) % CounterMod
      BY <1>4, <3>5, <3>6, FollowsNext
    <3> QED BY <2>3, <3>5, <3>7, <3>8
  <2>7. /\ q \in ReceiverSet /\ q.counter = sent[h].counter /\ Gathered(q, arrived, h, DataSize)
        /\ Behind(q, At(h, DataSize)) /\ (sent[h].fhp < DataSize => q.inStep)
    BY <1>0, <1>4, <2>1, <2>2, <2>3, <2>5, <2>6, TakeFrameStep
  <2>8. LastFrame(q, arrived, h)
    <3>1. h <= h /\ \A b \in arrived : b <= h => b <= h
      BY <1>1, <1>2
    <3> QED BY <1>4, <2>7, <3>1 DEF LastFrame
  <2> QED BY <2>7, <2>8
<1> QED BY <1>3, <1>4

\* Behind the last frame.
LEMMA AllGathered ==
  ASSUME DownInv, NEW arrived \in Losses
  PROVE  \E r \in ReceiverSet : Received(arrived) = r.got /\ Gathered(r, arrived, Len(sent), DataSize)
<1>0. arrived \in SUBSET (1..Len(sent))
  BY DEF Losses
<1>1. PICK n \in Nat : n = Len(sent)
  BY SentFacts
<1>2. PICK after \in [0..n -> ReceiverSet] :
         /\ after[0] = NothingReceived /\ Received(arrived) = after[n].got
         /\ \A i \in 1..n : after[i] = Arriving(after[i - 1], i, arrived)
  BY <1>0, <1>1, TakenFrames
<1>3. DataSize \in Nat \ {0}
  BY SentFacts
<1> DEFINE Good(i) == Gathered(after[i], arrived, i, DataSize) /\ LastFrame(after[i], arrived, i)
           S == {i \in Nat : i <= n => Good(i)}
<1>4. 0 \in S
  <2>1. after[0].inStep = FALSE /\ after[0].open = <<>> /\ after[0].got = <<>>
    BY <1>2 DEF NothingReceived
  <2>2. \A b \in arrived : b > 0 /\ b \in Nat
    BY <1>0
  <2>3. LastFrame(after[0], arrived, 0)
    BY <2>1, <2>2 DEF LastFrame
  <2>4. \A j \in arrived : \A l \in 1..DataSize : ~Passed(j, l, 0, DataSize)
    BY <1>3, <2>2 DEF Passed
  <2>5. Gathered(after[0], arrived, 0, DataSize)
    <3>1. OpenArrived(<<>>, arrived) /\ GotWhole(<<>>, arrived, 0, DataSize) /\ GotInOrder(<<>>)
      BY DEF OpenArrived, GotWhole, GotInOrder
    <3>2. GotAll(<<>>, arrived, 0, DataSize)
      BY <2>4 DEF GotAll
    <3> QED BY <2>1, <3>1, <3>2 DEF Gathered
  <2> QED BY <2>3, <2>5
<1>5. ASSUME NEW i \in Nat, i \in S PROVE i + 1 \in S
  <2> SUFFICES ASSUME i + 1 <= n PROVE Good(i + 1)
    OBVIOUS
  <2>1. Good(i)
    BY <1>5
  <2> HIDE DEF S
  <2>2. PICK h \in 1..n : h = i + 1 /\ h - 1 = i /\ i \in 0..n
    OBVIOUS
  <2>3. after[h] = Arriving(after[i], h, arrived) /\ after[i] \in ReceiverSet
    BY <1>2, <2>2
  <2>4. Gathered(after[h], arrived, h, DataSize) /\ LastFrame(after[h], arrived, h)
    BY <1>1, <2>1, <2>2, <2>3, NextFrame
  <2> QED BY <2>2, <2>4
<1> HIDE DEF S
<1>6. \A i \in Nat : i \in S
  BY <1>4, <1>5, NatSetInduction
<1>7. Good(n) /\ after[n] \in ReceiverSet
  <2>1. n \in S /\ n <= n /\ n \in 0..n
    BY <1>6
  <2> QED BY <1>2, <2>1 DEF S
<1> QED BY <1>1, <1>2, <1>7

-----------------------------------------------------------------------------
\* What was got, packet by packet.
WholePacket(p, c, arrived) ==
    /\ p = PacketOf(c) /\ p[1] = FirstByte(c) /\ FirstByte(c) = [number |-> c.number, at |-> 0, len |-> c.len]
    /\ \A m \in 1..c.len : p[m] = [c EXCEPT !.at = m - 1] /\ p[m] \in BytesOf(arrived)

\* What was got is packets.
LEMMA GotPackets ==
  ASSUME DownInv, NEW arrived \in SUBSET (1..Len(sent)), NEW i, NEW x, NEW got,
         GotWhole(got, arrived, i, x), NEW k \in 1..Len(got)
  PROVE  \E c \in ByteSet : WholePacket(got[k], c, arrived)
<1>1. PICK j \in arrived : \E l \in 1..DataSize :
        /\ EndsAt(j, l) /\ got[k] = PacketOf(At(j, l))
        /\ \A m \in 1..Len(got[k]) : got[k][m] \in BytesOf(arrived)
  BY DEF GotWhole
<1>2. PICK l \in 1..DataSize :
        got[k] = PacketOf(At(j, l)) /\ \A m \in 1..Len(got[k]) : got[k][m] \in BytesOf(arrived)
  BY <1>1
<1>3. PICK c \in ByteSet : c = At(j, l)
  <2>1. j \in 1..Len(sent)
    OBVIOUS
  <2> QED BY <2>1, SentFacts
<1>4. c.len \in Nat /\ c.len \in 0..c.len /\ 1 \in 1..c.len /\ 1 - 1 = 0
  BY ByteFacts
<1>5. (\A v \in 0..c.len : Len(Begun(c, v)) = v)
      /\ \A v \in 0..c.len : \A m \in 1..v : Begun(c, v)[m] = [c EXCEPT !.at = m - 1]
  BY BegunFacts
<1>6. got[k] = Begun(c, c.len)
  BY <1>2, <1>3 DEF PacketOf
<1>7. Len(got[k]) = c.len /\ \A m \in 1..c.len : got[k][m] = [c EXCEPT !.at = m - 1]
  BY <1>4, <1>5, <1>6
<1>8. got[k][1] = FirstByte(c)
  BY <1>4, <1>7 DEF FirstByte
<1>9. FirstByte(c) = [number |-> c.number, at |-> 0, len |-> c.len]
  BY ByteFacts DEF FirstByte
<1>10. \A m \in 1..c.len : got[k][m] \in BytesOf(arrived)
  BY <1>2, <1>7
<1> QED BY <1>2, <1>3, <1>7, <1>8, <1>9, <1>10 DEF WholePacket

\* The receiver gets the packets that lie in the frames that arrive, and these only.
LEMMA GetsTheComplete ==
  ASSUME DownInv, NEW arrived \in Losses, NEW got, got = Received(arrived)
  PROVE  {got[k][1] : k \in {m \in DOMAIN got : got[m][1].number > 0}} = Complete(arrived)
<1>0. arrived \in SUBSET (1..Len(sent))
  BY DEF Losses
<1>1. PICK r \in ReceiverSet : got = r.got /\ Gathered(r, arrived, Len(sent), DataSize)
  BY AllGathered
<1>2. got \in Seq(Seq(ByteSet)) /\ DOMAIN got = 1..Len(got)
      /\ GotWhole(got, arrived, Len(sent), DataSize) /\ GotAll(got, arrived, Len(sent), DataSize)
  <2>1. got \in Seq(Seq(ByteSet))
    BY <1>1 DEF ReceiverSet
  <2> DEFINE T == Seq(ByteSet)
  <2>2. got \in Seq(T)
    BY <2>1
  <2> HIDE DEF T
  <2>3. DOMAIN got = 1..Len(got)
    BY <2>2
  <2> QED BY <1>1, <2>1, <2>3 DEF Gathered
<1>3. ASSUME NEW k \in DOMAIN got, got[k][1].number > 0 PROVE got[k][1] \in Complete(arrived)
  <2>0. k \in 1..Len(got) /\ GotWhole(got, arrived, Len(sent), DataSize)
    BY <1>2
  <2>0a. PICK c \in ByteSet : WholePacket(got[k], c, arrived)
    BY <1>0, <2>0, GotPackets
  <2>1. /\ got[k][1] = FirstByte(c) /\ FirstByte(c) = [number |-> c.number, at |-> 0, len |-> c.len]
        /\ \A m \in 1..c.len : got[k][m] = [c EXCEPT !.at = m - 1] /\ got[k][m] \in BytesOf(arrived)
    BY <2>0a DEF WholePacket
  <2>2. c.len \in Nat /\ 1 \in 1..c.len /\ \A v : [c EXCEPT !.at = v] = [number |-> c.number, at |-> v, len |-> c.len]
    BY ByteFacts
  <2>3. PICK b : b = FirstByte(c)
    OBVIOUS
  <2>4. b.number = c.number /\ b.at = 0 /\ b.len = c.len /\ b.number > 0 /\ b \in BytesOf(arrived)
    <3>1. b = got[k][1] /\ got[k][1] \in BytesOf(arrived)
      BY <2>1, <2>2, <2>3
    <3>2. b = [number |-> c.number, at |-> 0, len |-> c.len]
      BY <2>1, <2>3
    <3>3. b.number = c.number /\ b.at = 0 /\ b.len = c.len
      BY <3>2
    <3> QED BY <1>3, <3>1, <3>3
  <2>5. \A v : [b EXCEPT !.at = v] = [c EXCEPT !.at = v]
    BY <2>1, <2>2, <2>3
  <2>6. ASSUME NEW at \in 0..(b.len - 1) PROVE [b EXCEPT !.at = at] \in BytesOf(arrived)
    <3>1. PICK m \in 1..c.len : m = at + 1 /\ m - 1 = at
      BY <2>2, <2>4
    <3> QED BY <2>1, <2>5, <3>1
  <2> QED BY <2>1, <2>3, <2>4, <2>6 DEF Complete
<1>4. ASSUME NEW b \in Complete(arrived) PROVE \E k \in DOMAIN got : got[k][1] = b /\ b.number > 0
  <2>1. b \in BytesOf(arrived) /\ b.number > 0 /\ b.at = 0
        /\ \A at \in 0..(b.len - 1) : [b EXCEPT !.at = at] \in BytesOf(arrived)
    BY DEF Complete
  <2>2. b \in ByteSet
    <3>1. PICK j \in arrived, l \in 1..DataSize : b = sent[j].data[l]
      BY <2>1 DEF BytesOf
    <3> QED BY <1>0, <3>1, SentFacts
  <2>3. PICK len \in Nat : len = b.len /\ len > 0
    BY <2>2, ByteFacts
  <2>4. len - 1 \in 0..(b.len - 1) /\ (len - 1) + 1 = len
    BY <2>3
  <2>5. PICK e : e = [b EXCEPT !.at = len - 1]
    OBVIOUS
  <2>6. e \in BytesOf(arrived)
    BY <2>1, <2>4, <2>5
  <2>7. PICK j \in arrived, l \in 1..DataSize : e = sent[j].data[l]
    BY <2>6 DEF BytesOf
  <2>8. e = At(j, l) /\ e \in ByteSet
    BY <1>0, <2>7, SentFacts
  <2>9. e = [number |-> b.number, at |-> len - 1, len |-> b.len]
    BY <2>2, <2>5, ByteFacts
  <2>10. e.number = b.number /\ e.at = len - 1 /\ e.len = b.len
    BY <2>9
  <2>11. FirstByte(e) = b
    <3>1. FirstByte(e) = [number |-> e.number, at |-> 0, len |-> e.len]
      BY <2>8, ByteFacts DEF FirstByte
    <3>2. b = [number |-> b.number, at |-> b.at, len |-> b.len]
      BY <2>2, ByteFacts
    <3> QED BY <2>1, <2>10, <3>1, <3>2
  <2>12. EndsAt(j, l)
    BY <2>3, <2>4, <2>8, <2>10 DEF EndsAt
  <2>13. Passed(j, l, Len(sent), DataSize)
    <3>1. Len(sent) \in Nat /\ DataSize \in Nat
      BY SentFacts
    <3> QED BY <1>0, <3>1 DEF Passed
  <2>14. \E k \in 1..Len(got) : got[k][1] = FirstByte(At(j, l))
    BY <1>2, <2>1, <2>8, <2>10, <2>11, <2>12, <2>13 DEF GotAll
  <2> QED BY <1>2, <2>1, <2>8, <2>11, <2>14
<1> QED BY <1>3, <1>4

\* Each packet is whole.
LEMMA GetsWhole ==
  ASSUME DownInv, NEW arrived \in Losses, NEW got, got = Received(arrived), NEW k \in DOMAIN got
  PROVE  got[k] = [at \in 1..got[k][1].len |-> [got[k][1] EXCEPT !.at = at - 1]]
<1>0. arrived \in SUBSET (1..Len(sent))
  BY DEF Losses
<1>1. PICK r \in ReceiverSet : got = r.got /\ Gathered(r, arrived, Len(sent), DataSize)
  BY AllGathered
<1>2. got \in Seq(Seq(ByteSet)) /\ k \in 1..Len(got) /\ GotWhole(got, arrived, Len(sent), DataSize)
  <2>1. got \in Seq(Seq(ByteSet))
    BY <1>1 DEF ReceiverSet
  <2> DEFINE T == Seq(ByteSet)
  <2>2. got \in Seq(T)
    BY <2>1
  <2> HIDE DEF T
  <2>3. DOMAIN got = 1..Len(got)
    BY <2>2
  <2> QED BY <1>1, <2>1, <2>3 DEF Gathered
<1>2a. k \in 1..Len(got) /\ GotWhole(got, arrived, Len(sent), DataSize)
  BY <1>2
<1>2b. PICK c \in ByteSet : WholePacket(got[k], c, arrived)
  BY <1>0, <1>2a, GotPackets
<1>3. got[k] = PacketOf(c) /\ got[k][1] = FirstByte(c) /\ FirstByte(c) = [number |-> c.number, at |-> 0, len |-> c.len]
  BY <1>2b DEF WholePacket
<1>4. PICK b : b = got[k][1]
  OBVIOUS
<1>5. b.len = c.len /\ \A v : [b EXCEPT !.at = v] = [c EXCEPT !.at = v]
  <2>1. \A v : [c EXCEPT !.at = v] = [number |-> c.number, at |-> v, len |-> c.len]
    BY ByteFacts
  <2> QED BY <1>3, <1>4, <2>1
<1>6. got[k] = [at \in 1..c.len |-> [c EXCEPT !.at = at - 1]]
  BY <1>3 DEF PacketOf, Begun
<1> QED BY <1>4, <1>5, <1>6

\* The packets are got in their order.
LEMMA GetsInOrder ==
  ASSUME DownInv, NEW arrived \in Losses, NEW got, got = Received(arrived),
         NEW j \in DOMAIN got, NEW k \in DOMAIN got, j < k, got[j][1].number > 0, got[k][1].number > 0
  PROVE  got[j][1].number < got[k][1].number
<1>1. PICK r \in ReceiverSet : got = r.got /\ Gathered(r, arrived, Len(sent), DataSize)
  BY AllGathered
<1>2. got \in Seq(Seq(ByteSet))
  BY <1>1 DEF ReceiverSet
<1> DEFINE T == Seq(ByteSet)
<1>3. got \in Seq(T)
  BY <1>2
<1> HIDE DEF T
<1>4. DOMAIN got = 1..Len(got)
  BY <1>3
<1> QED BY <1>1, <1>4 DEF Gathered, GotInOrder

\* When everything was sent, every packet that was made is in the frames.
LEMMA NothingIsLost ==
  ASSUME DownInv, ~disturbed, Drained
  PROVE  {b.number : b \in Complete(1..Len(sent))} = 1..made
<1>1. Len(sent) \in Nat /\ DataSize \in Nat \ {0} /\ made \in Nat
      /\ \A i \in 1..Len(sent) : \A k \in 1..DataSize : At(i, k) = sent[i].data[k] /\ At(i, k) \in ByteSet
  <2>1. made \in Nat
    BY DownlinkAssumption DEF DownInv, DownTypeOK
  <2> QED BY <2>1, SentFacts
<1>2. Q = <<>> /\ t2m.wp = 0
  BY HeadOfQueue DEF Drained, IsEmpty, DownInv
<1>3. ASSUME NEW b \in Complete(1..Len(sent)) PROVE b.number \in 1..made
  <2>1. b.number > 0 /\ b \in BytesOf(1..Len(sent))
    BY DEF Complete
  <2>2. PICK i \in 1..Len(sent), k \in 1..DataSize : b = At(i, k)
    BY <1>1, <2>1 DEF BytesOf
  <2>3. i \in 1..(Len(sent) + 1) /\ k \in 1..Filled(i)
    BY <1>1 DEF Filled
  <2>4. b.number <= made
    BY <2>2, <2>3 DEF DownInv, Queued
  <2>5. b.number \in Nat
    BY <1>1, <2>2, ByteFacts
  <2> QED BY <1>1, <2>1, <2>4, <2>5
<1>4. ASSUME NEW n \in 1..made PROVE \E b \in Complete(1..Len(sent)) : b.number = n
  <2>1. PICK len \in 1..DataSize : \A at \in 0..(len - 1) : Stands([number |-> n, at |-> at, len |-> len])
    <3>1. ~\E m \in 1..Len(Q) : Q[m].number = n
      BY <1>2
    <3> QED BY <3>1 DEF DownInv, Kept
  <2>2. \A e : Stands(e) => e \in BytesOf(1..Len(sent))
    <3> SUFFICES ASSUME NEW e, Stands(e) PROVE e \in BytesOf(1..Len(sent))
      OBVIOUS
    <3>1. PICK i \in 1..(Len(sent) + 1) : \E k \in 1..Filled(i) : At(i, k) = e
      BY DEF Stands
    <3>2. PICK k \in 1..Filled(i) : At(i, k) = e
      BY <3>1
    <3>3. i # Len(sent) + 1
      <4> SUFFICES ASSUME i = Len(sent) + 1 PROVE FALSE
        OBVIOUS
      <4>1. Filled(i) = 0
        BY <1>2 DEF Filled
      <4> QED BY <3>2, <4>1
    <3>4. i \in 1..Len(sent) /\ k \in 1..DataSize
      BY <1>1, <3>2, <3>3 DEF Filled
    <3> QED BY <1>1, <3>2, <3>4 DEF BytesOf
  <2>3. PICK b : b = [number |-> n, at |-> 0, len |-> len]
    OBVIOUS
  <2>4. b.number = n /\ b.at = 0 /\ b.len = len /\ b.number > 0
    BY <2>3
  <2>5. \A v : [b EXCEPT !.at = v] = [number |-> n, at |-> v, len |-> len]
    BY <2>3
  <2>6. 0 \in 0..(len - 1)
    BY <1>1
  <2>7. b \in BytesOf(1..Len(sent))
    BY <2>1, <2>2, <2>3, <2>6
  <2>8. \A at \in 0..(b.len - 1) : [b EXCEPT !.at = at] \in BytesOf(1..Len(sent))
    BY <2>1, <2>2, <2>4, <2>5
  <2> QED BY <2>4, <2>7, <2>8 DEF Complete
<1> QED BY <1>3, <1>4

\* FramesCarryThePackets holds in every state the invariant holds in.
THEOREM FramesCarry == DownlinkSpec => []FramesCarryThePackets
<1>1. DownInv => FramesCarryThePackets
  <2> SUFFICES ASSUME DownInv PROVE FramesCarryThePackets
    OBVIOUS
  <2>1. ASSUME NEW arrived \in Losses, NEW got, got = Received(arrived), NEW telemetry,
               telemetry = {k \in DOMAIN got : got[k][1].number > 0}
        PROVE  /\ {got[k][1] : k \in telemetry} = Complete(arrived)
               /\ \A k \in DOMAIN got : got[k] = [at \in 1..got[k][1].len |-> [got[k][1] EXCEPT !.at = at - 1]]
               /\ \A j, k \in telemetry : j < k => got[j][1].number < got[k][1].number
    <3>1. {got[k][1] : k \in telemetry} = Complete(arrived)
      BY <2>1, GetsTheComplete
    <3>2. \A k \in DOMAIN got : got[k] = [at \in 1..got[k][1].len |-> [got[k][1] EXCEPT !.at = at - 1]]
      BY <2>1, GetsWhole
    <3>3. \A j, k \in telemetry : j < k => got[j][1].number < got[k][1].number
      BY <2>1, GetsInOrder
    <3> QED BY <3>1, <3>2, <3>3
  <2>2. ~disturbed /\ Drained => {b.number : b \in Complete(1..Len(sent))} = 1..made
    BY NothingIsLost
  <2> QED BY <2>1, <2>2 DEF FramesCarryThePackets
<1> QED BY <1>1, DownlinkInvariance, PTL
=============================================================================
