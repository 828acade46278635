-------------------------- MODULE LinkedListProofs --------------------------
(***************************************************************************)
(* What the list routines of proc.c do, proved for every store: on a list  *)
(* whose links spell a sequence s, enqueue_tail appends to s, enqueue_head *)
(* puts in front of s and dequeue takes the head of s off; and a list that *)
(* shares no element with the ones touched is left alone.                  *)
(***************************************************************************)
EXTENDS LinkedList, FiniteSetTheorems, WellFoundedInduction, TLAPS

\* The elements of s are different.
Distinct(s) == \A i, j \in 1 .. Len(s) : i # j => s[i] # s[j]
Absent(p, s) == \A i \in 1 .. Len(s) : s[i] # p

\* Adding p at the tail of a list that does not hold it appends it.
THEOREM EnqueueTailAppends ==
    ASSUME NEW Node, NEW List, NULL \notin Node,
           NEW L \in Stores(Node, List), NEW q \in List, NEW p \in Node,
           NEW s \in Seq(Node), Spells(L, q, s), Absent(p, s)
    PROVE  Spells(enqueue_tail(L, q, p), q, Append(s, p))
<1> DEFINE M == enqueue_tail(L, q, p)
           t == Append(s, p)
           n == Len(s)
<1>1. /\ n \in Nat /\ t \in Seq(Node) /\ Len(t) = n + 1 /\ t[n + 1] = p
      /\ \A i \in 1 .. n : t[i] = s[i] /\ s[i] \in Node
  OBVIOUS
<1>2. t # <<>>
  BY <1>1
<1>3. CASE s = <<>>
  <2>1. n = 0 /\ L.head[q] = NULL
    BY <1>3 DEF Spells
  <2>2. M.head[q] = p /\ M.tail[q] = p /\ M.next[p] = NULL
    BY <2>1 DEF enqueue_tail, Stores
  <2> QED
    BY <1>1, <1>2, <2>1, <2>2 DEF Spells
<1>4. CASE s # <<>>
  <2>1. n > 0
    BY <1>4
  <2>2. /\ L.head[q] = s[1] /\ L.tail[q] = s[n] /\ L.next[s[n]] = NULL
        /\ \A i \in 1 .. n - 1 : L.next[s[i]] = s[i + 1]
    BY <1>4 DEF Spells
  <2>3. L.head[q] # NULL
    BY <1>1, <2>1, <2>2
  <2>4. M = [L EXCEPT !.tail = [@ EXCEPT ![q] = p],
                      !.next = [@ EXCEPT ![s[n]] = p, ![p] = NULL]]
    BY <2>2, <2>3 DEF enqueue_tail
  <2>5. M.head[q] = s[1] /\ M.tail[q] = p
    BY <2>2, <2>4 DEF Stores
  <2>6. M.next[p] = NULL /\ M.next[s[n]] = p
    BY <1>1, <2>1, <2>4 DEF Stores, Absent
  <2>7. ASSUME NEW i \in 1 .. n - 1 PROVE M.next[s[i]] = s[i + 1]
    <3>1. s[i] # p /\ s[i] \in Node /\ s[i + 1] \in Node
      BY <1>1, <2>1 DEF Absent
    <3>2. s[i] # s[n]
      BY <2>2, <3>1
    <3> QED
      BY <2>2, <2>4, <3>1, <3>2 DEF Stores
  <2>8. ASSUME NEW i \in 1 .. Len(t) - 1 PROVE M.next[t[i]] = t[i + 1]
    <3>1. CASE i = n
      BY <1>1, <2>1, <2>6, <3>1
    <3>2. CASE i # n
      BY <1>1, <2>7, <3>2
    <3> QED
      BY <3>1, <3>2
  <2> QED
    BY <1>1, <1>2, <2>1, <2>5, <2>6, <2>8 DEF Spells
<1> QED
  BY <1>3, <1>4

\* Adding p at the head of a list that does not hold it puts it in front.
THEOREM EnqueueHeadPrepends ==
    ASSUME NEW Node, NEW List, NULL \notin Node,
           NEW L \in Stores(Node, List), NEW q \in List, NEW p \in Node,
           NEW s \in Seq(Node), Spells(L, q, s), Absent(p, s)
    PROVE  Spells(enqueue_head(L, q, p), q, <<p>> \o s)
<1> DEFINE M == enqueue_head(L, q, p)
           t == <<p>> \o s
           n == Len(s)
<1>1. /\ n \in Nat /\ t \in Seq(Node) /\ Len(t) = n + 1 /\ t[1] = p
      /\ \A i \in 1 .. n : t[i + 1] = s[i] /\ s[i] \in Node
  OBVIOUS
<1>2. t # <<>>
  BY <1>1
<1>3. CASE s = <<>>
  <2>1. n = 0 /\ L.head[q] = NULL
    BY <1>3 DEF Spells
  <2>2. M.head[q] = p /\ M.tail[q] = p /\ M.next[p] = NULL
    BY <2>1 DEF enqueue_head, Stores
  <2> QED
    BY <1>1, <1>2, <2>1, <2>2 DEF Spells
<1>4. CASE s # <<>>
  <2>1. n > 0
    BY <1>4
  <2>2. /\ L.head[q] = s[1] /\ L.tail[q] = s[n] /\ L.next[s[n]] = NULL
        /\ \A i \in 1 .. n - 1 : L.next[s[i]] = s[i + 1]
    BY <1>4 DEF Spells
  <2>3. M = [L EXCEPT !.head = [@ EXCEPT ![q] = p],
                      !.next = [@ EXCEPT ![p] = s[1]]]
    BY <1>1, <2>1, <2>2 DEF enqueue_head
  <2>4. M.head[q] = p /\ M.tail[q] = s[n] /\ M.next[p] = s[1]
    BY <2>2, <2>3 DEF Stores
  <2>5. \A i \in 1 .. n : M.next[s[i]] = L.next[s[i]]
    BY <1>1, <2>3 DEF Stores, Absent
  <2>6. ASSUME NEW i \in 1 .. Len(t) - 1 PROVE M.next[t[i]] = t[i + 1]
    <3>1. CASE i = 1
      BY <1>1, <2>1, <2>4, <3>1
    <3>2. CASE i # 1
      <4>1. i - 1 \in 1 .. n - 1 /\ (i - 1) + 1 = i /\ i \in 1 .. n
        BY <1>1, <3>2
      <4>2. t[i] = s[i - 1] /\ t[i + 1] = s[i]
        BY <1>1, <4>1
      <4>3. L.next[s[i - 1]] = s[i]
        BY <2>2, <4>1
      <4> QED
        BY <1>1, <2>5, <4>1, <4>2, <4>3
    <3> QED
      BY <3>1, <3>2
  <2>7. t[Len(t)] = s[n] /\ M.next[s[n]] = NULL
    BY <1>1, <2>1, <2>2, <2>5
  <2> QED
    BY <1>1, <1>2, <2>1, <2>4, <2>6, <2>7 DEF Spells
<1> QED
  BY <1>3, <1>4

\* Taking the head off a list that is not empty leaves the rest of it, and the
\* element that comes off points nowhere.
THEOREM DequeueTakesHead ==
    ASSUME NEW Node, NEW List, NULL \notin Node,
           NEW L \in Stores(Node, List), NEW q \in List,
           NEW s \in Seq(Node), s # <<>>, Spells(L, q, s), Distinct(s)
    PROVE  /\ L.head[q] = s[1]
           /\ Spells(dequeue(L, q), q, Tail(s))
           /\ dequeue(L, q).next[s[1]] = NULL
<1> DEFINE M == dequeue(L, q)
           t == Tail(s)
           n == Len(s)
<1>1. /\ n \in Nat /\ n > 0 /\ t \in Seq(Node) /\ Len(t) = n - 1
      /\ \A i \in 1 .. n : s[i] \in Node
      /\ \A i \in 1 .. n - 1 : t[i] = s[i + 1]
  OBVIOUS
<1>2. /\ L.head[q] = s[1] /\ L.tail[q] = s[n] /\ L.next[s[n]] = NULL
      /\ \A i \in 1 .. n - 1 : L.next[s[i]] = s[i + 1]
  BY DEF Spells
<1>3. s[1] # NULL /\ s[1] \in Node
  BY <1>1
<1>4. CASE n = 1
  <2>1. M = [L EXCEPT !.head = [@ EXCEPT ![q] = NULL],
                      !.tail = [@ EXCEPT ![q] = NULL],
                      !.next = [@ EXCEPT ![s[1]] = NULL]]
    BY <1>2, <1>3, <1>4 DEF dequeue
  <2>2. M.head[q] = NULL /\ M.tail[q] = NULL /\ M.next[s[1]] = NULL
    BY <1>3, <2>1 DEF Stores
  <2>3. t = <<>>
    <3>1. \A u \in Seq(Node) : Len(u) = 0 => u = <<>>
      OBVIOUS
    <3>2. t \in Seq(Node) /\ Len(t) = 0
      BY <1>1, <1>4
    <3> HIDE DEF t
    <3> QED
      BY <3>1, <3>2
  <2> QED
    BY <1>2, <2>2, <2>3 DEF Spells
<1>5. CASE n # 1
  <2>1. s[1] # s[n] /\ 1 \in 1 .. n - 1
    BY <1>1, <1>5 DEF Distinct
  <2>2. L.next[s[1]] = s[2]
    BY <1>2, <2>1
  <2>3. M = [L EXCEPT !.head = [@ EXCEPT ![q] = s[2]],
                      !.next = [@ EXCEPT ![s[1]] = NULL]]
    BY <1>2, <1>3, <2>1, <2>2 DEF dequeue
  <2>4. M.head[q] = s[2] /\ M.tail[q] = s[n] /\ M.next[s[1]] = NULL
    BY <1>2, <1>3, <2>3 DEF Stores
  <2>5. ASSUME NEW i \in 2 .. n PROVE M.next[s[i]] = L.next[s[i]]
    <3>1. s[i] # s[1] /\ s[i] \in Node
      BY <1>1 DEF Distinct
    <3> QED
      BY <2>3, <3>1 DEF Stores
  <2>6. t # <<>> /\ t[1] = s[2] /\ t[Len(t)] = s[n]
    BY <1>1, <1>5
  <2>7. M.next[s[n]] = NULL
    BY <1>1, <1>2, <1>5, <2>5
  <2>8. ASSUME NEW i \in 1 .. Len(t) - 1 PROVE M.next[t[i]] = t[i + 1]
    <3>1. i + 1 \in 2 .. n /\ i + 1 \in 1 .. n - 1 /\ i \in 1 .. n - 1
      BY <1>1
    <3>2. t[i] = s[i + 1] /\ t[i + 1] = s[(i + 1) + 1]
      BY <1>1, <3>1
    <3>3. L.next[s[i + 1]] = s[(i + 1) + 1]
      BY <1>2, <3>1
    <3> QED
      BY <2>5, <3>1, <3>2, <3>3
  <2> QED
    BY <1>2, <2>4, <2>6, <2>7, <2>8 DEF Spells
<1> QED
  BY <1>4, <1>5

\* Two stores that agree on the pointers of r and on the links of the elements
\* of s spell s alike.
LEMMA SameLinks ==
    ASSUME NEW L, NEW M, NEW r, NEW s,
           M.head[r] = L.head[r], M.tail[r] = L.tail[r],
           \A i \in 1 .. Len(s) : M.next[s[i]] = L.next[s[i]],
           Len(s) \in Nat, s # <<>> => Len(s) > 0,
           Spells(L, r, s)
    PROVE  Spells(M, r, s)
  BY DEF Spells

\* The routines leave a list r alone that shares no element with the list q
\* they work on, nor holds the element added.
THEOREM OthersUntouched ==
    ASSUME NEW Node, NEW List, NULL \notin Node,
           NEW L \in Stores(Node, List), NEW q \in List, NEW p \in Node,
           NEW r \in List \ {q},
           NEW s \in Seq(Node), Spells(L, q, s),
           NEW u \in Seq(Node), Spells(L, r, u),
           Absent(p, u), \A i \in 1 .. Len(s) : Absent(s[i], u)
    PROVE  /\ Spells(enqueue_tail(L, q, p), r, u)
           /\ Spells(enqueue_head(L, q, p), r, u)
           /\ Spells(dequeue(L, q), r, u)
<1>1. /\ Len(u) \in Nat /\ (u # <<>> => Len(u) > 0)
      /\ \A i \in 1 .. Len(u) : u[i] \in Node
  OBVIOUS
<1>2. L.head[q] # NULL => /\ L.head[q] \in Node /\ Absent(L.head[q], u)
                          /\ L.tail[q] \in Node /\ Absent(L.tail[q], u)
  <2> SUFFICES ASSUME L.head[q] # NULL
               PROVE  /\ L.head[q] \in Node /\ Absent(L.head[q], u)
                      /\ L.tail[q] \in Node /\ Absent(L.tail[q], u)
    OBVIOUS
  <2>1. s # <<>>
    BY DEF Spells
  <2>2. L.head[q] = s[1] /\ L.tail[q] = s[Len(s)]
    BY <2>1 DEF Spells
  <2>3. 1 \in 1 .. Len(s) /\ Len(s) \in 1 .. Len(s)
    BY <2>1
  <2> QED
    BY <2>2, <2>3
<1>3. Spells(enqueue_tail(L, q, p), r, u)
  <2> DEFINE M == enqueue_tail(L, q, p)
  <2>1. M.head[r] = L.head[r] /\ M.tail[r] = L.tail[r]
    BY DEF enqueue_tail, Stores
  <2>2. \A i \in 1 .. Len(u) : M.next[u[i]] = L.next[u[i]]
    BY <1>1, <1>2 DEF enqueue_tail, Stores, Absent
  <2> QED
    BY <1>1, <2>1, <2>2, SameLinks
<1>4. Spells(enqueue_head(L, q, p), r, u)
  <2> DEFINE M == enqueue_head(L, q, p)
  <2>1. M.head[r] = L.head[r] /\ M.tail[r] = L.tail[r]
    BY DEF enqueue_head, Stores
  <2>2. \A i \in 1 .. Len(u) : M.next[u[i]] = L.next[u[i]]
    BY <1>1 DEF enqueue_head, Stores, Absent
  <2> QED
    BY <1>1, <2>1, <2>2, SameLinks
<1>5. Spells(dequeue(L, q), r, u)
  <2> DEFINE M == dequeue(L, q)
  <2>1. M.head[r] = L.head[r] /\ M.tail[r] = L.tail[r]
    BY DEF dequeue, Stores
  <2>2. \A i \in 1 .. Len(u) : M.next[u[i]] = L.next[u[i]]
    BY <1>1, <1>2 DEF dequeue, Stores, Absent
  <2> QED
    BY <1>1, <2>1, <2>2, SameLinks
<1> QED
  BY <1>3, <1>4, <1>5
-----------------------------------------------------------------------------
(* All the lists of a store together. *)

On(s, p) == \E i \in 1 .. Len(s) : s[i] = p

\* The lists spell the sequences s, and p is on the one list at[p], once; on none
\* when at[p] is NULL.
Spelt(L, Node, List, at, s) ==
    \A q \in List : /\ Spells(L, q, s[q]) /\ Distinct(s[q])
                    /\ \A p \in Node : On(s[q], p) <=> at[p] = q
Keeps(L, Node, List, at) ==
    \E s \in [List -> Seq(Node)] : Spelt(L, Node, List, at, s)

LEMMA AppendOn ==
    ASSUME NEW Node, NEW s \in Seq(Node), NEW p \in Node, Absent(p, s), Distinct(s)
    PROVE  /\ Append(s, p) \in Seq(Node)
           /\ Distinct(Append(s, p))
           /\ \A x : On(Append(s, p), x) <=> On(s, x) \/ x = p
<1> DEFINE t == Append(s, p)
<1>1. /\ t \in Seq(Node) /\ Len(s) \in Nat /\ Len(t) = Len(s) + 1
      /\ t[Len(s) + 1] = p /\ \A i \in 1 .. Len(s) : t[i] = s[i]
  OBVIOUS
<1> HIDE DEF t
<1> QED
  BY <1>1 DEF Distinct, On, Absent, t

LEMMA PrependOn ==
    ASSUME NEW Node, NEW s \in Seq(Node), NEW p \in Node, Absent(p, s), Distinct(s)
    PROVE  /\ <<p>> \o s \in Seq(Node)
           /\ Distinct(<<p>> \o s)
           /\ \A x : On(<<p>> \o s, x) <=> On(s, x) \/ x = p
<1> DEFINE t == <<p>> \o s
<1>1. /\ t \in Seq(Node) /\ Len(s) \in Nat /\ Len(t) = Len(s) + 1
      /\ t[1] = p /\ \A i \in 1 .. Len(s) : t[i + 1] = s[i]
  OBVIOUS
<1> HIDE DEF t
<1>2. \A i \in 2 .. Len(t) : i - 1 \in 1 .. Len(s) /\ t[i] = s[i - 1]
  <2> SUFFICES ASSUME NEW i \in 2 .. Len(t)
               PROVE  i - 1 \in 1 .. Len(s) /\ t[i] = s[i - 1]
    OBVIOUS
  <2>1. i - 1 \in 1 .. Len(s) /\ (i - 1) + 1 = i
    BY <1>1
  <2> QED
    BY <1>1, <2>1
<1>3. Distinct(t)
  <2> SUFFICES ASSUME NEW i \in 1 .. Len(t), NEW j \in 1 .. Len(t), i # j
               PROVE  t[i] # t[j]
    BY DEF Distinct
  <2>1. i = 1 \/ i \in 2 .. Len(t)
    BY <1>1
  <2>2. j = 1 \/ j \in 2 .. Len(t)
    BY <1>1
  <2>3. CASE i \in 2 .. Len(t) /\ j \in 2 .. Len(t)
    <3>1. i - 1 # j - 1
      OBVIOUS
    <3> QED
      BY <1>2, <2>3, <3>1 DEF Distinct
  <2>4. CASE \/ i = 1 /\ j \in 2 .. Len(t)
             \/ j = 1 /\ i \in 2 .. Len(t)
    BY <1>1, <1>2, <2>4 DEF Absent
  <2>5. \/ i \in 2 .. Len(t) /\ j \in 2 .. Len(t)
        \/ i = 1 /\ j \in 2 .. Len(t)
        \/ j = 1 /\ i \in 2 .. Len(t)
    BY <2>1, <2>2
  <2> QED
    BY <2>3, <2>4, <2>5
<1>4. \A x : On(t, x) <=> On(s, x) \/ x = p
  <2> SUFFICES ASSUME NEW x PROVE On(t, x) <=> On(s, x) \/ x = p
    OBVIOUS
  <2>1. \A i \in 1 .. Len(s) : i + 1 \in 1 .. Len(t) /\ 1 \in 1 .. Len(t)
    BY <1>1
  <2>2. \A i \in 1 .. Len(t) : i = 1 \/ i \in 2 .. Len(t)
    BY <1>1
  <2>3. 1 \in 1 .. Len(t)
    BY <1>1
  <2>4. ASSUME On(t, x) PROVE On(s, x) \/ x = p
    <3>1. PICK i \in 1 .. Len(t) : t[i] = x
      BY <2>4 DEF On
    <3>2. CASE i = 1
      BY <1>1, <3>1, <3>2
    <3>3. CASE i \in 2 .. Len(t)
      <4>1. i - 1 \in 1 .. Len(s) /\ t[i] = s[i - 1]
        BY <1>1, <1>2, <3>3
      <4> QED BY <3>1, <4>1 DEF On
    <3> QED BY <2>2, <3>2, <3>3
  <2>5. ASSUME On(s, x) PROVE On(t, x)
    <3>1. PICK i \in 1 .. Len(s) : s[i] = x
      BY <2>5 DEF On
    <3>2. i + 1 \in 1 .. Len(t) /\ t[i + 1] = s[i]
      BY <1>1, <1>2, <2>1
    <3> QED BY <3>1, <3>2 DEF On
  <2>6. On(t, p)
    BY <1>1, <2>3 DEF On
  <2> QED
    BY <2>4, <2>5, <2>6
<1> QED
  BY <1>1, <1>3, <1>4 DEF t

LEMMA TailOn ==
    ASSUME NEW Node, NEW s \in Seq(Node), s # <<>>, Distinct(s)
    PROVE  /\ Tail(s) \in Seq(Node)
           /\ Distinct(Tail(s))
           /\ \A x : On(Tail(s), x) <=> On(s, x) /\ x # s[1]
<1> DEFINE t == Tail(s)
<1>1. /\ t \in Seq(Node) /\ Len(s) \in Nat /\ Len(s) > 0 /\ Len(t) = Len(s) - 1
      /\ \A i \in 1 .. Len(t) : t[i] = s[i + 1]
  OBVIOUS
<1> HIDE DEF t
<1>2. Distinct(t)
  BY <1>1 DEF Distinct
<1>3. \A x : On(t, x) <=> On(s, x) /\ x # s[1]
  <2> SUFFICES ASSUME NEW x PROVE On(t, x) <=> On(s, x) /\ x # s[1]
    OBVIOUS
  <2>1. ASSUME On(t, x) PROVE On(s, x) /\ x # s[1]
    BY <1>1, <2>1 DEF On, Distinct
  <2>2. ASSUME On(s, x), x # s[1] PROVE On(t, x)
    <3>1. PICK i \in 1 .. Len(s) : s[i] = x
      BY <2>2 DEF On
    <3>2. i - 1 \in 1 .. Len(t) /\ (i - 1) + 1 = i
      BY <1>1, <2>2, <3>1
    <3>3. t[i - 1] = x
      BY <1>1, <3>1, <3>2
    <3> QED
      BY <3>2, <3>3 DEF On
  <2> QED
    BY <2>1, <2>2
<1> QED
  BY <1>1, <1>2, <1>3 DEF t

\* Two lists share no element, and an element on no list is absent from each.
LEMMA Disjoint ==
    ASSUME NEW L, NEW Node, NEW List, NEW at, NEW s \in [List -> Seq(Node)],
           Spelt(L, Node, List, at, s)
    PROVE  /\ \A q \in List : \A i \in 1 .. Len(s[q]) :
                  s[q][i] \in Node /\ at[s[q][i]] = q
           /\ \A q \in List : \A r \in List \ {q} :
                \A i \in 1 .. Len(s[q]) : Absent(s[q][i], s[r])
           /\ \A q \in List, p \in Node : at[p] # q => Absent(p, s[q])
<1>1. ASSUME NEW q \in List, NEW i \in 1 .. Len(s[q])
      PROVE  s[q][i] \in Node /\ at[s[q][i]] = q
  <2>1. s[q] \in Seq(Node)
    OBVIOUS
  <2>2. s[q][i] \in Node
    BY <2>1
  <2> QED
    BY <2>2 DEF Spelt, On
<1> QED
  BY <1>1 DEF Spelt, On, Absent

\* Adding an element that is on no list puts it on q and moves no other.
LEMMA EnqueueSpelt ==
    ASSUME NEW Node, NEW List, NULL \notin Node, NULL \notin List,
           NEW L \in Stores(Node, List), NEW at \in [Node -> List \cup {NULL}],
           NEW s \in [List -> Seq(Node)], Spelt(L, Node, List, at, s),
           NEW q \in List, NEW p \in Node, at[p] = NULL
    PROVE  /\ [s EXCEPT ![q] = Append(@, p)] \in [List -> Seq(Node)]
           /\ Spelt(enqueue_tail(L, q, p), Node, List, [at EXCEPT ![p] = q],
                    [s EXCEPT ![q] = Append(@, p)])
           /\ [s EXCEPT ![q] = <<p>> \o @] \in [List -> Seq(Node)]
           /\ Spelt(enqueue_head(L, q, p), Node, List, [at EXCEPT ![p] = q],
                    [s EXCEPT ![q] = <<p>> \o @])
<1>1. Spelt(L, Node, List, at, s)
  OBVIOUS
<1> DEFINE b == [at EXCEPT ![p] = q]
<1>2. \A r \in List : /\ s[r] \in Seq(Node) /\ Spells(L, r, s[r]) /\ Distinct(s[r])
                      /\ Absent(p, s[r])
                      /\ \A x \in Node : On(s[r], x) <=> at[x] = r
  <2> SUFFICES ASSUME NEW r \in List PROVE Absent(p, s[r]) /\ s[r] \in Seq(Node)
    BY <1>1 DEF Spelt
  <2>1. at[p] # r
    OBVIOUS
  <2> QED
    BY <1>1, <2>1, Disjoint
<1>3. \A r \in List \ {q} : \A i \in 1 .. Len(s[q]) : Absent(s[q][i], s[r])
  BY <1>1, Disjoint
<1>4. \A x \in Node, r \in List : b[x] = r <=> (IF x = p THEN r = q ELSE at[x] = r)
  OBVIOUS
<1>5. ASSUME NEW r \in List \ {q}
      PROVE  /\ Spells(enqueue_tail(L, q, p), r, s[r])
             /\ Spells(enqueue_head(L, q, p), r, s[r])
             /\ \A x \in Node : On(s[r], x) <=> b[x] = r
  <2>1. \A x \in Node : On(s[r], x) <=> b[x] = r
    BY <1>2, <1>4
  <2>2. Spells(L, q, s[q]) /\ s[q] \in Seq(Node)
    BY <1>2
  <2>3. Spells(L, r, s[r]) /\ s[r] \in Seq(Node) /\ Absent(p, s[r])
    BY <1>2
  <2> QED
    BY <1>3, <2>1, <2>2, <2>3, OthersUntouched
<1>6. s[q] \in Seq(Node) /\ Spells(L, q, s[q]) /\ Distinct(s[q]) /\ Absent(p, s[q])
  BY <1>2
<1>7. /\ [s EXCEPT ![q] = Append(s[q], p)] \in [List -> Seq(Node)]
      /\ Spelt(enqueue_tail(L, q, p), Node, List, b, [s EXCEPT ![q] = Append(s[q], p)])
  <2> DEFINE t == [s EXCEPT ![q] = Append(s[q], p)]
  <2>1. Spells(enqueue_tail(L, q, p), q, Append(s[q], p))
    BY <1>6, EnqueueTailAppends
  <2>2. /\ Append(s[q], p) \in Seq(Node) /\ Distinct(Append(s[q], p))
        /\ \A x : On(Append(s[q], p), x) <=> On(s[q], x) \/ x = p
    BY <1>6, AppendOn
  <2>3. t[q] = Append(s[q], p) /\ t \in [List -> Seq(Node)]
    BY <2>2
  <2>4. \A r \in List \ {q} : t[r] = s[r]
    OBVIOUS
  <2>5. \A x \in Node : On(t[q], x) <=> b[x] = q
    BY <1>2, <1>4, <2>2, <2>3
  <2> HIDE DEF t
  <2>6. ASSUME NEW r \in List
        PROVE  /\ Spells(enqueue_tail(L, q, p), r, t[r]) /\ Distinct(t[r])
               /\ \A x \in Node : On(t[r], x) <=> b[x] = r
    BY <1>2, <1>5, <2>1, <2>2, <2>3, <2>4, <2>5, ZenonT(60)
  <2>7. t \in [List -> Seq(Node)] /\ Spelt(enqueue_tail(L, q, p), Node, List, b, t)
    BY <2>3, <2>6 DEF Spelt
  <2> QED
    BY <2>7 DEF t
<1>8. /\ [s EXCEPT ![q] = <<p>> \o s[q]] \in [List -> Seq(Node)]
      /\ Spelt(enqueue_head(L, q, p), Node, List, b, [s EXCEPT ![q] = <<p>> \o s[q]])
  <2> DEFINE t == [s EXCEPT ![q] = <<p>> \o s[q]]
  <2>1. Spells(enqueue_head(L, q, p), q, <<p>> \o s[q])
    BY <1>6, EnqueueHeadPrepends
  <2>2. /\ <<p>> \o s[q] \in Seq(Node) /\ Distinct(<<p>> \o s[q])
        /\ \A x : On(<<p>> \o s[q], x) <=> On(s[q], x) \/ x = p
    BY <1>6, PrependOn
  <2>3. t[q] = <<p>> \o s[q] /\ t \in [List -> Seq(Node)]
    BY <2>2
  <2>4. \A r \in List \ {q} : t[r] = s[r]
    OBVIOUS
  <2>5. \A x \in Node : On(t[q], x) <=> b[x] = q
    BY <1>2, <1>4, <2>2, <2>3
  <2> HIDE DEF t
  <2>6. ASSUME NEW r \in List
        PROVE  /\ Spells(enqueue_head(L, q, p), r, t[r]) /\ Distinct(t[r])
               /\ \A x \in Node : On(t[r], x) <=> b[x] = r
    BY <1>2, <1>5, <2>1, <2>2, <2>3, <2>4, <2>5, ZenonT(60)
  <2>7. t \in [List -> Seq(Node)] /\ Spelt(enqueue_head(L, q, p), Node, List, b, t)
    BY <2>3, <2>6 DEF Spelt
  <2> QED
    BY <2>7 DEF t
<1> QED
  BY <1>7, <1>8

LEMMA EnqueueKeeps ==
    ASSUME NEW Node, NEW List, NULL \notin Node, NULL \notin List,
           NEW L \in Stores(Node, List), NEW at \in [Node -> List \cup {NULL}],
           Keeps(L, Node, List, at),
           NEW q \in List, NEW p \in Node, at[p] = NULL
    PROVE  /\ Keeps(enqueue_tail(L, q, p), Node, List, [at EXCEPT ![p] = q])
           /\ Keeps(enqueue_head(L, q, p), Node, List, [at EXCEPT ![p] = q])
<1>1. PICK s \in [List -> Seq(Node)] : Spelt(L, Node, List, at, s)
  BY DEF Keeps
<1>2. /\ [s EXCEPT ![q] = Append(s[q], p)] \in [List -> Seq(Node)]
      /\ Spelt(enqueue_tail(L, q, p), Node, List, [at EXCEPT ![p] = q],
               [s EXCEPT ![q] = Append(s[q], p)])
      /\ [s EXCEPT ![q] = <<p>> \o s[q]] \in [List -> Seq(Node)]
      /\ Spelt(enqueue_head(L, q, p), Node, List, [at EXCEPT ![p] = q],
               [s EXCEPT ![q] = <<p>> \o s[q]])
  BY <1>1, EnqueueSpelt
<1> QED
  BY <1>2 DEF Keeps

\* A head is on its list, and a list without a head is empty.
LEMMA HeadKept ==
    ASSUME NEW Node, NEW List, NULL \notin Node,
           NEW L \in Stores(Node, List), NEW at \in [Node -> List \cup {NULL}],
           Keeps(L, Node, List, at),
           NEW q \in List
    PROVE  /\ L.head[q] # NULL => L.head[q] \in Node /\ at[L.head[q]] = q
           /\ L.head[q] = NULL => \A p \in Node : at[p] # q
<1>1. PICK s \in [List -> Seq(Node)] : Spelt(L, Node, List, at, s)
  BY DEF Keeps
<1>2. /\ s[q] \in Seq(Node) /\ Spells(L, q, s[q])
      /\ \A x \in Node : On(s[q], x) <=> at[x] = q
  BY <1>1 DEF Spelt
<1>3. CASE s[q] = <<>>
  <2>1. L.head[q] = NULL /\ Len(s[q]) = 0
    BY <1>2, <1>3 DEF Spells
  <2> QED
    BY <1>2, <2>1 DEF On
<1>4. CASE s[q] # <<>>
  <2>1. 1 \in 1 .. Len(s[q]) /\ s[q][1] \in Node
    BY <1>2, <1>4
  <2>2. L.head[q] = s[q][1]
    BY <1>2, <1>4 DEF Spells
  <2> QED
    BY <1>2, <2>1, <2>2 DEF On
<1> QED
  BY <1>3, <1>4

\* So is a tail.
LEMMA TailKept ==
    ASSUME NEW Node, NEW List, NULL \notin Node,
           NEW L \in Stores(Node, List), NEW at \in [Node -> List \cup {NULL}],
           Keeps(L, Node, List, at),
           NEW q \in List, L.tail[q] # NULL
    PROVE  L.tail[q] \in Node /\ at[L.tail[q]] = q
<1>1. PICK s \in [List -> Seq(Node)] : Spelt(L, Node, List, at, s)
  BY DEF Keeps
<1>2. /\ s[q] \in Seq(Node) /\ Spells(L, q, s[q])
      /\ \A x \in Node : On(s[q], x) <=> at[x] = q
  BY <1>1 DEF Spelt
<1>3. s[q] # <<>> /\ L.tail[q] = s[q][Len(s[q])]
  BY <1>2 DEF Spells
<1>4. Len(s[q]) \in 1 .. Len(s[q]) /\ s[q][Len(s[q])] \in Node
  BY <1>2, <1>3
<1> QED
  BY <1>2, <1>3, <1>4 DEF On

\* The element taken off the head of q is then on no list, and no other moves.
LEMMA DequeueSpelt ==
    ASSUME NEW Node, NEW List, NULL \notin Node, NULL \notin List,
           NEW L \in Stores(Node, List), NEW at \in [Node -> List \cup {NULL}],
           NEW s \in [List -> Seq(Node)], Spelt(L, Node, List, at, s),
           NEW q \in List, L.head[q] # NULL
    PROVE  /\ [s EXCEPT ![q] = Tail(@)] \in [List -> Seq(Node)]
           /\ Spelt(dequeue(L, q), Node, List, [at EXCEPT ![L.head[q]] = NULL],
                    [s EXCEPT ![q] = Tail(@)])
<1>1. Spelt(L, Node, List, at, s)
  OBVIOUS
<1>2. L.head[q] \in Node /\ at[L.head[q]] = q
  <2>1. Keeps(L, Node, List, at)
    BY <1>1 DEF Keeps
  <2> QED
    BY <2>1, HeadKept
<1> DEFINE h == L.head[q]
           b == [at EXCEPT ![h] = NULL]
           t == [s EXCEPT ![q] = Tail(s[q])]
<1>3. \A r \in List : /\ s[r] \in Seq(Node) /\ Spells(L, r, s[r]) /\ Distinct(s[r])
                      /\ \A x \in Node : On(s[r], x) <=> at[x] = r
  BY <1>1 DEF Spelt
<1>4. \A r \in List \ {q} : /\ Absent(h, s[r])
                            /\ \A i \in 1 .. Len(s[q]) : Absent(s[q][i], s[r])
  BY <1>1, <1>2, Disjoint
<1>5. \A x \in Node, r \in List : b[x] = r <=> x # h /\ at[x] = r
  BY <1>2
<1>6. s[q] # <<>> /\ s[q] \in Seq(Node) /\ Spells(L, q, s[q]) /\ Distinct(s[q])
  BY <1>3 DEF Spells
<1>7. h = s[q][1] /\ Spells(dequeue(L, q), q, Tail(s[q]))
  BY <1>6, DequeueTakesHead
<1>8. /\ Tail(s[q]) \in Seq(Node) /\ Distinct(Tail(s[q]))
      /\ \A x : On(Tail(s[q]), x) <=> On(s[q], x) /\ x # s[q][1]
  BY <1>6, TailOn
<1>9. t[q] = Tail(s[q]) /\ t \in [List -> Seq(Node)]
  BY <1>8
<1>10. \A r \in List \ {q} : t[r] = s[r]
  OBVIOUS
<1>11. ASSUME NEW r \in List \ {q}
       PROVE  Spells(dequeue(L, q), r, s[r])
  <2>1. Spells(L, r, s[r]) /\ s[r] \in Seq(Node) /\ Absent(h, s[r])
    BY <1>3, <1>4
  <2>2. \A i \in 1 .. Len(s[q]) : Absent(s[q][i], s[r])
    BY <1>4
  <2> HIDE DEF h
  <2> QED
    BY <1>2, <1>6, <2>1, <2>2, OthersUntouched
<1>12. \A x \in Node : On(t[q], x) <=> b[x] = q
  BY <1>3, <1>5, <1>7, <1>8, <1>9
<1>13. ASSUME NEW r \in List \ {q}
       PROVE  \A x \in Node : On(s[r], x) <=> b[x] = r
  BY <1>2, <1>3, <1>5
<1> HIDE DEF t, b, h
<1>14. ASSUME NEW r \in List
       PROVE  /\ Spells(dequeue(L, q), r, t[r]) /\ Distinct(t[r])
              /\ \A x \in Node : On(t[r], x) <=> b[x] = r
  BY <1>3, <1>7, <1>8, <1>9, <1>10, <1>11, <1>12, <1>13, ZenonT(60)
<1> QED
  BY <1>9, <1>14 DEF Spelt, b, h, t

LEMMA DequeueKeeps ==
    ASSUME NEW Node, NEW List, NULL \notin Node, NULL \notin List,
           NEW L \in Stores(Node, List), NEW at \in [Node -> List \cup {NULL}],
           Keeps(L, Node, List, at),
           NEW q \in List, L.head[q] # NULL
    PROVE  Keeps(dequeue(L, q), Node, List, [at EXCEPT ![L.head[q]] = NULL])
<1>1. PICK s \in [List -> Seq(Node)] : Spelt(L, Node, List, at, s)
  BY DEF Keeps
<1>2. /\ [s EXCEPT ![q] = Tail(s[q])] \in [List -> Seq(Node)]
      /\ Spelt(dequeue(L, q), Node, List, [at EXCEPT ![L.head[q]] = NULL],
               [s EXCEPT ![q] = Tail(s[q])])
  BY <1>1, DequeueSpelt
<1> QED
  BY <1>2 DEF Keeps
-----------------------------------------------------------------------------
(* Following the links of a list. *)

\* Every set of naturals that is not empty has a least element.
LEMMA Least ==
    ASSUME NEW T, T \subseteq Nat, T # {}
    PROVE  \E m \in T : \A n \in T : m <= n
<1> DEFINE R == OpToRel(<, Nat)
<1>1. IsWellFoundedOn(R, Nat)
  BY NatLessThanWellFounded
<1> HIDE DEF R
<1>2. PICK m \in T : \A n \in T : ~ (<<n, m>> \in R)
  BY <1>1, WFMin
<1>3. \A n \in Nat : n < m => <<n, m>> \in R
  BY DEF R, OpToRel
<1>4. \A n \in T : n \in Nat /\ m \in Nat /\ ~ (n < m)
  BY <1>2, <1>3
<1> QED
  BY <1>2, <1>4

\* Induction, over a set in place of a predicate.
LEMMA Induction ==
    ASSUME NEW S, 0 \in S, \A n \in Nat : n \in S => n + 1 \in S
    PROVE  Nat \subseteq S
<1> DEFINE T == Nat \ S
<1> SUFFICES ASSUME T # {} PROVE FALSE
  OBVIOUS
<1>1. PICK m \in T : \A n \in T : m <= n
  BY Least
<1>2. m # 0 /\ m - 1 \in Nat /\ m - 1 \notin T
  BY <1>1
<1>3. m - 1 \in S
  BY <1>2
<1> QED
  BY <1>2, <1>3

\* What Chain computes: its defining equation has a solution and only one.
LEMMA ChainStep ==
    ASSUME NEW L, NEW q, NEW h,
           \A n \in Nat : h[n] = IF n = 0 THEN L.head[q]
                                 ELSE IF h[n - 1] = NULL THEN NULL
                                 ELSE L.next[h[n - 1]]
    PROVE  \A n \in Nat : Chain(L, q)[n] = h[n]
<1> DEFINE g == [n \in Nat |-> h[n]]
           F(f) == [n \in Nat |-> IF n = 0 THEN L.head[q]
                                  ELSE LET p == f[n - 1]
                                       IN  IF p = NULL THEN NULL ELSE L.next[p]]
           c == Chain(L, q)
           S == {n \in Nat : c[n] = g[n]}
<1>1. c = CHOOSE f : f = F(f)
  BY DEF Chain
<1>2. g = F(g)
  <2>1. \A n \in Nat : n = 0 \/ n - 1 \in Nat
    OBVIOUS
  <2> QED
    BY <2>1
<1> HIDE DEF c
<1>3. c = F(c)
  <2> HIDE DEF F
  <2> QED
    BY <1>1, <1>2
<1>4. 0 \in S
  BY <1>2, <1>3
<1>5. ASSUME NEW n \in Nat, n \in S PROVE n + 1 \in S
  <2>1. n + 1 \in Nat /\ n + 1 # 0 /\ (n + 1) - 1 = n
    OBVIOUS
  <2>2. F(c)[n + 1] = IF c[n] = NULL THEN NULL ELSE L.next[c[n]]
    BY <2>1
  <2>3. F(g)[n + 1] = IF g[n] = NULL THEN NULL ELSE L.next[g[n]]
    BY <2>1
  <2>4. c[n] = g[n]
    BY <1>5
  <2> HIDE DEF F
  <2> QED
    BY <1>2, <1>3, <2>1, <2>2, <2>3, <2>4
<1>6. Nat \subseteq S
  <2> HIDE DEF S
  <2> QED
    BY <1>4, <1>5, Induction
<1> QED
  BY <1>6 DEF c

\* On a list that spells s, the n-th link leads to the n-th element of s.
LEMMA ChainSpells ==
    ASSUME NEW Node, NULL \notin Node, NEW L, NEW q,
           NEW s \in Seq(Node), Spells(L, q, s)
    PROVE  \A n \in Nat : Chain(L, q)[n] = IF n < Len(s) THEN s[n + 1] ELSE NULL
<1> DEFINE g == [n \in Nat |-> IF n < Len(s) THEN s[n + 1] ELSE NULL]
<1>1. /\ Len(s) \in Nat /\ \A i \in 1 .. Len(s) : s[i] \in Node /\ s[i] # NULL
      /\ s = <<>> <=> Len(s) = 0
  OBVIOUS
<1>2. ASSUME NEW n \in Nat
      PROVE  g[n] = IF n = 0 THEN L.head[q]
                    ELSE IF g[n - 1] = NULL THEN NULL
                    ELSE L.next[g[n - 1]]
  <2>1. CASE n = 0
    BY <1>1, <2>1 DEF Spells
  <2>2. CASE n # 0 /\ n < Len(s)
    <3>1. n - 1 \in Nat /\ n - 1 < Len(s) /\ (n - 1) + 1 = n /\ n \in 1 .. Len(s) - 1
      BY <1>1, <2>2
    <3>2. g[n - 1] = s[n] /\ s[n] # NULL
      BY <1>1, <3>1
    <3>3. L.next[s[n]] = s[n + 1]
      BY <1>1, <3>1 DEF Spells
    <3> QED
      BY <2>2, <3>2, <3>3
  <2>3. CASE n # 0 /\ n = Len(s)
    <3>1. n - 1 \in Nat /\ n - 1 < Len(s) /\ (n - 1) + 1 = n /\ n \in 1 .. Len(s)
      BY <1>1, <2>3
    <3>2. g[n - 1] = s[n] /\ s[n] # NULL
      BY <1>1, <3>1
    <3>3. L.next[s[n]] = NULL
      BY <1>1, <2>3 DEF Spells
    <3> QED
      BY <1>1, <2>3, <3>2, <3>3
  <2>4. CASE n # 0 /\ n > Len(s)
    <3>1. n - 1 \in Nat /\ ~ (n - 1 < Len(s)) /\ ~ (n < Len(s))
      BY <1>1, <2>4
    <3> QED
      BY <2>4, <3>1
  <2> QED
    BY <1>1, <2>1, <2>2, <2>3, <2>4
<1>3. \A n \in Nat : Chain(L, q)[n] = g[n]
  <2> HIDE DEF g
  <2> QED
    BY <1>2, ChainStep
<1> QED
  BY <1>3

\* On a list that spells s, without a repetition, Members are the elements of s,
\* and the list is proper, for any bound as large as the number of elements.
LEMMA MembersSpelt ==
    ASSUME NEW Node, NULL \notin Node, IsFiniteSet(Node), NEW L, NEW q,
           NEW s \in Seq(Node), Spells(L, q, s), Distinct(s),
           NEW bound \in Nat, Cardinality(Node) <= bound
    PROVE  /\ Members(L, q, bound) = {x \in Node : On(s, x)}
           /\ Spelling(L, q, bound) = s
           /\ Proper(L, q, bound)
<1> DEFINE c == Chain(L, q)
           M == {x \in Node : On(s, x)}
           I == 1 .. Len(s)
           f == [i \in I |-> s[i]]
<1>1. /\ Len(s) \in Nat /\ \A i \in I : s[i] \in Node /\ s[i] # NULL
      /\ s = f
  OBVIOUS
<1>2. \A n \in Nat : c[n] = IF n < Len(s) THEN s[n + 1] ELSE NULL
  BY ChainSpells
<1>3. f \in Bijection(I, M)
  <2>1. f \in [I -> M] /\ \A x \in M : \E i \in I : f[i] = x
    BY <1>1 DEF On
  <2>2. \A i, j \in I : f[i] = f[j] => i = j
    BY <1>1 DEF Distinct
  <2> QED
    BY <2>1, <2>2 DEF Bijection, Injection, Surjection, IsInjective
<1>4. IsFiniteSet(I) /\ Cardinality(I) = Len(s)
  <2>1. 1 \in Int /\ Len(s) \in Int
    BY <1>1
  <2>2. IsFiniteSet(I) /\ Cardinality(I) = IF 1 > Len(s) THEN 0 ELSE Len(s) - 1 + 1
    BY <2>1, FS_Interval
  <2> QED
    BY <1>1, <2>2
<1>5. Cardinality(M) = Len(s)
  <2>1. ExistsBijection(I, M)
    BY <1>3 DEF ExistsBijection
  <2> HIDE DEF I, M
  <2> QED
    BY <1>4, <2>1, FS_Bijection
<1>6. Len(s) <= bound
  <2>1. M \in SUBSET Node
    OBVIOUS
  <2>2. Cardinality(M) <= Cardinality(Node) /\ Cardinality(Node) \in Nat
    <3> HIDE DEF M
    <3> QED
      BY <2>1, FS_Subset, FS_CardinalityType
  <2> QED
    BY <1>1, <1>5, <2>2
<1>7. Members(L, q, bound) = M
  <2>1. Members(L, q, bound) = {c[n] : n \in 0 .. bound} \ {NULL}
    BY DEF Members
  <2> HIDE DEF c
  <2>2. ASSUME NEW n \in 0 .. bound, c[n] # NULL PROVE c[n] \in M
    <3>1. n \in Nat /\ n < Len(s) /\ n + 1 \in I /\ c[n] = s[n + 1]
      BY <1>1, <1>2, <2>2
    <3> QED
      BY <1>1, <3>1 DEF On
  <2>3. ASSUME NEW x \in M PROVE \E n \in 0 .. bound : c[n] = x /\ x # NULL
    <3>1. PICK i \in I : s[i] = x
      BY DEF On
    <3>2. i - 1 \in 0 .. bound /\ i - 1 \in Nat /\ i - 1 < Len(s) /\ (i - 1) + 1 = i
      BY <1>1, <1>6
    <3>3. c[i - 1] = x
      BY <1>2, <3>1, <3>2
    <3> QED
      BY <1>1, <3>1, <3>2, <3>3
  <2> HIDE DEF M
  <2> QED
    BY <2>1, <2>2, <2>3
<1>8. c[Len(s)] = NULL
  BY <1>1, <1>2
<1>9. [n \in 1 .. Len(s) |-> c[n - 1]] = s
  <2>1. ASSUME NEW n \in 1 .. Len(s) PROVE c[n - 1] = s[n]
    <3>1. n - 1 \in Nat /\ n - 1 < Len(s) /\ (n - 1) + 1 = n
      BY <1>1
    <3> QED
      BY <1>2, <3>1
  <2>2. s = [n \in 1 .. Len(s) |-> s[n]]
    OBVIOUS
  <2> HIDE DEF c
  <2> QED
    BY <2>1, <2>2
<1>10. Cardinality(Members(L, q, bound)) = Len(s)
  BY <1>5, <1>7
<1>11. Spelling(L, q, bound) = s
  BY <1>9, <1>10 DEF Spelling
<1>12. Proper(L, q, bound)
  BY <1>8, <1>10, <1>11 DEF Proper
<1> QED
  BY <1>7, <1>11, <1>12

\* The lists of a store that keeps its elements where "at" says are proper, and
\* the members found by following the links are the elements that "at" puts there.
THEOREM KeptMembers ==
    ASSUME NEW Node, NEW List, NULL \notin Node, IsFiniteSet(Node),
           NEW L \in Stores(Node, List), NEW at \in [Node -> List \cup {NULL}],
           Keeps(L, Node, List, at), NEW q \in List,
           NEW bound \in Nat, Cardinality(Node) <= bound
    PROVE  /\ Members(L, q, bound) = {p \in Node : at[p] = q}
           /\ Proper(L, q, bound)
<1>1. PICK s \in [List -> Seq(Node)] : Spelt(L, Node, List, at, s)
  BY DEF Keeps
<1>2. /\ s[q] \in Seq(Node) /\ Spells(L, q, s[q]) /\ Distinct(s[q])
      /\ \A x \in Node : On(s[q], x) <=> at[x] = q
  BY <1>1 DEF Spelt
<1>3. Members(L, q, bound) = {x \in Node : On(s[q], x)} /\ Proper(L, q, bound)
  BY <1>2, MembersSpelt
<1> QED
  BY <1>2, <1>3
=============================================================================
