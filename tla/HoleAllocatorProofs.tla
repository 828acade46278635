-------------------------- MODULE HoleAllocatorProofs --------------------------
(***************************************************************************)
(* Proofs about HoleAllocator, for every number of descriptors and every    *)
(* memory: no two blocks handed out and no hole share a word, and every     *)
(* descriptor is on one of the two lists.  The invariant HInv is proved     *)
(* operation by operation; a request that could wrap in _sbrk is left out.  *)
(***************************************************************************)
EXTENDS HoleAllocator, LinkedListProofs, SequenceTheorems

\* Keeps says more than is true of the lists of holes, whose tails hole_delete2
\* leaves behind: they would be kept if their tails were right.
KeepsHeads(L, Node, List, at) ==
    \E t \in [List -> Node \cup {NULL}] : Keeps([L EXCEPT !.tail = t], Node, List, at)
Listed(L, at) == /\ L \in Stores(Hole, HoleList)
                 /\ at \in [Hole -> HoleList \cup {NULL}]
                 /\ KeepsHeads(L, Hole, HoleList, at)
-----------------------------------------------------------------------------
LEMMA HoleConstants ==
    /\ NULL \notin Hole /\ NULL \notin HoleList /\ NUM_HOLES \in Hole
    /\ IsFiniteSet(Hole) /\ Cardinality(Hole) = NUM_HOLES /\ NUM_HOLES \in Nat
  <1>1. 1 \in Int /\ NUM_HOLES \in Int /\ NUM_HOLES >= 1
    BY TableAssumption
  <1>2. IsFiniteSet(Hole) /\ Cardinality(Hole) =
            IF 1 > NUM_HOLES THEN 0 ELSE NUM_HOLES - 1 + 1
    BY <1>1, FS_Interval DEF Hole
  <1>3. NULL \notin HoleList
    BY TableAssumption DEF HoleList
  <1> QED BY <1>1, <1>2, <1>3, TableAssumption DEF Hole

LEMMA ListedMembers ==
    ASSUME NEW L, NEW at, Listed(L, at), NEW q \in HoleList
    PROVE  OnList(L, q) = {h \in Hole : at[h] = q}
  <1>1. PICK t \in [HoleList -> Hole \cup {NULL}] :
            Keeps([L EXCEPT !.tail = t], Hole, HoleList, at)
    BY DEF Listed, KeepsHeads
  <1> DEFINE M == [L EXCEPT !.tail = t]
  <1>2. /\ M.head = L.head /\ M.next = L.next
        /\ M \in Stores(Hole, HoleList)
    BY DEF Listed, Stores
  <1>3. Keeps(M, Hole, HoleList, at)
    BY <1>1
  <1> HIDE DEF M
  <1>4. Chain(M, q) = Chain(L, q)
    BY <1>2 DEF Chain
  <1>5. Members(M, q, NUM_HOLES) = OnList(L, q)
    BY <1>4 DEF Members, OnList
  <1>6. at \in [Hole -> HoleList \cup {NULL}]
    BY DEF Listed, KeepsHeads
  <1>7. Members(M, q, NUM_HOLES) = {h \in Hole : at[h] = q}
    <2>1. NUM_HOLES \in Nat /\ Cardinality(Hole) <= NUM_HOLES
      BY HoleConstants
    <2>2. NULL \notin Hole /\ IsFiniteSet(Hole)
      BY HoleConstants
    <2> QED BY <1>2, <1>3, <1>6, <2>1, <2>2, KeptMembers
  <1> QED BY <1>5, <1>7

\* A store whose lists are those of M, or empty, keeps what M keeps of them.
LEMMA Agree ==
    ASSUME NEW Node, NEW List, NEW M, NEW at, Keeps(M, Node, List, at),
           NEW N, NEW b,
           \A r \in List :
             \/ /\ N.head[r] = M.head[r] /\ N.tail[r] = M.tail[r]
                /\ \A x \in Node : /\ at[x] = r => N.next[x] = M.next[x]
                                   /\ b[x] = r <=> at[x] = r
             \/ /\ N.head[r] = NULL /\ N.tail[r] = NULL
                /\ \A x \in Node : b[x] # r
    PROVE  Keeps(N, Node, List, b)
  <1>1. PICK s \in [List -> Seq(Node)] : Spelt(M, Node, List, at, s)
    BY DEF Keeps
  <1> DEFINE same(r) == /\ N.head[r] = M.head[r] /\ N.tail[r] = M.tail[r]
                        /\ \A x \in Node : /\ at[x] = r => N.next[x] = M.next[x]
                                           /\ b[x] = r <=> at[x] = r
             t == [r \in List |-> IF same(r) THEN s[r] ELSE <<>>]
  <1>2. t \in [List -> Seq(Node)]
    <2>1. <<>> \in Seq(Node)
      OBVIOUS
    <2> QED BY <2>1
  <1>3. ASSUME NEW r \in List
        PROVE  /\ Spells(N, r, t[r]) /\ Distinct(t[r])
               /\ \A x \in Node : On(t[r], x) <=> b[x] = r
    <2>1. CASE same(r)
      <3>1. /\ t[r] = s[r] /\ s[r] \in Seq(Node) /\ Spells(M, r, s[r])
            /\ Distinct(s[r]) /\ \A x \in Node : On(s[r], x) <=> at[x] = r
        BY <1>1, <2>1 DEF Spelt
      <3>2. \A i \in 1 .. Len(s[r]) : N.next[s[r][i]] = M.next[s[r][i]]
        <4> SUFFICES ASSUME NEW i \in 1 .. Len(s[r])
                     PROVE  N.next[s[r][i]] = M.next[s[r][i]]
          OBVIOUS
        <4>1. s[r][i] \in Node
          BY <3>1
        <4>2. at[s[r][i]] = r
          BY <3>1, <4>1 DEF On
        <4> QED BY <2>1, <4>1, <4>2
      <3>3. Len(s[r]) \in Nat /\ (s[r] # <<>> => Len(s[r]) > 0)
        BY <3>1
      <3>4. N.head[r] = M.head[r] /\ N.tail[r] = M.tail[r]
        BY <2>1
      <3>5. Spells(N, r, s[r])
        BY <3>1, <3>2, <3>3, <3>4, SameLinks
      <3> QED BY <2>1, <3>1, <3>5
    <2>2. CASE ~same(r)
      <3>1. t[r] = <<>> /\ N.head[r] = NULL /\ N.tail[r] = NULL
            /\ \A x \in Node : b[x] # r
        BY <2>2
      <3> QED BY <3>1 DEF Spells, Distinct, On
    <2> QED BY <2>1, <2>2
  <1> HIDE DEF t
  <1> QED BY <1>2, <1>3 DEF Keeps, Spelt

\* Taking the element h of s behind another one out of it.
LEMMA RemoveOn ==
    ASSUME NEW Node, NEW s \in Seq(Node), Distinct(s),
           NEW k \in 2 .. Len(s),
           NEW t \in Seq(Node), Len(t) = Len(s) - 1,
           \A i \in 1 .. Len(s) - 1 : t[i] = IF i < k THEN s[i] ELSE s[i + 1]
    PROVE  /\ Distinct(t)
           /\ \A x : On(t, x) <=> On(s, x) /\ x # s[k]
  <1> DEFINE n == Len(s) - 1
  <1>1. /\ n \in Nat /\ n >= 1 /\ Len(s) = n + 1
        /\ \A i \in 1 .. n + 1 : s[i] \in Node
    OBVIOUS
  <1>3. t \in Seq(Node) /\ Len(t) = n
    OBVIOUS
  <1>4. \A i \in 1 .. n : t[i] = IF i < k THEN s[i] ELSE s[i + 1]
    OBVIOUS
  <1> HIDE DEF n
  <1>5. Distinct(t)
    BY <1>1, <1>3, <1>4 DEF Distinct
  <1>6. ASSUME NEW x PROVE On(t, x) <=> On(s, x) /\ x # s[k]
    <2>1. ASSUME On(t, x) PROVE On(s, x) /\ x # s[k]
      BY <1>1, <1>3, <1>4, <2>1 DEF On, Distinct
    <2>2. ASSUME On(s, x), x # s[k] PROVE On(t, x)
      <3>1. PICK i \in 1 .. n + 1 : s[i] = x
        BY <1>1, <2>2 DEF On
      <3>2. CASE i < k
        <4>1. i \in 1 .. n /\ t[i] = x
          BY <1>1, <1>4, <3>1, <3>2
        <4> QED BY <1>3, <4>1 DEF On
      <3>3. CASE i > k
        <4>1. i - 1 \in 1 .. n /\ ~(i - 1 < k) /\ (i - 1) + 1 = i
          BY <1>1, <3>1, <3>3
        <4>2. t[i - 1] = x
          BY <1>4, <3>1, <4>1
        <4> QED BY <1>3, <4>1, <4>2 DEF On
      <3> QED BY <1>1, <2>2, <3>1, <3>2, <3>3
    <2> QED BY <2>1, <2>2
  <1> QED BY <1>3, <1>5, <1>6 DEF n

\* The pointers of N are what is left of those of M when the k-th element of q is
\* passed over.
Removed(M, N, q, s, k) ==
    /\ N.head[q] = M.head[q]
    /\ N.tail[q] = IF k = Len(s) THEN s[k - 1] ELSE M.tail[q]
    /\ \A i \in 1 .. Len(s) : N.next[s[i]] = IF i = k - 1 THEN M.next[s[k]]
                                             ELSE M.next[s[i]]

LEMMA RemoveSpells ==
    ASSUME NEW Node, NEW M, NEW N, NEW q, NEW s \in Seq(Node), Spells(M, q, s),
           NEW k \in 2 .. Len(s), Removed(M, N, q, s, k),
           NEW t \in Seq(Node), Len(t) = Len(s) - 1,
           \A i \in 1 .. Len(s) - 1 : t[i] = IF i < k THEN s[i] ELSE s[i + 1]
    PROVE  Spells(N, q, t)
  <1> DEFINE n == Len(s) - 1
  <1>1. /\ n \in Nat /\ n >= 1 /\ Len(s) = n + 1 /\ t \in Seq(Node) /\ Len(t) = n
        /\ k \in Int /\ k >= 2 /\ k <= n + 1
        /\ \A i \in 1 .. n + 1 : s[i] \in Node
    OBVIOUS
  <1>2. \A i \in 1 .. n : t[i] = IF i < k THEN s[i] ELSE s[i + 1]
    OBVIOUS
  <1>a. Len(s) - 1 = n
    OBVIOUS
  <1>c. s # <<>>
    <2>1. s = <<>> => Len(s) = 0
      OBVIOUS
    <2> HIDE DEF n
    <2> QED BY <1>1, <2>1
  <1> HIDE DEF n
  <1>3. /\ M.head[q] = s[1] /\ M.tail[q] = s[n + 1] /\ M.next[s[n + 1]] = NULL
        /\ \A i \in 1 .. n : M.next[s[i]] = s[i + 1]
    BY <1>1, <1>a, <1>c DEF Spells
  <1>4. \A i \in 1 .. n + 1 : N.next[s[i]] = IF i = k - 1 THEN M.next[s[k]]
                                             ELSE M.next[s[i]]
    BY <1>1 DEF Removed
  <1>5. N.tail[q] = IF k = n + 1 THEN s[n] ELSE s[n + 1]
    BY <1>1, <1>3 DEF Removed
  <1>6. N.head[q] = t[1] /\ N.tail[q] = t[n]
    BY <1>1, <1>2, <1>3, <1>5 DEF Removed
  <1>7. N.next[t[n]] = NULL
    <2>1. CASE k = n + 1
      BY <1>1, <1>2, <1>3, <1>4, <2>1
    <2>2. CASE k < n + 1
      BY <1>1, <1>2, <1>3, <1>4, <2>2
    <2> QED BY <1>1, <2>1, <2>2
  <1>8. ASSUME NEW i \in 1 .. n - 1 PROVE N.next[t[i]] = t[i + 1]
    <2>1. i \in 1 .. n /\ i + 1 \in 1 .. n /\ i + 1 \in 1 .. n + 1
      BY <1>1
    <2>2. CASE i < k - 1
      <3>1. i # k - 1 /\ t[i] = s[i] /\ t[i + 1] = s[i + 1] /\ i \in 1 .. n + 1
        BY <1>1, <1>2, <2>1, <2>2
      <3> QED BY <1>3, <1>4, <2>1, <3>1
    <2>3. CASE i = k - 1
      BY <1>1, <1>2, <1>3, <1>4, <2>1, <2>3
    <2>4. CASE i > k - 1
      <3>1. i + 1 # k - 1 /\ t[i] = s[i + 1] /\ t[i + 1] = s[(i + 1) + 1]
        BY <1>1, <1>2, <2>1, <2>4
      <3> QED BY <1>3, <1>4, <2>1, <3>1
    <2> QED BY <1>1, <2>2, <2>3, <2>4
  <1>9. t # <<>>
    BY <1>1
  <1> QED BY <1>1, <1>6, <1>7, <1>8, <1>9 DEF Spells

\* A hole that is the head of its list and the tail has no hole behind it.
LEMMA HeadTail ==
    ASSUME NEW Node, NEW List, NULL \notin Node, NEW M, NEW at,
           Keeps(M, Node, List, at), NEW q \in List,
           NEW h \in Node, M.head[q] = h, M.tail[q] = h
    PROVE  M.next[h] = NULL
  <1>1. PICK s \in [List -> Seq(Node)] : Spelt(M, Node, List, at, s)
    BY DEF Keeps
  <1>2. Spells(M, q, s[q])
    BY <1>1 DEF Spelt
  <1> QED BY <1>2 DEF Spells

\* One hole of q points at h, and q without h is kept when it points past h.
RemovedFrom(M, Node, List, at, q, h) ==
    /\ \E p \in Node : at[p] = q /\ M.next[p] = h
    /\ \A p \in Node : at[p] = q /\ M.next[p] = h =>
         KeepsHeads([M EXCEPT !.next = [@ EXCEPT ![p] = M.next[h]]],
                    Node, List, [at EXCEPT ![h] = NULL])

\* hole_delete2 of a hole behind another, the tails being right.
LEMMA RemoveKeeps ==
    ASSUME NEW Node, NEW List, NULL \notin Node, NULL \notin List,
           NEW M \in Stores(Node, List), NEW at \in [Node -> List \cup {NULL}],
           Keeps(M, Node, List, at),
           NEW q \in List, NEW h \in Node, at[h] = q, M.head[q] # h
    PROVE  RemovedFrom(M, Node, List, at, q, h)
  <1>1. PICK s \in [List -> Seq(Node)] : Spelt(M, Node, List, at, s)
    BY DEF Keeps
  <1>2. \A r \in List : /\ s[r] \in Seq(Node) /\ Spells(M, r, s[r]) /\ Distinct(s[r])
                        /\ \A x \in Node : On(s[r], x) <=> at[x] = r
    BY <1>1 DEF Spelt
  <1> DEFINE u == s[q]
             n == Len(u)
  <1>3. /\ u \in Seq(Node) /\ Spells(M, q, u) /\ Distinct(u) /\ n \in Nat
        /\ \A i \in 1 .. n : u[i] \in Node /\ at[u[i]] = q
    <2>1. u \in Seq(Node) /\ Spells(M, q, u) /\ Distinct(u) /\ n \in Nat
      BY <1>2
    <2>2. \A i \in 1 .. n : u[i] \in Node /\ at[u[i]] = q
      BY <1>1, Disjoint
    <2> QED BY <2>1, <2>2
  <1>4. PICK k \in 1 .. n : u[k] = h
    BY <1>2 DEF On
  <1> HIDE DEF u, n
  <1>5. /\ u # <<>> /\ M.head[q] = u[1] /\ M.next[u[n]] = NULL
        /\ \A i \in 1 .. n - 1 : M.next[u[i]] = u[i + 1]
    <2>1. u = <<>> => Len(u) = 0
      OBVIOUS
    <2>2. u # <<>>
      BY <1>4, <2>1 DEF n
    <2> QED BY <1>3, <2>2 DEF Spells, n
  <1>6. k \in 2 .. n /\ k - 1 \in 1 .. n /\ k - 1 \in 1 .. n - 1
    <2>1. k # 1
      BY <1>4, <1>5
    <2> QED BY <1>3, <2>1
  <1>7. M.next[u[k - 1]] = h /\ u[k - 1] \in Node /\ at[u[k - 1]] = q
    <2>1. M.next[u[k - 1]] = u[(k - 1) + 1] /\ (k - 1) + 1 = k
      BY <1>5, <1>6
    <2> QED BY <1>3, <1>4, <1>6, <2>1
  <1>8. ASSUME NEW p \in Node, at[p] = q, M.next[p] = h
        PROVE  KeepsHeads([M EXCEPT !.next = [@ EXCEPT ![p] = M.next[h]]],
                          Node, List, [at EXCEPT ![h] = NULL])
    <2>1. p = u[k - 1]
      <3>1. PICK i \in 1 .. n : u[i] = p
        BY <1>2, <1>8 DEF On, u, n
      <3>2. i # n
        BY <1>5, <1>8, <3>1
      <3>3. u[i + 1] = h /\ i + 1 \in 1 .. n
        BY <1>3, <1>5, <1>8, <3>1, <3>2
      <3>4. i + 1 = k
        BY <1>3, <1>4, <3>3 DEF Distinct, n
      <3> QED BY <3>1, <3>4, <1>3
    <2> DEFINE t == [M.tail EXCEPT ![q] = IF k = n THEN u[k - 1] ELSE @]
               N == [[M EXCEPT !.next = [@ EXCEPT ![p] = M.next[h]]] EXCEPT !.tail = t]
               b == [at EXCEPT ![h] = NULL]
               v == [i \in 1 .. n - 1 |-> IF i < k THEN u[i] ELSE u[i + 1]]
               w == [s EXCEPT ![q] = v]
    <2>2. t \in [List -> Node \cup {NULL}]
      BY <1>7 DEF Stores
    <2>3. /\ N.head = M.head /\ N.tail = t
          /\ N.next = [M.next EXCEPT ![u[k - 1]] = M.next[u[k]]]
      BY <1>4, <2>1 DEF Stores
    <2>10. /\ v \in Seq(Node) /\ Len(v) = Len(u) - 1
           /\ \A i \in 1 .. Len(u) - 1 : v[i] = IF i < k THEN u[i] ELSE u[i + 1]
           /\ k \in 2 .. Len(u)
      <3>1. n \in Nat /\ n >= 1 /\ n = Len(u) /\ k \in 2 .. n
        BY <1>3, <1>6 DEF n
      <3>2. \A i \in 1 .. n : u[i] \in Node
        BY <1>3
      <3>3. v \in [1 .. n - 1 -> Node]
        BY <3>1, <3>2
      <3>5. n - 1 \in Nat
        BY <3>1
      <3> HIDE DEF v
      <3>6. v \in Seq(Node)
        BY <3>3, <3>5, SeqDef
      <3>4. Len(v) = n - 1
        BY <3>3, <3>5, <3>6, LenProperties
      <3>7. \A i \in 1 .. n - 1 : v[i] = IF i < k THEN u[i] ELSE u[i + 1]
        BY DEF v
      <3> QED BY <3>1, <3>4, <3>6, <3>7
    <2>4. Spells(N, q, v)
      <3>1. /\ N.head[q] = M.head[q]
            /\ N.tail[q] = IF k = Len(u) THEN u[k - 1] ELSE M.tail[q]
        BY <2>3 DEF n, Stores
      <3>2. ASSUME NEW i \in 1 .. Len(u)
            PROVE  N.next[u[i]] = IF i = k - 1 THEN M.next[u[k]] ELSE M.next[u[i]]
        <4>1. /\ k - 1 \in 1 .. Len(u) /\ u[i] \in Node /\ u[k - 1] \in Node
              /\ u[i] = u[k - 1] <=> i = k - 1
          BY <1>3, <1>6 DEF n, Distinct
        <4> QED BY <2>3, <4>1 DEF Stores
      <3>3. u \in Seq(Node) /\ Spells(M, q, u)
        BY <1>3
      <3> HIDE DEF N, v, t
      <3>4. Removed(M, N, q, u, k)
        BY <3>1, <3>2 DEF Removed
      <3> QED BY <2>10, <3>3, <3>4, RemoveSpells
    <2>5. /\ v \in Seq(Node) /\ Distinct(v)
          /\ \A x : On(v, x) <=> On(u, x) /\ x # h
      <3>2. u \in Seq(Node) /\ Distinct(u)
        BY <1>3
      <3> HIDE DEF v
      <3>3. /\ v \in Seq(Node) /\ Distinct(v)
            /\ \A x : On(v, x) <=> On(u, x) /\ x # u[k]
        BY <2>10, <3>2, RemoveOn
      <3> QED BY <1>4, <3>3
    <2>6. w \in [List -> Seq(Node)] /\ w[q] = v /\ \A r \in List \ {q} : w[r] = s[r]
      BY <2>5
    <2>7. \A x \in Node, r \in List : b[x] = r <=> x # h /\ at[x] = r
      OBVIOUS
    <2> HIDE DEF N, b, v, w, t
    <2>8. ASSUME NEW r \in List
          PROVE  /\ Spells(N, r, w[r]) /\ Distinct(w[r])
                 /\ \A x \in Node : On(w[r], x) <=> b[x] = r
      <3>1. CASE r = q
        BY <1>2, <2>4, <2>5, <2>6, <2>7, <3>1 DEF u
      <3>2. CASE r # q
        <4>1. w[r] = s[r] /\ Len(s[r]) \in Nat /\ (s[r] # <<>> => Len(s[r]) > 0)
          BY <1>2, <2>6, <3>2
        <4>2. N.head[r] = M.head[r] /\ N.tail[r] = M.tail[r]
          BY <2>3, <3>2 DEF t, Stores
        <4>3. ASSUME NEW i \in 1 .. Len(s[r]) PROVE N.next[s[r][i]] = M.next[s[r][i]]
          <5>1. s[r][i] \in Node /\ at[s[r][i]] = r
            BY <1>1, Disjoint
          <5> QED BY <1>7, <2>3, <3>2, <5>1 DEF Stores
        <4>4. Spells(N, r, s[r])
          BY <1>2, <4>1, <4>2, <4>3, SameLinks
        <4>5. \A x \in Node : On(s[r], x) <=> b[x] = r
          BY <1>2, <2>7, <3>2
        <4> QED BY <1>2, <4>1, <4>4, <4>5
      <3> QED BY <3>1, <3>2
    <2>9. Keeps(N, Node, List, b)
      <3>1. Spelt(N, Node, List, b, w)
        BY <2>8 DEF Spelt
      <3>2. w \in [List -> Seq(Node)]
        BY <2>6
      <3> QED BY <3>1, <3>2 DEF Keeps
    <2> QED BY <2>2, <2>9 DEF N, b, KeepsHeads
  <1> QED BY <1>7, <1>8 DEF RemovedFrom
-----------------------------------------------------------------------------
(* The lists of holes. *)

\* A hole that is on no list goes to the head of q.
LEMMA EnqueueListed ==
    ASSUME NEW L, NEW at, Listed(L, at), NEW q \in HoleList, NEW h \in Hole,
           at[h] = NULL
    PROVE  Listed(enqueue_head(L, q, h), [at EXCEPT ![h] = q])
  <1>1. PICK t \in [HoleList -> Hole \cup {NULL}] :
            Keeps([L EXCEPT !.tail = t], Hole, HoleList, at)
    BY DEF Listed, KeepsHeads
  <1> DEFINE M == [L EXCEPT !.tail = t]
             E == enqueue_head(L, q, h)
             N == enqueue_head(M, q, h)
  <1>2. /\ L \in Stores(Hole, HoleList) /\ M \in Stores(Hole, HoleList)
        /\ at \in [Hole -> HoleList \cup {NULL}]
    BY DEF Listed, Stores
  <1>3. Keeps(N, Hole, HoleList, [at EXCEPT ![h] = q])
    <2>1. Keeps(M, Hole, HoleList, at)
      BY <1>1
    <2> HIDE DEF M
    <2> QED BY <1>2, <2>1, HoleConstants, EnqueueKeeps
  <1>4. /\ E \in Stores(Hole, HoleList) /\ N \in Stores(Hole, HoleList)
        /\ N = [E EXCEPT !.tail = N.tail]
    BY <1>2 DEF enqueue_head, Stores
  <1>5. N.tail \in [HoleList -> Hole \cup {NULL}]
    <2> HIDE DEF N
    <2> QED BY <1>4 DEF Stores
  <1>6. [at EXCEPT ![h] = q] \in [Hole -> HoleList \cup {NULL}]
    BY <1>2
  <1> HIDE DEF E, N
  <1> QED BY <1>3, <1>4, <1>5, <1>6 DEF Listed, KeepsHeads, E

\* The list q after the hole h has left it: others may have left it as well.
Without(at, b, q, h) ==
    /\ b \in [Hole -> HoleList \cup {NULL}]
    /\ b[h] = NULL
    /\ \A x \in Hole : b[x] = at[x] \/ (at[x] = q /\ b[x] = NULL)

\* A hole leaves the list it is on.
LEMMA DeleteListed ==
    ASSUME NEW L, NEW at, Listed(L, at), NEW q \in HoleList, NEW h \in Hole, at[h] = q
    PROVE  \E b : Listed(hole_delete(L, q, h), b) /\ Without(at, b, q, h)
  <1>1. PICK t \in [HoleList -> Hole \cup {NULL}] :
            Keeps([L EXCEPT !.tail = t], Hole, HoleList, at)
    BY DEF Listed, KeepsHeads
  <1> DEFINE M == [L EXCEPT !.tail = t]
             D == hole_delete(L, q, h)
             b == [at EXCEPT ![h] = NULL]
             e == [x \in Hole |-> IF at[x] = q THEN NULL ELSE at[x]]
  <1>2. /\ L \in Stores(Hole, HoleList) /\ M \in Stores(Hole, HoleList)
        /\ at \in [Hole -> HoleList \cup {NULL}]
        /\ M.head = L.head /\ M.next = L.next /\ M.tail = t
    BY DEF Listed, Stores
  <1>3. Keeps(M, Hole, HoleList, at)
    BY <1>1
  <1>4. Without(at, b, q, h) /\ Without(at, e, q, h)
    BY <1>2 DEF Without
  <1> HIDE DEF M
  <1>5. CASE L.head[q] # h
    <2>1. OnList(L, q) = {x \in Hole : at[x] = q}
      BY ListedMembers
    <2> DEFINE p == CHOOSE x \in OnList(L, q) : L.next[x] = h
    <2>2. /\ \E x \in Hole : at[x] = q /\ M.next[x] = h
          /\ \A x \in Hole : at[x] = q /\ M.next[x] = h =>
               KeepsHeads([M EXCEPT !.next = [@ EXCEPT ![x] = M.next[h]]],
                          Hole, HoleList, b)
      <3>1. NULL \notin Hole /\ NULL \notin HoleList
        BY HoleConstants
      <3>2. M.head[q] # h
        BY <1>2, <1>5
      <3>3. RemovedFrom(M, Hole, HoleList, at, q, h)
        BY <1>2, <1>3, <3>1, <3>2, RemoveKeeps
      <3> QED BY <3>3 DEF RemovedFrom
    <2>3. p \in Hole /\ at[p] = q /\ L.next[p] = h
      BY <1>2, <2>1, <2>2
    <2>4. D = [L EXCEPT !.next = [@ EXCEPT ![p] = L.next[h]]]
      BY <1>5 DEF hole_delete
    <2> HIDE DEF p
    <2>5. PICK u \in [HoleList -> Hole \cup {NULL}] :
              Keeps([[M EXCEPT !.next = [@ EXCEPT ![p] = M.next[h]]] EXCEPT !.tail = u],
                    Hole, HoleList, b)
      BY <1>2, <2>2, <2>3 DEF KeepsHeads
    <2>6. [D EXCEPT !.tail = u]
            = [[M EXCEPT !.next = [@ EXCEPT ![p] = M.next[h]]] EXCEPT !.tail = u]
      BY <1>2, <2>4 DEF Stores, M
    <2>7. D \in Stores(Hole, HoleList)
      BY <1>2, <2>4 DEF Stores
    <2>8. Keeps([D EXCEPT !.tail = u], Hole, HoleList, b)
      BY <2>5, <2>6
    <2> HIDE DEF D, b
    <2>9. Listed(D, b)
      BY <1>4, <2>7, <2>8 DEF Listed, KeepsHeads, Without
    <2> QED BY <1>4, <2>9 DEF D
  <1>6. CASE L.head[q] = h /\ L.head[q] = L.tail[q]
    <2>1. D = [L EXCEPT !.head = [@ EXCEPT ![q] = NULL], !.tail = [@ EXCEPT ![q] = NULL]]
      BY <1>6 DEF hole_delete
    <2> DEFINE u == [t EXCEPT ![q] = NULL]
               N == [D EXCEPT !.tail = u]
    <2>2. D \in Stores(Hole, HoleList) /\ u \in [HoleList -> Hole \cup {NULL}]
      <3>1. /\ [L.head EXCEPT ![q] = NULL] \in [HoleList -> Hole \cup {NULL}]
            /\ [L.tail EXCEPT ![q] = NULL] \in [HoleList -> Hole \cup {NULL}]
            /\ u \in [HoleList -> Hole \cup {NULL}]
        BY <1>2 DEF Stores
      <3> HIDE DEF D, u
      <3> QED BY <1>2, <2>1, <3>1 DEF Stores
    <2>3. /\ N.next = M.next
          /\ N.head[q] = NULL /\ N.tail[q] = NULL
          /\ \A r \in HoleList \ {q} : N.head[r] = M.head[r] /\ N.tail[r] = M.tail[r]
      BY <1>2, <2>1 DEF Stores
    <2>4. \A r \in HoleList, x \in Hole : e[x] = r <=> r # q /\ at[x] = r
      BY HoleConstants
    <2> HIDE DEF N, e, D
    <2>5. Keeps(N, Hole, HoleList, e)
      <3>1. \A r \in HoleList :
              \/ /\ N.head[r] = M.head[r] /\ N.tail[r] = M.tail[r]
                 /\ \A x \in Hole : /\ at[x] = r => N.next[x] = M.next[x]
                                    /\ e[x] = r <=> at[x] = r
              \/ /\ N.head[r] = NULL /\ N.tail[r] = NULL
                 /\ \A x \in Hole : e[x] # r
        BY <2>3, <2>4
      <3> QED BY <1>3, <3>1, Agree
    <2>6. Listed(D, e)
      BY <1>4, <2>2, <2>5 DEF Listed, KeepsHeads, Without, N
    <2> QED BY <1>4, <2>6 DEF D
  <1>7. CASE L.head[q] = h /\ L.head[q] # L.tail[q]
    <2>1. D = [L EXCEPT !.head = [@ EXCEPT ![q] = L.next[h]]]
      BY <1>7 DEF hole_delete
    <2> DEFINE N == dequeue(M, q)
               K == [D EXCEPT !.tail = N.tail]
    <2>2. Keeps(N, Hole, HoleList, b) /\ N \in Stores(Hole, HoleList)
      <3>1. M.head[q] = h /\ h # NULL
        BY <1>2, <1>7, HoleConstants
      <3>2. Keeps(N, Hole, HoleList, [at EXCEPT ![M.head[q]] = NULL])
        <4>1. NULL \notin Hole /\ NULL \notin HoleList /\ M.head[q] # NULL
          BY <3>1, HoleConstants
        <4> HIDE DEF N
        <4> QED BY <1>2, <1>3, <4>1, DequeueKeeps DEF N
      <3>3. N \in Stores(Hole, HoleList)
        <4>1. CASE h = M.tail[q]
          BY <1>2, <3>1, <4>1 DEF dequeue, Stores
        <4>2. CASE h # M.tail[q]
          <5>1. N = [M EXCEPT !.head = [@ EXCEPT ![q] = M.next[h]],
                              !.next = [@ EXCEPT ![h] = NULL]]
            BY <3>1, <4>2 DEF dequeue
          <5>2. /\ [M.head EXCEPT ![q] = M.next[h]] \in [HoleList -> Hole \cup {NULL}]
                /\ [M.next EXCEPT ![h] = NULL] \in [Hole -> Hole \cup {NULL}]
            BY <1>2 DEF Stores
          <5> HIDE DEF N
          <5> QED BY <1>2, <5>1, <5>2 DEF Stores
        <4> QED BY <4>1, <4>2
      <3> QED BY <3>1, <3>2, <3>3
    <2>3. D \in Stores(Hole, HoleList) /\ N.tail \in [HoleList -> Hole \cup {NULL}]
      <3> HIDE DEF N
      <3> QED BY <1>2, <2>1, <2>2 DEF Stores
    <2>4. h = M.tail[q] => M.next[h] = NULL
      BY <1>2, <1>3, <1>7, HoleConstants, HeadTail
    <2>5. K.head = N.head /\ K.tail = N.tail
      <3>1. K.tail = N.tail /\ K.head = D.head
        BY <1>2, <2>1 DEF Stores
      <3>2. N.head = [M.head EXCEPT ![q] = M.next[h]]
        BY <1>2, <1>7, <2>4, HoleConstants DEF dequeue, Stores
      <3> QED BY <1>2, <2>1, <3>1, <3>2 DEF Stores
    <2>6. \A x \in Hole : x # h => K.next[x] = N.next[x]
      BY <1>2, <1>7, <2>1, HoleConstants DEF dequeue, Stores
    <2>7. b[h] = NULL
      BY <1>4 DEF Without
    <2> HIDE DEF N, K, b, D
    <2>8. Keeps(K, Hole, HoleList, b)
      <3>1. \A r \in HoleList :
              /\ K.head[r] = N.head[r] /\ K.tail[r] = N.tail[r]
              /\ \A x \in Hole : /\ b[x] = r => K.next[x] = N.next[x]
                                 /\ b[x] = r <=> b[x] = r
        BY <2>5, <2>6, <2>7, HoleConstants
      <3> QED BY <2>2, <3>1, Agree
    <2>9. Listed(D, b)
      BY <1>4, <2>3, <2>8 DEF Listed, KeepsHeads, Without, K
    <2> QED BY <1>4, <2>9 DEF D
  <1> QED BY <1>5, <1>6, <1>7

\* The head of q leaves it.
LEMMA DequeueListed ==
    ASSUME NEW L, NEW at, Listed(L, at), NEW q \in HoleList, L.head[q] # NULL
    PROVE  /\ L.head[q] \in Hole /\ at[L.head[q]] = q
           /\ \E b : Listed(dequeue(L, q), b) /\ Without(at, b, q, L.head[q])
  <1>1. PICK t \in [HoleList -> Hole \cup {NULL}] :
            Keeps([L EXCEPT !.tail = t], Hole, HoleList, at)
    BY DEF Listed, KeepsHeads
  <1> DEFINE h == L.head[q]
             M == [L EXCEPT !.tail = t]
             D == dequeue(L, q)
             b == [at EXCEPT ![h] = NULL]
             e == [x \in Hole |-> IF at[x] = q THEN NULL ELSE at[x]]
  <1>2. /\ L \in Stores(Hole, HoleList) /\ M \in Stores(Hole, HoleList)
        /\ at \in [Hole -> HoleList \cup {NULL}]
        /\ M.head = L.head /\ M.next = L.next /\ M.tail = t
    BY DEF Listed, Stores
  <1>3. Keeps(M, Hole, HoleList, at)
    BY <1>1
  <1>c. NULL \notin Hole /\ NULL \notin HoleList
    BY HoleConstants
  <1>d. h # NULL /\ M.head[q] = h
    BY <1>2
  <1> HIDE DEF M
  <1>4. h \in Hole /\ at[h] = q
    BY <1>2, <1>3, <1>c, <1>d, HeadKept
  <1> HIDE DEF h
  <1>5. Without(at, b, q, h) /\ Without(at, e, q, h)
    BY <1>2, <1>4 DEF Without
  <1>6. [L.next EXCEPT ![h] = NULL] \in [Hole -> Hole \cup {NULL}]
    BY <1>2 DEF Stores
  <1>7. CASE h = L.tail[q]
    <2>1. D = [L EXCEPT !.head = [@ EXCEPT ![q] = NULL],
                        !.tail = [@ EXCEPT ![q] = NULL],
                        !.next = [@ EXCEPT ![h] = NULL]]
      BY <1>7, <1>d DEF dequeue, h
    <2> DEFINE u == [t EXCEPT ![q] = NULL]
               N == [D EXCEPT !.tail = u]
    <2>2. D \in Stores(Hole, HoleList) /\ u \in [HoleList -> Hole \cup {NULL}]
      <3>1. /\ [L.head EXCEPT ![q] = NULL] \in [HoleList -> Hole \cup {NULL}]
            /\ [L.tail EXCEPT ![q] = NULL] \in [HoleList -> Hole \cup {NULL}]
            /\ u \in [HoleList -> Hole \cup {NULL}]
        BY <1>2 DEF Stores
      <3> HIDE DEF D, u
      <3> QED BY <1>2, <1>6, <2>1, <3>1 DEF Stores
    <2>3. /\ \A x \in Hole : x # h => N.next[x] = M.next[x]
          /\ N.head[q] = NULL /\ N.tail[q] = NULL
          /\ \A r \in HoleList \ {q} : N.head[r] = M.head[r] /\ N.tail[r] = M.tail[r]
      BY <1>2, <2>1 DEF Stores
    <2>4. \A r \in HoleList, x \in Hole : e[x] = r <=> r # q /\ at[x] = r
      BY <1>c
    <2> HIDE DEF N, e, D
    <2>5. Keeps(N, Hole, HoleList, e)
      <3>1. \A r \in HoleList :
              \/ /\ N.head[r] = M.head[r] /\ N.tail[r] = M.tail[r]
                 /\ \A x \in Hole : /\ at[x] = r => N.next[x] = M.next[x]
                                    /\ e[x] = r <=> at[x] = r
              \/ /\ N.head[r] = NULL /\ N.tail[r] = NULL
                 /\ \A x \in Hole : e[x] # r
        BY <1>4, <2>3, <2>4
      <3> QED BY <1>3, <3>1, Agree
    <2>6. Listed(D, e)
      BY <1>5, <2>2, <2>5 DEF Listed, KeepsHeads, Without, N
    <2> QED BY <1>4, <1>5, <2>6 DEF D, h
  <1>8. CASE h # L.tail[q]
    <2>1. D = [L EXCEPT !.head = [@ EXCEPT ![q] = L.next[h]],
                        !.next = [@ EXCEPT ![h] = NULL]]
      BY <1>8, <1>d DEF dequeue, h
    <2> DEFINE N == dequeue(M, q)
    <2>2. Keeps(N, Hole, HoleList, b)
      <3>1. M.head[q] # NULL
        BY <1>d
      <3>2. Keeps(N, Hole, HoleList, [at EXCEPT ![M.head[q]] = NULL])
        BY <1>2, <1>3, <1>c, <3>1, DequeueKeeps
      <3> QED BY <1>d, <3>2
    <2>3. h = M.tail[q] => M.next[h] = NULL
      BY <1>3, <1>4, <1>c, <1>d, HeadTail
    <2>4. /\ N.head = [M.head EXCEPT ![q] = M.next[h]]
          /\ N.next = [M.next EXCEPT ![h] = NULL]
          /\ N.tail \in [HoleList -> Hole \cup {NULL}]
          /\ N = [D EXCEPT !.tail = N.tail]
      <3>1. CASE h = M.tail[q]
        <4>1. N = [M EXCEPT !.head = [@ EXCEPT ![q] = NULL],
                            !.tail = [@ EXCEPT ![q] = NULL],
                            !.next = [@ EXCEPT ![h] = NULL]]
          BY <1>d, <3>1 DEF dequeue
        <4>2. /\ N.head = [M.head EXCEPT ![q] = NULL]
              /\ N.next = [M.next EXCEPT ![h] = NULL]
              /\ N.tail = [M.tail EXCEPT ![q] = NULL]
              /\ N = [M EXCEPT !.head = N.head, !.next = N.next, !.tail = N.tail]
          BY <1>2, <4>1 DEF Stores
        <4> HIDE DEF N
        <4>3. N.tail \in [HoleList -> Hole \cup {NULL}]
          BY <1>2, <4>2 DEF Stores
        <4>4. N = [D EXCEPT !.tail = N.tail]
          <5>1. L.next[h] = NULL
            BY <1>2, <2>3, <3>1
          <5>2. D = [L EXCEPT !.head = N.head, !.next = N.next]
            BY <1>2, <2>1, <4>2, <5>1
          <5>3. N = [L EXCEPT !.head = N.head, !.next = N.next, !.tail = N.tail]
            BY <1>2, <4>2 DEF Stores, M
          <5> QED BY <1>2, <5>2, <5>3 DEF Stores
        <4> QED BY <2>3, <3>1, <4>2, <4>3, <4>4
      <3>2. CASE h # M.tail[q]
        <4>1. N = [M EXCEPT !.head = [@ EXCEPT ![q] = M.next[h]],
                            !.next = [@ EXCEPT ![h] = NULL]]
          BY <1>d, <3>2 DEF dequeue
        <4>2. /\ N.head = [M.head EXCEPT ![q] = M.next[h]]
              /\ N.next = [M.next EXCEPT ![h] = NULL]
              /\ N.tail = M.tail
              /\ N = [M EXCEPT !.head = N.head, !.next = N.next, !.tail = N.tail]
          BY <1>2, <4>1 DEF Stores
        <4> HIDE DEF N
        <4>3. N.tail \in [HoleList -> Hole \cup {NULL}]
          BY <1>2, <4>2 DEF Stores
        <4>4. N = [D EXCEPT !.tail = N.tail]
          BY <1>2, <2>1, <4>2 DEF Stores, M
        <4> QED BY <4>2, <4>3, <4>4
      <3> QED BY <3>1, <3>2
    <2>5. D \in Stores(Hole, HoleList)
      <3>1. [L.head EXCEPT ![q] = L.next[h]] \in [HoleList -> Hole \cup {NULL}]
        BY <1>2, <1>4 DEF Stores
      <3> HIDE DEF D
      <3> QED BY <1>2, <1>6, <2>1, <3>1 DEF Stores
    <2> HIDE DEF N, D, b
    <2>6. Listed(D, b)
      BY <1>5, <2>2, <2>4, <2>5 DEF Listed, KeepsHeads, Without
    <2> QED BY <1>4, <1>5, <2>6 DEF D, h
  <1> QED BY <1>7, <1>8

\* First finds a hole of the list that is in S, or there is none.
LEMMA FirstIn ==
    ASSUME NEW L, NEW q, NEW S, NULL \notin S
    PROVE  \/ First(L, q, S) = NULL /\ OnList(L, q) \cap S = {}
           \/ First(L, q, S) \in OnList(L, q) \cap S
  <1> DEFINE c == Chain(L, q)
             hits == {n \in 0 .. NUM_HOLES : c[n] \in S}
  <1>1. /\ First(L, q, S) = IF hits = {} THEN NULL ELSE c[Min(hits)]
        /\ OnList(L, q) = {c[n] : n \in 0 .. NUM_HOLES} \ {NULL}
    BY DEF First, OnList, Members
  <1> HIDE DEF c
  <1>2. CASE hits = {}
    BY <1>1, <1>2
  <1>3. CASE hits # {}
    <2>1. hits \subseteq Nat
      OBVIOUS
    <2> HIDE DEF hits
    <2>2. \E m \in hits : \A n \in hits : m <= n
      BY <1>3, <2>1, Least
    <2>3. Min(hits) \in hits
      BY <2>2 DEF Min
    <2>4. c[Min(hits)] \in S /\ c[Min(hits)] # NULL
          /\ c[Min(hits)] \in {c[n] : n \in 0 .. NUM_HOLES}
      BY <2>3 DEF hits
    <2> QED BY <1>1, <1>3, <2>4
  <1> QED BY <1>2, <1>3

-----------------------------------------------------------------------------
(* The memory the holes and the blocks describe. *)

\* Two pieces of memory share no word.
Apart(s, l, r, m) == l = 0 \/ m = 0 \/ s + l <= r \/ r + m <= s

\* Below FREE_MEM_BEGIN, if the piece has a word.
Below(s, l) == l = 0 \/ (ORIGIN <= s /\ s + l <= FREE_MEM_BEGIN)

Active == {"unused", "used"}

\* The holes that describe memory, each a word or more below FREE_MEM_BEGIN.
HolesApart(at) ==
    /\ \A h \in Hole : at[h] \in Active => /\ length[h] >= 1
                                           /\ Below(start[h], length[h])
    /\ \A g, h \in Hole : at[g] \in Active /\ at[h] \in Active /\ g # h =>
         Apart(start[g], length[g], start[h], length[h])

\* The blocks handed out; a used hole describes one of them.
BlocksApart(at) ==
    /\ \A a \in allocated : Below(a.start, a.length)
    /\ \A a, b \in allocated : a # b => Apart(a.start, a.length, b.start, b.length)
    /\ \A a \in allocated, h \in Hole : at[h] = "unused" =>
         Apart(a.start, a.length, start[h], length[h])
    /\ \A h \in Hole : at[h] = "used" =>
         Block(start[h], length[h], "malloc") \in allocated

BoundsOK ==
    /\ FREE_MEM_BEGIN \in ORIGIN .. LAST /\ FREE_MEM_END \in {0, LAST}
    /\ start \in [Hole -> Word] /\ length \in [Hole -> Word]
    /\ status \in {"running", "wild"}
    /\ allocated \subseteq [start : Word, length : Word, by : {"malloc", "sbrk"}]

HInv == /\ BoundsOK
        /\ \E at : Listed(holes, at) /\ HolesApart(at) /\ BlocksApart(at)

LEMMA Modulo ==
    ASSUME NEW x \in Nat, NEW m \in Nat, x < m
    PROVE  x % m = x
  OBVIOUS

\* What _sbrk takes ends at LAST or below: before the scan because the machine
\* has the memory, afterwards because _sbrk compares.
LEMMA SbrkTakes ==
    ASSUME BoundsOK, NEW size \in Word, LAST + size < SIZE_LIMIT,
           EnoughMemory(size), ~SbrkFails(size)
    PROVE  /\ AfterSbrk(size) = FREE_MEM_BEGIN + size
           /\ FREE_MEM_BEGIN + size \in ORIGIN .. LAST
  <1>1. /\ size \in Nat /\ size \in Word /\ LAST \in Nat /\ SIZE_LIMIT \in Nat
        /\ ORIGIN \in Nat /\ FREE_MEM_BEGIN \in ORIGIN .. LAST
        /\ LAST + size < SIZE_LIMIT
    BY MemoryAssumption DEF Word, BoundsOK
  <1>2. /\ (FREE_MEM_BEGIN + size) % SIZE_LIMIT = FREE_MEM_BEGIN + size
        /\ (size + FREE_MEM_BEGIN) % SIZE_LIMIT = size + FREE_MEM_BEGIN
    <2>1. FREE_MEM_BEGIN + size \in Nat /\ FREE_MEM_BEGIN + size < SIZE_LIMIT
          /\ size + FREE_MEM_BEGIN = FREE_MEM_BEGIN + size
      BY <1>1
    <2> QED BY <1>1, <2>1, Modulo
  <1>3. CASE FREE_MEM_END = 0
    BY <1>1, <1>2, <1>3 DEF EnoughMemory, AfterSbrk
  <1>4. CASE FREE_MEM_END # 0
    <2>1. FREE_MEM_END = LAST
      BY <1>4 DEF BoundsOK
    <2>2. ~(size + FREE_MEM_BEGIN > LAST)
      BY <1>2, <1>4, <2>1 DEF SbrkFails
    <2> QED BY <1>1, <1>2, <2>2 DEF AfterSbrk
  <1> QED BY <1>3, <1>4

\* The list of h changes to r; other holes may have left the list q h was on.
Moved(at, c, q, h, r) ==
    /\ c[h] = r
    /\ \A x \in Hole \ {h} : c[x] = at[x] \/ (at[x] = q /\ c[x] = NULL)

LEMMA DeleteMoves ==
    ASSUME NEW L, NEW at, Listed(L, at), NEW q \in HoleList, NEW r \in HoleList,
           NEW h \in Hole, at[h] = q
    PROVE  \E c : Listed(enqueue_head(hole_delete(L, q, h), r, h), c)
                  /\ Moved(at, c, q, h, r)
  <1>1. PICK b : Listed(hole_delete(L, q, h), b) /\ Without(at, b, q, h)
    BY DeleteListed
  <1>2. b[h] = NULL /\ b \in [Hole -> HoleList \cup {NULL}]
    BY <1>1 DEF Without
  <1>3. Listed(enqueue_head(hole_delete(L, q, h), r, h), [b EXCEPT ![h] = r])
    BY <1>1, <1>2, EnqueueListed
  <1>4. Moved(at, [b EXCEPT ![h] = r], q, h, r)
    BY <1>1, <1>2 DEF Moved, Without
  <1> QED BY <1>3, <1>4

LEMMA DequeueMoves ==
    ASSUME NEW L, NEW at, Listed(L, at), NEW q \in HoleList, NEW r \in HoleList,
           NEW h, h = L.head[q], h # NULL
    PROVE  /\ h \in Hole /\ at[h] = q
           /\ \E c : Listed(enqueue_head(dequeue(L, q), r, h), c)
                     /\ Moved(at, c, q, h, r)
  <1>1. /\ h \in Hole /\ at[h] = q
        /\ \E b : Listed(dequeue(L, q), b) /\ Without(at, b, q, h)
    BY DequeueListed
  <1>2. PICK b : Listed(dequeue(L, q), b) /\ Without(at, b, q, h)
    BY <1>1
  <1>3. b[h] = NULL /\ b \in [Hole -> HoleList \cup {NULL}]
    BY <1>2 DEF Without
  <1>4. Listed(enqueue_head(dequeue(L, q), r, h), [b EXCEPT ![h] = r])
    BY <1>1, <1>2, <1>3, EnqueueListed
  <1>5. Moved(at, [b EXCEPT ![h] = r], q, h, r)
    BY <1>1, <1>2, <1>3 DEF Moved, Without
  <1> QED BY <1>1, <1>4, <1>5

\* What Apart says of the integers the fields hold.
LEMMA Facts ==
    ASSUME BoundsOK
    PROVE  /\ ORIGIN \in Nat /\ LAST \in Nat /\ SIZE_LIMIT \in Nat /\ LAST < SIZE_LIMIT
           /\ FREE_MEM_BEGIN \in Nat /\ FREE_MEM_BEGIN >= ORIGIN /\ FREE_MEM_BEGIN <= LAST
           /\ ORIGIN > 0
           /\ \A x \in Word : x \in Nat /\ x < SIZE_LIMIT
           /\ \A x \in Nat : x < SIZE_LIMIT => x \in Word
           /\ \A h \in Hole : start[h] \in Nat /\ length[h] \in Nat
           /\ \A h \in Hole : start[h] \in Word /\ length[h] \in Word
           /\ \A a \in allocated : a.start \in Nat /\ a.length \in Nat
  BY MemoryAssumption DEF BoundsOK, Word

LEMMA BlockFields ==
    ASSUME NEW s, NEW l, NEW by
    PROVE  /\ Block(s, l, by).start = s /\ Block(s, l, by).length = l
           /\ Block(s, l, by).by = by
  BY DEF Block

LEMMA BlockType ==
    ASSUME BoundsOK, NEW s \in Word, NEW l \in Word, NEW by \in {"malloc", "sbrk"}
    PROVE  allocated \cup {Block(s, l, by)}
             \subseteq [start : Word, length : Word, by : {"malloc", "sbrk"}]
  BY DEF BoundsOK, Block

\* _sbrk takes memory from FREE_MEM_BEGIN on, above every piece.
LEMMA SbrkStep ==
    ASSUME HInv, NEW size \in Word, LAST + size < SIZE_LIMIT,
           EnoughMemory(size), _sbrk(size)
    PROVE  HInv'
  <1>1. CASE SbrkFails(size)
    BY <1>1 DEF _sbrk, vars, HInv, BoundsOK, HolesApart, BlocksApart, Below
  <1>2. CASE ~SbrkFails(size)
    <2>1. PICK at : Listed(holes, at) /\ HolesApart(at) /\ BlocksApart(at)
      BY DEF HInv
    <2>2. /\ BoundsOK /\ size \in Word /\ size \in Nat
          /\ FREE_MEM_BEGIN' = FREE_MEM_BEGIN + size
          /\ FREE_MEM_BEGIN' \in ORIGIN .. LAST
          /\ allocated' = allocated \cup {Block(FREE_MEM_BEGIN, size, "sbrk")}
          /\ UNCHANGED <<holes, start, length, FREE_MEM_END, status>>
      BY <1>2, SbrkTakes, Facts DEF _sbrk, HInv
    <2>3. BoundsOK'
      <3>1. FREE_MEM_BEGIN \in Word
        BY <2>2, Facts
      <3>2. allocated' \subseteq [start : Word, length : Word, by : {"malloc", "sbrk"}]
        BY <2>2, <3>1, BlockType
      <3> QED BY <2>2, <3>2 DEF BoundsOK
    <2>4. HolesApart(at)'
      BY <2>1, <2>2, Facts DEF HolesApart, Below
    <2>5. BlocksApart(at)'
      <3> DEFINE n == Block(FREE_MEM_BEGIN, size, "sbrk")
      <3>1. n.start = FREE_MEM_BEGIN /\ n.length = size
        BY BlockFields
      <3>2. allocated' = allocated \cup {n}
        BY <2>2
      <3> HIDE DEF n
      <3>3. ASSUME NEW a \in allocated PROVE Apart(a.start, a.length, n.start, n.length)
                                             /\ Apart(n.start, n.length, a.start, a.length)
        BY <2>1, <2>2, <3>1, Facts DEF BlocksApart, Below, Apart
      <3>4. ASSUME NEW h \in Hole, at[h] = "unused"
            PROVE  Apart(n.start, n.length, start[h], length[h])
        BY <2>1, <2>2, <3>1, <3>4, Facts DEF HolesApart, Active, Below, Apart
      <3>5. \A a \in allocated' : Below(a.start, a.length)'
        BY <2>1, <2>2, <3>1, <3>2, Facts DEF BlocksApart, Below
      <3>6. \A a, b \in allocated' : a # b => Apart(a.start, a.length, b.start, b.length)
        BY <2>1, <3>2, <3>3 DEF BlocksApart
      <3>7. \A a \in allocated', h \in Hole : at[h] = "unused" =>
              Apart(a.start, a.length, start[h], length[h])
        BY <2>1, <3>2, <3>4 DEF BlocksApart
      <3>8. \A h \in Hole : at[h] = "used" =>
              Block(start[h], length[h], "malloc") \in allocated'
        BY <2>1, <3>2 DEF BlocksApart
      <3> QED BY <2>2, <3>5, <3>6, <3>7, <3>8 DEF BlocksApart
    <2>6. Listed(holes', at)
      BY <2>1, <2>2
    <2> QED BY <2>3, <2>4, <2>5, <2>6 DEF HInv
  <1> QED BY <1>1, <1>2

\* A hole of the size asked for becomes the block.
LEMMA TakeWholeStep ==
    ASSUME HInv, NEW h \in OnList(holes, "unused"), TakeWhole(h)
    PROVE  HInv'
  <1>1. PICK at : Listed(holes, at) /\ HolesApart(at) /\ BlocksApart(at)
    BY DEF HInv
  <1>2. h \in Hole /\ at[h] = "unused"
    BY <1>1, ListedMembers DEF HoleList
  <1>3. PICK c : Listed(holes', c) /\ Moved(at, c, "unused", h, "used")
    BY <1>1, <1>2, DeleteMoves DEF TakeWhole, HoleList
  <1>4. /\ allocated' = allocated \cup {Block(start[h], length[h], "malloc")}
        /\ UNCHANGED <<start, length, FREE_MEM_BEGIN, FREE_MEM_END, status>>
    BY DEF TakeWhole
  <1>5. BoundsOK'
    <2>1. allocated' \subseteq [start : Word, length : Word, by : {"malloc", "sbrk"}]
      BY <1>2, <1>4, Facts, BlockType DEF HInv
    <2> QED BY <1>4, <2>1 DEF BoundsOK, HInv
  <1>6. /\ c[h] = "used"
        /\ \A x \in Hole \ {h} : c[x] = at[x] \/ c[x] = NULL
        /\ \A x \in Hole : c[x] \in Active => at[x] \in Active
        /\ \A x \in Hole : c[x] = "unused" => at[x] = "unused" /\ x # h
    BY <1>2, <1>3, HoleConstants DEF Moved, Active, HoleList
  <1>7. HolesApart(c)'
    BY <1>1, <1>4, <1>6 DEF HolesApart, Below
  <1>8. BlocksApart(c)'
    <2> DEFINE n == Block(start[h], length[h], "malloc")
    <2>1. n.start = start[h] /\ n.length = length[h]
      BY BlockFields
    <2>2. allocated' = allocated \cup {n}
      BY <1>4
    <2> HIDE DEF n
    <2>3. \A a \in allocated : Apart(a.start, a.length, n.start, n.length)
                               /\ Apart(n.start, n.length, a.start, a.length)
      BY <1>1, <1>2, <2>1, Facts DEF BlocksApart, Apart, HInv
    <2>4. \A x \in Hole : c[x] = "unused" => Apart(n.start, n.length, start[x], length[x])
      BY <1>1, <1>2, <1>6, <2>1, Facts DEF HolesApart, Active
    <2>5. \A a \in allocated' : Below(a.start, a.length)
      BY <1>1, <1>2, <2>1, <2>2 DEF BlocksApart, HolesApart, Active
    <2>6. \A a, b \in allocated' : a # b => Apart(a.start, a.length, b.start, b.length)
      BY <1>1, <2>2, <2>3 DEF BlocksApart
    <2>7. \A a \in allocated', x \in Hole : c[x] = "unused" =>
            Apart(a.start, a.length, start[x], length[x])
      BY <1>1, <1>6, <2>2, <2>4 DEF BlocksApart
    <2>8. \A x \in Hole : c[x] = "used" =>
            Block(start[x], length[x], "malloc") \in allocated'
      BY <1>1, <1>6, <2>2, HoleConstants DEF BlocksApart, n, HoleList
    <2> QED BY <1>4, <2>5, <2>6, <2>7, <2>8 DEF BlocksApart, Below
  <1> QED BY <1>3, <1>5, <1>7, <1>8 DEF HInv

\* A larger hole gives its beginning away, when there is a hole to describe it.
LEMMA TakePartStep ==
    ASSUME HInv, NEW size \in Word, size # 0,
           NEW h \in OnList(holes, "unused"), length[h] >= size, length[h] # size,
           TakePart(h, size)
    PROVE  HInv'
  <1>1. PICK at : Listed(holes, at) /\ HolesApart(at) /\ BlocksApart(at)
    BY DEF HInv
  <1>2. h \in Hole /\ at[h] = "unused"
    BY <1>1, ListedMembers DEF HoleList
  <1>3. size \in Nat /\ size > 0 /\ size \in Word /\ BoundsOK
    BY MemoryAssumption DEF Word, HInv
  <1>4. /\ start[h] \in Nat /\ length[h] \in Nat /\ size < length[h]
        /\ start[h] + size < SIZE_LIMIT /\ length[h] - size < SIZE_LIMIT
        /\ ORIGIN <= start[h] /\ start[h] + length[h] <= FREE_MEM_BEGIN
    BY <1>1, <1>2, <1>3, Facts DEF HolesApart, Below, Active
  <1>5. start[h] + size \in Word /\ length[h] - size \in Word
    BY <1>3, <1>4, Facts
  <1>t. start \in [Hole -> Word] /\ length \in [Hole -> Word]
    BY <1>3 DEF BoundsOK
  <1> DEFINE n == holes.head["pending"]
  <1>6. CASE n = NULL
    <2>1. /\ status' = "wild"
          /\ start' = [start EXCEPT ![h] = @ + size]
          /\ length' = [length EXCEPT ![h] = @ - size]
          /\ UNCHANGED <<holes, FREE_MEM_BEGIN, FREE_MEM_END, allocated>>
      BY <1>6 DEF TakePart
    <2>2. /\ start'[h] = start[h] + size /\ length'[h] = length[h] - size
          /\ \A x \in Hole \ {h} : start'[x] = start[x] /\ length'[x] = length[x]
      BY <1>2, <1>t, <2>1
    <2>3. BoundsOK'
      BY <1>3, <1>5, <1>t, <2>1 DEF BoundsOK
    <2>4. HolesApart(at)'
      <3>1. ASSUME NEW x \in Hole, at[x] \in Active
            PROVE  length'[x] >= 1 /\ Below(start[x], length[x])'
        BY <1>1, <1>2, <1>3, <1>4, <2>1, <2>2, <3>1, Facts DEF HolesApart, Below
      <3>2. ASSUME NEW g \in Hole, NEW x \in Hole,
                   at[g] \in Active, at[x] \in Active, g # x
            PROVE  Apart(start'[g], length'[g], start'[x], length'[x])
        <4>1. Apart(start[g], length[g], start[x], length[x])
          BY <1>1, <3>2 DEF HolesApart
        <4>2. length[g] >= 1 /\ length[x] >= 1
          BY <1>1, <3>2 DEF HolesApart
        <4> QED BY <1>2, <1>3, <1>4, <2>2, <3>2, <4>1, <4>2, Facts DEF Apart
      <3> QED BY <3>1, <3>2 DEF HolesApart
    <2>5. BlocksApart(at)'
      <3>1. ASSUME NEW a \in allocated, NEW x \in Hole, at[x] = "unused"
            PROVE  Apart(a.start, a.length, start'[x], length'[x])
        <4>1. Apart(a.start, a.length, start[x], length[x]) /\ length[x] >= 1
          BY <1>1, <3>1 DEF BlocksApart, HolesApart, Active
        <4> QED BY <1>2, <1>3, <1>4, <2>2, <3>1, <4>1, Facts DEF Apart
      <3>2. \A x \in Hole : at[x] = "used" => x # h
        BY <1>2
      <3> QED BY <1>1, <2>1, <2>2, <3>1, <3>2 DEF BlocksApart, Below
    <2> QED BY <1>1, <2>1, <2>3, <2>4, <2>5 DEF HInv
  <1>7. CASE n # NULL
    <2>1. /\ start' = [start EXCEPT ![h] = @ + size, ![n] = start[h]]
          /\ length' = [length EXCEPT ![h] = @ - size, ![n] = size]
          /\ holes' = enqueue_head(dequeue(holes, "pending"), "used", n)
          /\ allocated' = allocated \cup {Block(start[h], size, "malloc")}
          /\ UNCHANGED <<FREE_MEM_BEGIN, FREE_MEM_END, status>>
      BY <1>7 DEF TakePart
    <2>2. /\ n \in Hole /\ at[n] = "pending"
          /\ \E c : Listed(holes', c) /\ Moved(at, c, "pending", n, "used")
      BY <1>1, <1>7, <2>1, DequeueMoves DEF HoleList
    <2>3. PICK c : Listed(holes', c) /\ Moved(at, c, "pending", n, "used")
      BY <2>2
    <2> HIDE DEF n
    <2>4. n # h
      BY <1>2, <2>2
    <2>5. /\ start'[h] = start[h] + size /\ length'[h] = length[h] - size
          /\ start'[n] = start[h] /\ length'[n] = size
          /\ \A x \in Hole \ {h, n} : start'[x] = start[x] /\ length'[x] = length[x]
      BY <1>2, <1>t, <2>1, <2>2, <2>4
    <2>6. /\ c[n] = "used"
          /\ \A x \in Hole \ {n} : /\ c[x] \in Active <=> at[x] \in Active
                                   /\ c[x] = "used" <=> at[x] = "used"
                                   /\ c[x] = "unused" <=> at[x] = "unused"
      BY <2>2, <2>3, HoleConstants DEF Moved, Active, HoleList
    <2>7. BoundsOK'
      <3>1. allocated' \subseteq [start : Word, length : Word, by : {"malloc", "sbrk"}]
        BY <1>2, <1>3, <2>1, Facts, BlockType
      <3>2. start' \in [Hole -> Word] /\ length' \in [Hole -> Word]
        BY <1>2, <1>3, <1>5, <1>t, <2>1
      <3> QED BY <1>3, <2>1, <3>1, <3>2 DEF BoundsOK
    <2>8. HolesApart(c)'
      <3>1. ASSUME NEW x \in Hole, c[x] \in Active
            PROVE  length'[x] >= 1 /\ Below(start[x], length[x])'
        <4>1. x = n \/ x = h \/ (x # n /\ x # h /\ length[x] >= 1
                                 /\ Below(start[x], length[x]))
          BY <1>1, <2>6, <3>1 DEF HolesApart
        <4>2. x = h => length'[x] >= 1 /\ ORIGIN <= start'[x]
                       /\ start'[x] + length'[x] <= FREE_MEM_BEGIN
          BY <1>3, <1>4, <2>5, Facts
        <4>3. x = n => length'[x] >= 1 /\ ORIGIN <= start'[x]
                       /\ start'[x] + length'[x] <= FREE_MEM_BEGIN
          BY <1>3, <1>4, <2>5, Facts
        <4>4. x # h /\ x # n => length'[x] = length[x] /\ start'[x] = start[x]
          BY <2>5
        <4> QED BY <2>1, <4>1, <4>2, <4>3, <4>4 DEF Below
      <3>2. ASSUME NEW x \in Hole \ {h, n}, c[x] \in Active
            PROVE  /\ Apart(start'[x], length'[x], start'[h], length'[h])
                   /\ Apart(start'[h], length'[h], start'[x], length'[x])
                   /\ Apart(start'[x], length'[x], start'[n], length'[n])
                   /\ Apart(start'[n], length'[n], start'[x], length'[x])
        <4>1. Apart(start[x], length[x], start[h], length[h]) /\ length[x] >= 1
          BY <1>1, <1>2, <2>6, <3>2 DEF HolesApart, Active
        <4> QED BY <1>2, <1>3, <1>4, <2>5, <3>2, <4>1, Facts DEF Apart
      <3>3. Apart(start'[n], length'[n], start'[h], length'[h])
            /\ Apart(start'[h], length'[h], start'[n], length'[n])
        BY <1>3, <1>4, <2>5 DEF Apart
      <3>4. ASSUME NEW x \in Hole \ {h, n}, NEW y \in Hole \ {h, n},
                   c[x] \in Active, c[y] \in Active, x # y
            PROVE  Apart(start'[x], length'[x], start'[y], length'[y])
        BY <1>1, <2>5, <2>6, <3>4 DEF HolesApart
      <3> QED BY <1>2, <2>2, <3>1, <3>2, <3>3, <3>4 DEF HolesApart
    <2>9. BlocksApart(c)'
      <3> DEFINE m == Block(start[h], size, "malloc")
      <3>1. m.start = start[h] /\ m.length = size
        BY BlockFields
      <3>2. allocated' = allocated \cup {m} /\ m = Block(start'[n], length'[n], "malloc")
        BY <2>1, <2>5
      <3> HIDE DEF m
      <3>3. \A a \in allocated : Apart(a.start, a.length, m.start, m.length)
                                 /\ Apart(m.start, m.length, a.start, a.length)
        <4> SUFFICES ASSUME NEW a \in allocated
                     PROVE  Apart(a.start, a.length, m.start, m.length)
                            /\ Apart(m.start, m.length, a.start, a.length)
          OBVIOUS
        <4>1. Apart(a.start, a.length, start[h], length[h])
          BY <1>1, <1>2 DEF BlocksApart
        <4> QED BY <1>3, <1>4, <3>1, <4>1, Facts DEF Apart
      <3>4. ASSUME NEW x \in Hole, c[x] = "unused", NEW a \in allocated
            PROVE  /\ Apart(m.start, m.length, start'[x], length'[x])
                   /\ Apart(a.start, a.length, start'[x], length'[x])
        <4>1. x # n /\ at[x] = "unused"
          BY <2>6, <3>4
        <4>2. Apart(a.start, a.length, start[x], length[x]) /\ length[x] >= 1
          BY <1>1, <4>1 DEF BlocksApart, HolesApart, Active
        <4>3. x # h => Apart(start[h], length[h], start[x], length[x])
          BY <1>1, <1>2, <4>1 DEF HolesApart, Active
        <4> QED BY <1>2, <1>3, <1>4, <2>5, <3>1, <4>1, <4>2, <4>3, Facts DEF Apart
      <3>5. \A x \in Hole : c[x] = "unused" =>
              Apart(m.start, m.length, start'[x], length'[x])
        <4> SUFFICES ASSUME NEW x \in Hole, c[x] = "unused"
                     PROVE  Apart(m.start, m.length, start'[x], length'[x])
          OBVIOUS
        <4>1. x # n /\ at[x] = "unused" /\ length[x] >= 1
          BY <1>1, <2>6 DEF HolesApart, Active
        <4>2. x # h => Apart(start[h], length[h], start[x], length[x])
          BY <1>1, <1>2, <4>1 DEF HolesApart, Active
        <4> QED BY <1>2, <1>3, <1>4, <2>5, <3>1, <4>1, <4>2, Facts DEF Apart
      <3>6. \A a \in allocated' : Below(a.start, a.length)'
        <4>1. Below(m.start, m.length)
          BY <1>3, <1>4, <3>1, Facts DEF Below
        <4> QED BY <1>1, <2>1, <3>2, <4>1 DEF BlocksApart, Below
      <3>7. \A a, b \in allocated' : a # b => Apart(a.start, a.length, b.start, b.length)
        BY <1>1, <3>2, <3>3 DEF BlocksApart
      <3>8. \A a \in allocated', x \in Hole : c[x] = "unused" =>
              Apart(a.start, a.length, start'[x], length'[x])
        BY <3>2, <3>4, <3>5
      <3>9. \A x \in Hole : c[x] = "used" =>
              Block(start'[x], length'[x], "malloc") \in allocated'
        <4> SUFFICES ASSUME NEW x \in Hole, c[x] = "used"
                     PROVE  Block(start'[x], length'[x], "malloc") \in allocated'
          OBVIOUS
        <4>1. CASE x = n
          BY <3>2, <4>1
        <4>2. CASE x # n
          <5>1. x # h /\ at[x] = "used"
            BY <1>2, <2>6, <4>2
          <5> QED BY <1>1, <2>5, <3>2, <4>2, <5>1 DEF BlocksApart
        <4> QED BY <4>1, <4>2
      <3> QED BY <3>6, <3>7, <3>8, <3>9 DEF BlocksApart
    <2> QED BY <2>3, <2>7, <2>8, <2>9 DEF HInv
  <1> QED BY <1>6, <1>7

\* A block from _sbrk is described by the pending hole n, or not at all.
LEMMA TakeNewStep ==
    ASSUME HInv, NEW size \in Word, LAST + size < SIZE_LIMIT, size # 0,
           EnoughMemory(size), TakeNew(size)
    PROVE  HInv'
  <1>1. PICK at : Listed(holes, at) /\ HolesApart(at) /\ BlocksApart(at)
    BY DEF HInv
  <1> DEFINE n == holes.head["pending"]
  <1>2. CASE SbrkFails(size)
    <2>1. UNCHANGED vars
      BY <1>2 DEF TakeNew
    <2> QED BY <2>1 DEF vars, HInv, BoundsOK, HolesApart, BlocksApart, Below
  <1>3. CASE ~SbrkFails(size)
    <2>1. /\ BoundsOK /\ size \in Word /\ size \in Nat /\ size > 0
          /\ AfterSbrk(size) = FREE_MEM_BEGIN + size
          /\ FREE_MEM_BEGIN + size \in ORIGIN .. LAST
          /\ FREE_MEM_BEGIN \in Word
      BY <1>3, SbrkTakes, Facts DEF HInv
    <2>t. start \in [Hole -> Word] /\ length \in [Hole -> Word]
      BY <2>1 DEF BoundsOK
    <2>2. CASE n = NULL
      <3>1. FREE_MEM_BEGIN' = FREE_MEM_BEGIN + size
            /\ UNCHANGED <<holes, start, length, FREE_MEM_END, status, allocated>>
        BY <1>3, <2>1, <2>2 DEF TakeNew
      <3> QED BY <1>1, <2>1, <3>1, Facts
              DEF HInv, BoundsOK, HolesApart, BlocksApart, Below
    <2>3. CASE n # NULL
      <3>1. /\ FREE_MEM_BEGIN' = FREE_MEM_BEGIN + size
            /\ start' = [start EXCEPT ![n] = FREE_MEM_BEGIN]
            /\ length' = [length EXCEPT ![n] = size]
            /\ holes' = enqueue_head(dequeue(holes, "pending"), "used", n)
            /\ allocated' = allocated \cup {Block(FREE_MEM_BEGIN, size, "malloc")}
            /\ UNCHANGED <<FREE_MEM_END, status>>
        BY <1>3, <2>1, <2>3 DEF TakeNew
      <3>2. /\ n \in Hole /\ at[n] = "pending"
            /\ \E c : Listed(holes', c) /\ Moved(at, c, "pending", n, "used")
        BY <1>1, <2>3, <3>1, DequeueMoves DEF HoleList
      <3>3. PICK c : Listed(holes', c) /\ Moved(at, c, "pending", n, "used")
        BY <3>2
      <3> HIDE DEF n
      <3>4. /\ start'[n] = FREE_MEM_BEGIN /\ length'[n] = size
            /\ \A x \in Hole \ {n} : start'[x] = start[x] /\ length'[x] = length[x]
        BY <2>t, <3>1, <3>2
      <3>5. /\ c[n] = "used"
            /\ \A x \in Hole \ {n} : /\ c[x] \in Active <=> at[x] \in Active
                                     /\ c[x] = "used" <=> at[x] = "used"
                                     /\ c[x] = "unused" <=> at[x] = "unused"
        BY <3>2, <3>3, HoleConstants DEF Moved, Active, HoleList
      <3>6. BoundsOK'
        <4>1. allocated' \subseteq [start : Word, length : Word, by : {"malloc", "sbrk"}]
          BY <2>1, <3>1, BlockType
        <4>2. start' \in [Hole -> Word] /\ length' \in [Hole -> Word]
          BY <2>1, <2>t, <3>1
        <4> QED BY <2>1, <3>1, <4>1, <4>2 DEF BoundsOK
      <3>7. ASSUME NEW x \in Hole \ {n}, c[x] \in Active
            PROVE  /\ length'[x] >= 1
                   /\ ORIGIN <= start'[x] /\ start'[x] + length'[x] <= FREE_MEM_BEGIN
                   /\ start'[x] = start[x] /\ length'[x] = length[x]
        <4>1. length[x] >= 1 /\ Below(start[x], length[x])
          BY <1>1, <3>5, <3>7 DEF HolesApart
        <4> QED BY <2>1, <3>4, <4>1, Facts DEF Below
      <3>8. HolesApart(c)'
        <4>1. ASSUME NEW x \in Hole, c[x] \in Active
              PROVE  length'[x] >= 1 /\ Below(start[x], length[x])'
          <5>1. CASE x = n
            BY <2>1, <3>1, <3>4, <5>1, Facts DEF Below
          <5>2. CASE x # n
            BY <2>1, <3>1, <3>4, <3>7, <4>1, <5>2, Facts DEF Below
          <5> QED BY <5>1, <5>2
        <4>2. ASSUME NEW x \in Hole \ {n}, c[x] \in Active
              PROVE  /\ Apart(start'[x], length'[x], start'[n], length'[n])
                     /\ Apart(start'[n], length'[n], start'[x], length'[x])
          BY <3>4, <3>7, <4>2 DEF Apart
        <4>3. ASSUME NEW x \in Hole \ {n}, NEW y \in Hole \ {n},
                     c[x] \in Active, c[y] \in Active, x # y
              PROVE  Apart(start'[x], length'[x], start'[y], length'[y])
          BY <1>1, <3>4, <3>5, <4>3 DEF HolesApart
        <4> QED BY <4>1, <4>2, <4>3 DEF HolesApart
      <3>9. BlocksApart(c)'
        <4> DEFINE m == Block(FREE_MEM_BEGIN, size, "malloc")
        <4>1. m.start = FREE_MEM_BEGIN /\ m.length = size
          BY BlockFields
        <4>2. allocated' = allocated \cup {m} /\ m = Block(start'[n], length'[n], "malloc")
          BY <3>1, <3>4
        <4> HIDE DEF m
        <4>3. ASSUME NEW a \in allocated
              PROVE  /\ Apart(a.start, a.length, m.start, m.length)
                     /\ Apart(m.start, m.length, a.start, a.length)
                     /\ Below(a.start, a.length)'
          <5>1. Below(a.start, a.length)
            BY <1>1 DEF BlocksApart
          <5> QED BY <2>1, <3>1, <4>1, <5>1, Facts DEF Apart, Below
        <4>4. ASSUME NEW x \in Hole, c[x] = "unused"
              PROVE  /\ x # n /\ at[x] = "unused"
                     /\ Apart(m.start, m.length, start'[x], length'[x])
                     /\ start'[x] = start[x] /\ length'[x] = length[x]
          <5>1. x # n /\ at[x] = "unused" /\ c[x] \in Active
            BY <3>5, <4>4 DEF Active
          <5> QED BY <3>7, <4>1, <5>1 DEF Apart
        <4>5. \A a \in allocated' : Below(a.start, a.length)'
          <5>1. ORIGIN <= m.start /\ m.start + m.length <= FREE_MEM_BEGIN'
            BY <2>1, <3>1, <4>1, Facts
          <5> QED BY <4>2, <4>3, <5>1 DEF Below
        <4>6. \A a, b \in allocated' : a # b => Apart(a.start, a.length, b.start, b.length)
          BY <1>1, <4>2, <4>3 DEF BlocksApart
        <4>7. \A a \in allocated', x \in Hole : c[x] = "unused" =>
                Apart(a.start, a.length, start'[x], length'[x])
          BY <1>1, <4>2, <4>4 DEF BlocksApart
        <4>8. \A x \in Hole : c[x] = "used" =>
                Block(start'[x], length'[x], "malloc") \in allocated'
          <5> SUFFICES ASSUME NEW x \in Hole, c[x] = "used"
                       PROVE  Block(start'[x], length'[x], "malloc") \in allocated'
            OBVIOUS
          <5>1. CASE x = n
            BY <4>2, <5>1
          <5>2. CASE x # n
            BY <1>1, <3>4, <3>5, <4>2, <5>2 DEF BlocksApart
          <5> QED BY <5>1, <5>2
        <4> QED BY <4>5, <4>6, <4>7, <4>8 DEF BlocksApart
      <3> QED BY <3>3, <3>6, <3>8, <3>9 DEF HInv
    <2> QED BY <2>2, <2>3
  <1> QED BY <1>2, <1>3

\* The block that starts at p is given back.  Its hole h is not in use any more:
\* what is left of the pieces is apart from it, and either FREE_MEM_BEGIN moves
\* back over it, or a hole next to it grows by it, or it becomes a hole.
LEMMA FreeStep ==
    ASSUME HInv, NEW p, proc_free(p)
    PROVE  HInv'
  <1>1. PICK at : Listed(holes, at) /\ HolesApart(at) /\ BlocksApart(at)
    BY DEF HInv
  <1> DEFINE S == {x \in Hole : start[x] = p}
             h == First(holes, "used", S)
  <1>2. /\ allocated' = {a \in allocated : a.start # p}
        /\ UNCHANGED <<FREE_MEM_END, status>>
        /\ \/ h = NULL /\ UNCHANGED <<holes, start, length, FREE_MEM_BEGIN>>
           \/ h # NULL /\ merge_holes(hole_delete(holes, "used", h), h)
    BY DEF proc_free
  <1>3. \/ h = NULL /\ OnList(holes, "used") \cap S = {}
        \/ h \in OnList(holes, "used") \cap S
    BY FirstIn, HoleConstants
  <1>4. OnList(holes, "used") = {x \in Hole : at[x] = "used"}
    BY <1>1, ListedMembers DEF HoleList
  <1>5. BoundsOK /\ start \in [Hole -> Word] /\ length \in [Hole -> Word]
    BY DEF HInv, BoundsOK
  <1>6. allocated' \subseteq [start : Word, length : Word, by : {"malloc", "sbrk"}]
    BY <1>2, <1>5 DEF BoundsOK
  <1>7. CASE h = NULL
    <2>1. UNCHANGED <<holes, start, length, FREE_MEM_BEGIN>>
      BY <1>2, <1>7
    <2>2. \A x \in Hole : at[x] = "used" => start[x] # p
      BY <1>3, <1>4, <1>7, HoleConstants
    <2>3. BlocksApart(at)'
      <3>1. \A x \in Hole : at[x] = "used" =>
              Block(start[x], length[x], "malloc") \in allocated'
        BY <1>1, <1>2, <2>2, BlockFields DEF BlocksApart
      <3> QED BY <1>1, <1>2, <2>1, <3>1 DEF BlocksApart, Below
    <2> QED BY <1>1, <1>2, <1>5, <1>6, <2>1, <2>3
            DEF HInv, BoundsOK, HolesApart, Below
  <1>8. CASE h # NULL
    <2> DEFINE L == hole_delete(holes, "used", h)
    <2>1. h \in Hole /\ at[h] = "used" /\ start[h] = p
      BY <1>3, <1>4, <1>8
    <2>2. merge_holes(L, h)
      BY <1>2, <1>8
    <2> HIDE DEF h
    <2>3. PICK b : Listed(L, b) /\ Without(at, b, "used", h)
      BY <1>1, <2>1, DeleteListed DEF HoleList
    <2> DEFINE c == Adjacent(L, h)
               T == {x \in Hole : End(x) = start[h] \/ End(h) = start[x]}
    <2>4. \/ c = NULL
          \/ c \in OnList(L, "unused") \cap T
      BY FirstIn, HoleConstants DEF Adjacent
    <2>5. c # NULL => /\ c \in Hole /\ b[c] = "unused"
                      /\ End(c) = start[h] \/ End(h) = start[c]
      BY <2>3, <2>4, ListedMembers DEF HoleList
    <2>6. \/ /\ End(h) = FREE_MEM_BEGIN
             /\ FREE_MEM_BEGIN' = FREE_MEM_BEGIN - length[h]
             /\ holes' = enqueue_head(L, "pending", h)
             /\ UNCHANGED <<start, length>>
          \/ /\ End(h) # FREE_MEM_BEGIN /\ c # NULL
             /\ start' = IF End(c) = start[h] THEN start
                         ELSE [start EXCEPT ![c] = @ - length[h]]
             /\ length' = [length EXCEPT ![c] = @ + length[h]]
             /\ holes' = enqueue_head(L, "pending", h)
             /\ UNCHANGED FREE_MEM_BEGIN
          \/ /\ End(h) # FREE_MEM_BEGIN /\ c = NULL
             /\ holes' = enqueue_head(L, "unused", h)
             /\ UNCHANGED <<start, length, FREE_MEM_BEGIN>>
      BY <2>2 DEF merge_holes
    <2> HIDE DEF L, c
    <2>7. /\ b[h] = NULL
          /\ \A x \in Hole \ {h} : b[x] = at[x] \/ b[x] = NULL
          /\ \A x \in Hole : b[x] \in Active => at[x] \in Active /\ x # h
          /\ \A x \in Hole : b[x] = "unused" => at[x] = "unused" /\ x # h
          /\ \A x \in Hole : b[x] = "used" => at[x] = "used" /\ x # h
      BY <2>1, <2>3, HoleConstants DEF Without, Active, HoleList
    <2>8. /\ start[h] \in Nat /\ length[h] \in Nat /\ length[h] >= 1
          /\ ORIGIN <= start[h] /\ start[h] + length[h] <= FREE_MEM_BEGIN
          /\ End(h) = start[h] + length[h]
      BY <1>1, <1>5, <2>1, Facts DEF HolesApart, Below, Active, End
    <2> DEFINE m == Block(start[h], length[h], "malloc")
    <2>9. m \in allocated /\ m.start = start[h] /\ m.length = length[h]
      BY <1>1, <2>1, BlockFields DEF BlocksApart
    <2> HIDE DEF m
    <2>10. ASSUME NEW x \in Hole, b[x] \in Active
           PROVE  /\ length[x] >= 1 /\ start[x] \in Nat /\ length[x] \in Nat
                  /\ ORIGIN <= start[x] /\ start[x] + length[x] <= FREE_MEM_BEGIN
                  /\ Apart(start[x], length[x], start[h], length[h])
                  /\ start[x] # start[h] /\ x # h
      <3>1. at[x] \in Active /\ x # h /\ at[h] \in Active
        BY <2>1, <2>7, <2>10 DEF Active
      <3>2. /\ Apart(start[x], length[x], start[h], length[h])
            /\ length[x] >= 1 /\ Below(start[x], length[x])
        BY <1>1, <2>1, <3>1 DEF HolesApart
      <3> QED BY <1>5, <2>8, <3>1, <3>2, Facts DEF Apart, Below
    <2>11. ASSUME NEW a \in allocated'
           PROVE  /\ a \in allocated /\ a.start \in Nat /\ a.length \in Nat
                  /\ Apart(a.start, a.length, start[h], length[h])
                  /\ Below(a.start, a.length)
      <3>1. a \in allocated /\ a.start # start[h] /\ a # m
        BY <1>2, <2>1, <2>9
      <3> QED BY <1>1, <1>5, <2>9, <3>1, Facts DEF BlocksApart
    <2>12. /\ \A a, e \in allocated' : a # e =>
                Apart(a.start, a.length, e.start, e.length)
           /\ \A a \in allocated', x \in Hole : b[x] = "unused" =>
                Apart(a.start, a.length, start[x], length[x])
           /\ \A x \in Hole : b[x] = "used" =>
                Block(start[x], length[x], "malloc") \in allocated'
           /\ \A x, y \in Hole : b[x] \in Active /\ b[y] \in Active /\ x # y =>
                Apart(start[x], length[x], start[y], length[y])
      <3>1. \A x \in Hole : b[x] = "used" =>
                Block(start[x], length[x], "malloc") \in allocated'
        BY <1>1, <1>2, <2>1, <2>7, <2>10, BlockFields DEF BlocksApart, Active
      <3> QED BY <1>1, <2>7, <2>11, <3>1 DEF BlocksApart, HolesApart
    <2>13. CASE holes' = enqueue_head(L, "unused", h)
                /\ UNCHANGED <<start, length, FREE_MEM_BEGIN>>
      <3>0. PICK d : d = [b EXCEPT ![h] = "unused"]
        OBVIOUS
      <3>1. Listed(holes', d)
        BY <2>1, <2>3, <2>7, <2>13, <3>0, EnqueueListed DEF HoleList
      <3>2. /\ d[h] = "unused" /\ \A x \in Hole \ {h} : d[x] = b[x]
        BY <2>1, <2>3, <3>0 DEF Without
      <3>3. HolesApart(d)'
        <4>1. ASSUME NEW x \in Hole, d[x] \in Active
              PROVE  length[x] >= 1 /\ Below(start[x], length[x])
          BY <2>8, <2>10, <3>2, <4>1 DEF Below
        <4>2. ASSUME NEW x \in Hole, NEW y \in Hole,
                     d[x] \in Active, d[y] \in Active, x # y
              PROVE  Apart(start[x], length[x], start[y], length[y])
          BY <2>8, <2>10, <2>12, <3>2, <4>2 DEF Apart
        <4> QED BY <2>13, <4>1, <4>2 DEF HolesApart, Below
      <3>4. BlocksApart(d)'
        <4>1. \A a \in allocated', x \in Hole : d[x] = "unused" =>
                Apart(a.start, a.length, start[x], length[x])
          BY <2>11, <2>12, <3>2
        <4>2. \A x \in Hole : d[x] = "used" =>
                Block(start[x], length[x], "malloc") \in allocated'
          BY <2>12, <3>2
        <4> QED BY <2>11, <2>12, <2>13, <4>1, <4>2 DEF BlocksApart, Below
      <3> QED BY <1>2, <1>5, <1>6, <2>13, <3>1, <3>3, <3>4 DEF HInv, BoundsOK
    <2>14. CASE holes' = enqueue_head(L, "pending", h)
      <3>0. PICK d : d = [b EXCEPT ![h] = "pending"]
        OBVIOUS
      <3>1. Listed(holes', d)
        BY <2>1, <2>3, <2>7, <2>14, <3>0, EnqueueListed DEF HoleList
      <3>2. /\ \A x \in Hole : d[x] \in Active => b[x] = d[x] /\ x # h
            /\ \A x \in Hole : d[x] = "unused" => b[x] = d[x] /\ x # h
            /\ \A x \in Hole : d[x] = "used" => b[x] = d[x] /\ x # h
        BY <2>1, <2>3, <3>0 DEF Without, Active
      <3>3. CASE /\ End(h) = FREE_MEM_BEGIN
                 /\ FREE_MEM_BEGIN' = FREE_MEM_BEGIN - length[h]
                 /\ UNCHANGED <<start, length>>
        <4>1. FREE_MEM_BEGIN' = start[h] /\ FREE_MEM_BEGIN' \in ORIGIN .. LAST
          BY <1>5, <2>8, <3>3, Facts
        <4>2. HolesApart(d)'
          <5>1. ASSUME NEW x \in Hole, d[x] \in Active
                PROVE  length[x] >= 1 /\ ORIGIN <= start[x]
                       /\ start[x] + length[x] <= FREE_MEM_BEGIN'
            <6>1. b[x] \in Active
              BY <3>2, <5>1
            <6> QED BY <2>8, <2>10, <3>3, <4>1, <6>1 DEF Apart
          <5> QED BY <2>12, <3>2, <3>3, <5>1 DEF HolesApart, Below
        <4>3. BlocksApart(d)'
          <5>1. ASSUME NEW a \in allocated'
                PROVE  Below(a.start, a.length)'
            <6>1. FREE_MEM_BEGIN = start[h] + length[h]
              BY <2>8, <3>3
            <6>2. /\ a.start \in Nat /\ a.length \in Nat
                  /\ Apart(a.start, a.length, start[h], length[h])
                  /\ Below(a.start, a.length)
              BY <2>11
            <6>3. a.length = 0 \/ (ORIGIN <= a.start /\ a.start + a.length <= start[h])
              BY <2>8, <6>1, <6>2 DEF Apart, Below
            <6> QED BY <4>1, <6>3 DEF Below
          <5> QED BY <2>12, <3>2, <3>3, <5>1 DEF BlocksApart
        <4> QED BY <1>2, <1>5, <1>6, <3>1, <3>3, <4>1, <4>2, <4>3 DEF HInv, BoundsOK
      <3>4. CASE /\ c # NULL
                 /\ start' = IF End(c) = start[h] THEN start
                             ELSE [start EXCEPT ![c] = @ - length[h]]
                 /\ length' = [length EXCEPT ![c] = @ + length[h]]
                 /\ UNCHANGED FREE_MEM_BEGIN
        <4>1. /\ c \in Hole /\ b[c] = "unused" /\ b[c] \in Active
              /\ End(c) = start[h] \/ End(h) = start[c]
              /\ End(c) = start[c] + length[c]
          BY <2>5, <3>4 DEF Active, End
        <4>2. /\ start'[c] = IF End(c) = start[h] THEN start[c] ELSE start[c] - length[h]
              /\ length'[c] = length[c] + length[h]
              /\ \A x \in Hole \ {c} : start'[x] = start[x] /\ length'[x] = length[x]
          BY <1>5, <3>4, <4>1
        <4>3. /\ start'[c] \in Nat /\ length'[c] \in Nat
              /\ ORIGIN <= start'[c] /\ start'[c] + length'[c] <= FREE_MEM_BEGIN
              /\ \/ start'[c] = start[c] /\ start[h] = start[c] + length[c]
                 \/ start'[c] = start[h] /\ start[c] = start[h] + length[h]
          BY <1>5, <2>8, <2>10, <4>1, <4>2, Facts
        <4>4. start'[c] \in Word /\ length'[c] \in Word
          BY <1>5, <4>3, Facts
        <4>5. BoundsOK'
          <5>1. length' \in [Hole -> Word]
            BY <1>5, <3>4, <4>1, <4>2, <4>4
          <5>2. start' \in [Hole -> Word]
            BY <1>5, <3>4, <4>1, <4>2, <4>4
          <5> QED BY <1>2, <1>5, <1>6, <3>4, <5>1, <5>2 DEF BoundsOK
        <4>6. ASSUME NEW s \in Nat, NEW l \in Nat,
                     Apart(s, l, start[h], length[h]), Apart(s, l, start[c], length[c])
              PROVE  /\ Apart(s, l, start'[c], length'[c])
                     /\ Apart(start'[c], length'[c], s, l)
          BY <2>8, <2>10, <4>1, <4>2, <4>3, <4>6 DEF Apart
        <4>7. HolesApart(d)'
          <5>1. ASSUME NEW x \in Hole, d[x] \in Active
                PROVE  length'[x] >= 1 /\ ORIGIN <= start'[x]
                       /\ start'[x] + length'[x] <= FREE_MEM_BEGIN
            <6>1. CASE x = c
              BY <2>8, <2>10, <4>1, <4>2, <4>3, <6>1
            <6>2. CASE x # c
              BY <2>10, <3>2, <4>2, <5>1, <6>2
            <6> QED BY <6>1, <6>2
          <5>2. ASSUME NEW x \in Hole \ {c}, d[x] \in Active
                PROVE  /\ Apart(start'[x], length'[x], start'[c], length'[c])
                       /\ Apart(start'[c], length'[c], start'[x], length'[x])
            <6>1. b[x] \in Active /\ start'[x] = start[x] /\ length'[x] = length[x]
              BY <3>2, <4>2, <5>2
            <6>2. /\ start[x] \in Nat /\ length[x] \in Nat
                  /\ Apart(start[x], length[x], start[h], length[h])
                  /\ Apart(start[x], length[x], start[c], length[c])
              BY <2>10, <2>12, <4>1, <6>1
            <6> QED BY <4>6, <6>1, <6>2
          <5>3. ASSUME NEW x \in Hole \ {c}, NEW y \in Hole \ {c},
                       d[x] \in Active, d[y] \in Active, x # y
                PROVE  Apart(start'[x], length'[x], start'[y], length'[y])
            BY <2>12, <3>2, <4>2, <5>3
          <5> QED BY <3>4, <5>1, <5>2, <5>3 DEF HolesApart, Below
        <4>8. BlocksApart(d)'
          <5>1. ASSUME NEW a \in allocated', NEW x \in Hole, d[x] = "unused"
                PROVE  Apart(a.start, a.length, start'[x], length'[x])
            <6>1. CASE x = c
              <7>1. Apart(a.start, a.length, start[c], length[c])
                BY <2>12, <4>1
              <7> QED BY <2>11, <4>6, <6>1, <7>1
            <6>2. CASE x # c
              BY <2>12, <3>2, <4>2, <5>1, <6>2
            <6> QED BY <6>1, <6>2
          <5>2. \A x \in Hole : d[x] = "used" =>
                  Block(start'[x], length'[x], "malloc") \in allocated'
            <6>1. \A x \in Hole : d[x] = "used" => x # c /\ b[x] = "used"
              BY <3>2, <4>1
            <6> QED BY <2>12, <4>2, <6>1
          <5> QED BY <2>11, <2>12, <3>4, <5>1, <5>2 DEF BlocksApart, Below
        <4> QED BY <3>1, <4>5, <4>7, <4>8 DEF HInv
      <3> QED BY <2>6, <2>14, <3>3, <3>4, <2>13
    <2> QED BY <2>6, <2>13, <2>14
  <1> QED BY <1>7, <1>8

-----------------------------------------------------------------------------
(* The invariant and what follows from it. *)

\* init_memory: the pending holes from the last but one down to the first, and
\* the last one for the bss segment.
LEMMA InitHolds ==
    ASSUME Init
    PROVE  HInv
  <1> DEFINE N == NUM_HOLES
             u == <<N>>
             v == [i \in 1 .. N - 1 |-> N - i]
             s == [q \in HoleList |-> CASE q = "unused" -> u
                                        [] q = "pending" -> v
                                        [] OTHER -> <<>>]
             at == [h \in Hole |-> IF h = N THEN "unused" ELSE "pending"]
  <1>1. /\ N \in Nat /\ N >= 1 /\ Hole = 1 .. N
        /\ "unused" \in HoleList /\ "pending" \in HoleList /\ "used" \in HoleList
    BY TableAssumption DEF Hole, HoleList
  <1>2. NULL \notin Hole
    BY HoleConstants
  <1> HIDE DEF N
  <1>3. /\ holes.head \in [HoleList -> Hole \cup {NULL}]
        /\ holes.head["unused"] = N /\ holes.head["used"] = NULL
        /\ holes.head["pending"] = IF N > 1 THEN N - 1 ELSE NULL
    BY <1>1 DEF Init, HoleList, N
  <1>4. /\ holes.tail \in [HoleList -> Hole \cup {NULL}]
        /\ holes.tail["unused"] = N /\ holes.tail["used"] = NULL
        /\ holes.tail["pending"] = IF N > 1 THEN 1 ELSE NULL
    BY <1>1 DEF Init, HoleList, N
  <1>5. /\ holes.next \in [Hole -> Hole \cup {NULL}]
        /\ \A h \in Hole : holes.next[h] = IF h \in {1, N} THEN NULL ELSE h - 1
    BY <1>1 DEF Init, N
  <1>6. holes \in Stores(Hole, HoleList) /\ [holes EXCEPT !.tail = holes.tail] = holes
    BY <1>3, <1>4, <1>5 DEF Init, Stores
  <1>7. /\ v \in Seq(Hole) /\ Len(v) = N - 1
        /\ \A i \in 1 .. N - 1 : v[i] = N - i
    <2>1. v \in [1 .. N - 1 -> Hole] /\ N - 1 \in Nat
      BY <1>1
    <2>2. \A i \in 1 .. N - 1 : v[i] = N - i
      OBVIOUS
    <2> HIDE DEF v
    <2>3. v \in Seq(Hole)
      BY <2>1, SeqDef
    <2>4. Len(v) = N - 1
      BY <2>1, <2>3, LenProperties
    <2> QED BY <2>2, <2>3, <2>4
  <1> HIDE DEF v
  <1>8. u \in Seq(Hole) /\ Len(u) = 1 /\ u[1] = N
    BY <1>1
  <1>9. Spells(holes, "unused", u) /\ Distinct(u)
        /\ \A x \in Hole : On(u, x) <=> x = N
    <2>1. u # <<>> /\ Len(u) - 1 = 0 /\ 1 \in 1 .. Len(u) /\ Len(u) = 1
      BY <1>8
    <2>2. holes.next[N] = NULL
      BY <1>1, <1>5
    <2> HIDE DEF u
    <2>3. Spells(holes, "unused", u)
      BY <1>3, <1>4, <1>8, <2>1, <2>2 DEF Spells
    <2>4. Distinct(u)
      BY <1>8 DEF Distinct
    <2>5. \A x \in Hole : On(u, x) <=> x = N
      BY <1>8 DEF On
    <2> QED BY <2>3, <2>4, <2>5
  <1> HIDE DEF u
  <1>10. Spells(holes, "pending", v) /\ Distinct(v)
         /\ \A x \in Hole : On(v, x) <=> x # N
    <2>1. CASE N = 1
      <3>1. v = <<>>
        BY <1>7, <2>1, EmptySeq
      <3>2. Len(v) = 0
        BY <1>7, <2>1
      <3> QED BY <1>1, <1>3, <1>4, <2>1, <3>1, <3>2 DEF Spells, Distinct, On
    <2>2. CASE N > 1
      <3>1. v # <<>>
        <4>1. v = <<>> => Len(v) = 0
          OBVIOUS
        <4> QED BY <1>1, <1>7, <2>2, <4>1
      <3>2. v[1] = N - 1 /\ v[Len(v)] = 1 /\ holes.next[1] = NULL
        BY <1>1, <1>5, <1>7, <2>2
      <3>3. ASSUME NEW i \in 1 .. Len(v) - 1
            PROVE  holes.next[v[i]] = v[i + 1]
        <4>1. v[i] = N - i /\ v[i + 1] = N - (i + 1) /\ v[i] \in Hole
              /\ v[i] # 1 /\ v[i] # N
          <5>1. i \in 1 .. N - 1 /\ i + 1 \in 1 .. N - 1
            BY <1>1, <1>7, <2>2
          <5>2. N - i \in 1 .. N /\ N - i # 1 /\ N - i # N
            BY <1>1, <2>2, <5>1
          <5> QED BY <1>1, <1>7, <5>1, <5>2
        <4>2. holes.next[v[i]] = v[i] - 1
          BY <1>5, <4>1
        <4> QED BY <1>1, <4>1, <4>2
      <3>4. Spells(holes, "pending", v)
        BY <1>3, <1>4, <2>2, <3>1, <3>2, <3>3 DEF Spells
      <3>5. Distinct(v)
        BY <1>1, <1>7 DEF Distinct
      <3>6. ASSUME NEW x \in Hole PROVE On(v, x) <=> x # N
        <4>1. ASSUME x # N PROVE On(v, x)
          <5>1. N - x \in 1 .. N - 1 /\ N - (N - x) = x
            BY <1>1, <4>1
          <5> QED BY <1>7, <5>1 DEF On
        <4>2. ASSUME On(v, x) PROVE x # N
          BY <1>1, <1>7, <4>2 DEF On
        <4> QED BY <4>1, <4>2
      <3> QED BY <3>4, <3>5, <3>6
    <2> QED BY <1>1, <2>1, <2>2
  <1>11. /\ s \in [HoleList -> Seq(Hole)]
         /\ s["unused"] = u /\ s["pending"] = v /\ s["used"] = <<>>
    <2>1. <<>> \in Seq(Hole)
      OBVIOUS
    <2> QED BY <1>1, <1>7, <1>8, <2>1 DEF HoleList
  <1>12. /\ at \in [Hole -> HoleList \cup {NULL}]
         /\ \A x \in Hole : /\ at[x] = "unused" <=> x = N
                            /\ at[x] = "pending" <=> x # N
                            /\ at[x] # "used"
                            /\ at[x] \in Active => x = N
    BY <1>1 DEF Active
  <1> HIDE DEF s, at
  <1>13. Keeps(holes, Hole, HoleList, at)
    <2>1. ASSUME NEW q \in HoleList
          PROVE  /\ Spells(holes, q, s[q]) /\ Distinct(s[q])
                 /\ \A x \in Hole : On(s[q], x) <=> at[x] = q
      <3>1. CASE q = "unused"
        BY <1>9, <1>11, <1>12, <3>1
      <3>2. CASE q = "pending"
        BY <1>10, <1>11, <1>12, <3>2
      <3>3. CASE q = "used"
        <4>1. Len(s[q]) = 0
          BY <1>11, <3>3
        <4> QED BY <1>3, <1>4, <1>11, <1>12, <3>3, <4>1 DEF Spells, Distinct, On
      <3> QED BY <3>1, <3>2, <3>3 DEF HoleList
    <2> QED BY <1>11, <2>1 DEF Keeps, Spelt
  <1>14. Listed(holes, at)
    BY <1>4, <1>6, <1>12, <1>13 DEF Listed, KeepsHeads
  <1>15. /\ ORIGIN \in Nat /\ LAST \in Nat /\ BSS_SIZE \in Nat /\ SIZE_LIMIT \in Nat
         /\ ORIGIN > 0 /\ BSS_SIZE > 1 /\ ORIGIN + BSS_SIZE <= LAST /\ LAST < SIZE_LIMIT
    BY MemoryAssumption
  <1>16. BoundsOK
    <2>1. ORIGIN \in Word /\ BSS_SIZE - 1 \in Word /\ 0 \in Word
      BY <1>15 DEF Word
    <2>2. start \in [Hole -> Word] /\ length \in [Hole -> Word]
      BY <2>1 DEF Init
    <2> QED BY <1>15, <2>2 DEF BoundsOK, Init
  <1>17. start[N] = ORIGIN /\ length[N] = BSS_SIZE - 1
         /\ FREE_MEM_BEGIN = ORIGIN + BSS_SIZE /\ allocated = {}
    BY <1>1 DEF Init, N
  <1>18. HolesApart(at)
    BY <1>12, <1>15, <1>17 DEF HolesApart, Below
  <1>19. BlocksApart(at)
    BY <1>12, <1>17 DEF BlocksApart
  <1> QED BY <1>14, <1>16, <1>18, <1>19 DEF HInv

LEMMA MallocStep ==
    ASSUME HInv, NEW size \in Word, LAST + size < SIZE_LIMIT, EnoughMemory(size),
           proc_malloc(size)
    PROVE  HInv'
  <1> DEFINE S == {x \in Hole : length[x] >= size}
             h == BigEnough(size)
  <1>1. h = NULL \/ h \in OnList(holes, "unused") \cap S
    BY FirstIn, HoleConstants DEF BigEnough
  <1>2. size # 0 /\ \/ h # NULL /\ length[h] = size /\ TakeWhole(h)
                    \/ h # NULL /\ length[h] # size /\ TakePart(h, size)
                    \/ h = NULL /\ TakeNew(size)
    BY DEF proc_malloc
  <1> HIDE DEF h
  <1> QED BY <1>1, <1>2, TakeWholeStep, TakePartStep, TakeNewStep

LEMMA NextKeeps ==
    ASSUME NoWrap, HInv, [Next]_vars
    PROVE  HInv'
  <1>0. \A size \in Sizes : size \in Word /\ LAST + size < SIZE_LIMIT
    BY SizesAssumption DEF NoWrap
  <1>1. CASE UNCHANGED vars
    BY <1>1 DEF vars, HInv, BoundsOK, HolesApart, BlocksApart, Below
  <1>2. CASE Sbrk
    BY <1>0, <1>2, SbrkStep DEF Sbrk
  <1>3. CASE Malloc
    BY <1>0, <1>3, MallocStep DEF Malloc
  <1>4. CASE Free
    BY <1>4, FreeStep DEF Free
  <1>5. CASE scan_memory
    BY <1>5 DEF scan_memory, HInv, BoundsOK, HolesApart, BlocksApart, Below
  <1> QED BY <1>1, <1>2, <1>3, <1>4, <1>5 DEF Next

THEOREM HolesInvariant ==
    ASSUME NoWrap
    PROVE  Spec => []HInv
  <1>1. Init => HInv
    BY InitHolds
  <1>2. HInv /\ [Next]_vars => HInv'
    BY NextKeeps
  <1> QED BY <1>1, <1>2, PTL DEF Spec

\* Pieces that are apart have no word in common.
LEMMA NoCommonWord ==
    ASSUME NEW s \in Nat, NEW l \in Nat, NEW r \in Nat, NEW m \in Nat, Apart(s, l, r, m)
    PROVE  Words(s, l) \cap Words(r, m) = {}
  BY DEF Apart, Words

LEMMA HoldsTypes == HInv => TypeOK
  <1> SUFFICES ASSUME HInv PROVE TypeOK
    OBVIOUS
  <1>1. holes \in Stores(Hole, HoleList)
    BY DEF HInv, Listed
  <1>2. BoundsOK
    BY DEF HInv
  <1>3. FREE_MEM_BEGIN \in Word
    BY <1>2, Facts
  <1> QED BY <1>1, <1>2, <1>3 DEF TypeOK, BoundsOK

\* Every pointer of the allocator is a hole or null, and every address and
\* length a size_t, whatever is asked for and given back in whatever order.
THEOREM AllocatorTypes ==
    ASSUME NoWrap
    PROVE  Spec => []TypeOK
  BY HoldsTypes, HolesInvariant, PTL

LEMMA HoldsApart == HInv => NoOverlap
  <1> SUFFICES ASSUME HInv PROVE NoOverlap
    OBVIOUS
  <1>1. PICK at : Listed(holes, at) /\ HolesApart(at) /\ BlocksApart(at)
    BY DEF HInv
  <1>2. BoundsOK /\ OnList(holes, "unused") = {h \in Hole : at[h] = "unused"}
    BY <1>1, ListedMembers DEF HInv, HoleList
  <1>3. \A a, b \in allocated : a # b =>
          Words(a.start, a.length) \cap Words(b.start, b.length) = {}
    BY <1>1, <1>2, Facts, NoCommonWord DEF BlocksApart
  <1>4. ASSUME NEW a \in allocated
        PROVE  Words(a.start, a.length) \subseteq ORIGIN .. FREE_MEM_BEGIN - 1
    BY <1>1, <1>2, Facts DEF BlocksApart, Below, Words
  <1>5. ASSUME NEW a \in allocated, NEW h \in OnList(holes, "unused")
        PROVE  Words(a.start, a.length) \cap Words(start[h], length[h]) = {}
    BY <1>1, <1>2, Facts, NoCommonWord DEF BlocksApart
  <1> QED BY <1>3, <1>4, <1>5 DEF NoOverlap

\* However memory was taken (a whole hole, part of one, _sbrk) and given back
\* (to its neighbour, to the list, to _sbrk): no word of a block handed out is
\* in another one, in a hole that can be handed out, or above FREE_MEM_BEGIN.
THEOREM BlocksNeverOverlap ==
    ASSUME NoWrap
    PROVE  Spec => []NoOverlap
  BY HoldsApart, HolesInvariant, PTL

\* A hole is on one list at most, although the tails that hole_delete2 leaves
\* behind may be wrong: a deletion that believes them drops holes, and never
\* makes one shared.
THEOREM HolesOnOneList ==
    ASSUME NoWrap
    PROVE  Spec => []OnOneList
  <1>1. HInv => OnOneList
    <2> SUFFICES ASSUME HInv PROVE OnOneList
      OBVIOUS
    <2>1. PICK at : Listed(holes, at)
      BY DEF HInv
    <2> QED BY <2>1, ListedMembers DEF OnOneList
  <1> QED BY <1>1, HolesInvariant, PTL

\* Once memory is scanned FREE_MEM_BEGIN never passes FREE_MEM_END.
THEOREM NothingPastTheEnd ==
    ASSUME NoWrap
    PROVE  Spec => []WithinMemory
  <1>1. HInv => WithinMemory
    BY Facts DEF HInv, BoundsOK, WithinMemory
  <1> QED BY <1>1, HolesInvariant, PTL
=============================================================================
