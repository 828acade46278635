----------------------------- MODULE LinkedList -----------------------------
(***************************************************************************)
(* The intrusive singly linked lists of the kernel (proc.c, and the same   *)
(* routines over hole_t in sys_memory.c).  A list is a head and a tail     *)
(* pointer; the link is a field of the element, so an element has ONE link *)
(* however many lists it is put on.  A store L keeps the pointers of a     *)
(* family of lists over the same elements:                                 *)
(*   L.head[q], L.tail[q]   the two pointers of list q                     *)
(*   L.next[p]              the "next" field of element p                  *)
(* Nothing here assumes that an element is on one list only: what happens  *)
(* when it is on two is exactly what the pointers do.                      *)
(***************************************************************************)
EXTENDS Integers, Sequences, FiniteSets

CONSTANT NULL    \* the null pointer: not an element

\* Every store of lists named by the set List over the elements Node.
Stores(Node, List) == [head : [List -> Node \cup {NULL}],
                       tail : [List -> Node \cup {NULL}],
                       next : [Node -> Node \cup {NULL}]]

\* (The operators named ..._Bug here and in the other modules are the operator
\* that follows them with a plausible mistake in it; nothing uses them but the
\* checks that the properties would notice the mistake.)
enqueue_tail_Bug(L, q, p) ==      \* the tail of a list of one is not set
    IF L.head[q] = NULL
    THEN [L EXCEPT !.head = [@ EXCEPT ![q] = p], !.next = [@ EXCEPT ![p] = NULL]]
    ELSE [L EXCEPT !.tail = [@ EXCEPT ![q] = p],
                   !.next = [@ EXCEPT ![L.tail[q]] = p, ![p] = NULL]]

enqueue_tail(L, q, p) ==
    IF L.head[q] = NULL
    THEN [L EXCEPT !.head = [@ EXCEPT ![q] = p],
                   !.tail = [@ EXCEPT ![q] = p],
                   !.next = [@ EXCEPT ![p] = NULL]]
    ELSE [L EXCEPT !.tail = [@ EXCEPT ![q] = p],
                   !.next = [@ EXCEPT ![L.tail[q]] = p, ![p] = NULL]]

enqueue_head(L, q, p) ==
    IF L.head[q] = NULL
    THEN [L EXCEPT !.head = [@ EXCEPT ![q] = p],
                   !.tail = [@ EXCEPT ![q] = p],
                   !.next = [@ EXCEPT ![p] = NULL]]
    ELSE [L EXCEPT !.head = [@ EXCEPT ![q] = p],
                   !.next = [@ EXCEPT ![p] = L.head[q]]]

dequeue_Bug(L, q) ==              \* the tail is left behind
    LET p == L.head[q] IN
    IF p = NULL THEN L
    ELSE [L EXCEPT !.head = [@ EXCEPT ![q] = L.next[p]],
                   !.next = [@ EXCEPT ![p] = NULL]]

\* The store after the head of q is taken off; the element that comes off is
\* L.head[q].  On an empty list nothing changes.
dequeue(L, q) ==
    LET p == L.head[q] IN
    IF p = NULL THEN L
    ELSE IF p = L.tail[q]
    THEN [L EXCEPT !.head = [@ EXCEPT ![q] = NULL],
                   !.tail = [@ EXCEPT ![q] = NULL],
                   !.next = [@ EXCEPT ![p] = NULL]]
    ELSE [L EXCEPT !.head = [@ EXCEPT ![q] = L.next[p]],
                   !.next = [@ EXCEPT ![p] = NULL]]
-----------------------------------------------------------------------------
\* Readings of a store, used to state properties of it.

\* The n-th element met by following the links of q, or NULL past its end.
Chain(L, q) ==
    LET f[n \in Nat] == IF n = 0 THEN L.head[q]
                        ELSE LET p == f[n - 1]
                             IN  IF p = NULL THEN NULL ELSE L.next[p]
    IN  f

\* The elements of q among the first "bound" links (bound: the number of
\* elements that exist, so every element reachable from q is met).
Members(L, q, bound) ==
    LET c == Chain(L, q) IN {c[n] : n \in 0 .. bound} \ {NULL}

\* The elements of q in the order of its links.
Spelling(L, q, bound) ==
    [n \in 1 .. Cardinality(Members(L, q, bound)) |-> Chain(L, q)[n - 1]]

\* The links of q spell the sequence s: q really is a list holding s.
Spells(L, q, s) ==
    IF s = <<>> THEN L.head[q] = NULL /\ L.tail[q] = NULL
    ELSE /\ L.head[q] = s[1]
         /\ L.tail[q] = s[Len(s)]
         /\ L.next[s[Len(s)]] = NULL
         /\ \A i \in 1 .. Len(s) - 1 : L.next[s[i]] = s[i + 1]

\* q is a proper list: following the links from its head ends, without a
\* repetition, at its tail.
Proper(L, q, bound) ==
    /\ Chain(L, q)[Cardinality(Members(L, q, bound))] = NULL
    /\ Spells(L, q, Spelling(L, q, bound))
=============================================================================
