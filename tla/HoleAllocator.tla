---------------------------- MODULE HoleAllocator ----------------------------
(***************************************************************************)
(* The memory allocator of the kernel (sys_memory.c).  Memory below        *)
(* FREE_MEM_BEGIN has been handed out by _sbrk; proc_malloc and proc_free  *)
(* keep track of pieces of it in a table of holes, each on one of three    *)
(* lists: used, unused, and pending (not describing any memory).           *)
(*                                                                         *)
(* Addresses count words from the first one scan finds free; only the      *)
(* system task (and main, before it) calls these routines, one at a time,  *)
(* so each call is a step.                                                 *)
(***************************************************************************)
EXTENDS LinkedList, FiniteSetsExt

CONSTANTS
    NUM_HOLES,    \* size of the hole table
    ORIGIN,       \* FREE_MEM_BEGIN as Scan_FREE_MEM_BEGIN finds it
    BSS_SIZE,     \* what init_memory takes for the common bss segment (1024)
    LAST,         \* FREE_MEM_END as scan_memory finds it
    SIZE_LIMIT,   \* the number of values of size_t (2^32)
    Sizes         \* the sizes asked for

Hole == 1 .. NUM_HOLES
HoleList == {"unused", "pending", "used"}
Word == 0 .. SIZE_LIMIT - 1

ASSUME TableAssumption == /\ NUM_HOLES \in Nat \ {0}
                          /\ NULL \notin Int /\ NULL \notin HoleList
ASSUME MemoryAssumption ==
    /\ {ORIGIN, BSS_SIZE, LAST, SIZE_LIMIT} \subseteq Nat
    /\ ORIGIN > 0 /\ BSS_SIZE > 1 /\ ORIGIN + BSS_SIZE <= LAST /\ LAST < SIZE_LIMIT
ASSUME SizesAssumption == Sizes \subseteq Word

VARIABLES
    holes,           \* unused_holes, pending_holes, used_holes
    start, length,   \* fields of hole_t
    FREE_MEM_BEGIN, FREE_MEM_END,
    status,          \* "running", or "wild": a null pointer was used
    allocated        \* ghost: the blocks proc_malloc and _sbrk have returned
                     \* to their callers, which have not given them back

vars == <<holes, start, length, FREE_MEM_BEGIN, FREE_MEM_END, status, allocated>>

Block(s, l, by) == [start |-> s, length |-> l, by |-> by]
-----------------------------------------------------------------------------
(* Searching and unlinking *)

OnList(L, q) == Members(L, q, NUM_HOLES)

\* The first hole of q that is in S, or NULL.
First(L, q, S) ==
    LET c    == Chain(L, q)
        hits == {n \in 0 .. NUM_HOLES : c[n] \in S}
    IN  IF hits = {} THEN NULL ELSE c[Min(hits)]

\* hole_delete2: h leaves q.  The tail is left alone unless h was the only hole.
hole_delete(L, q, h) ==
    IF L.head[q] # h
    THEN LET prev == CHOOSE p \in OnList(L, q) : L.next[p] = h
         IN  [L EXCEPT !.next = [@ EXCEPT ![prev] = L.next[h]]]
    ELSE IF L.head[q] = L.tail[q]
    THEN [L EXCEPT !.head = [@ EXCEPT ![q] = NULL],
                   !.tail = [@ EXCEPT ![q] = NULL]]
    ELSE [L EXCEPT !.head = [@ EXCEPT ![q] = L.next[h]]]
-----------------------------------------------------------------------------
(* _sbrk *)

\* The addition wraps, as unsigned addition does; there is no limit before
\* scan_memory has set FREE_MEM_END.
SbrkFails_Bug(size) == FREE_MEM_END # 0 /\ FREE_MEM_BEGIN > FREE_MEM_END
SbrkFails(size) ==
    /\ FREE_MEM_END # 0
    /\ (size + FREE_MEM_BEGIN) % SIZE_LIMIT > FREE_MEM_END
AfterSbrk_Bug(size) == (FREE_MEM_BEGIN + size - 1) % SIZE_LIMIT
AfterSbrk(size) == (FREE_MEM_BEGIN + size) % SIZE_LIMIT

_sbrk(size) ==
    IF SbrkFails(size)
    THEN UNCHANGED vars
    ELSE /\ FREE_MEM_BEGIN' = AfterSbrk(size)
         /\ allocated' = allocated \cup {Block(FREE_MEM_BEGIN, size, "sbrk")}
         /\ UNCHANGED <<holes, start, length, FREE_MEM_END, status>>
-----------------------------------------------------------------------------
(* proc_malloc *)

BigEnough_Bug(size) == holes.head["unused"]         \* the size is not compared
BigEnough(size) == First(holes, "unused", {h \in Hole : length[h] >= size})

\* A hole of exactly the size moves to the used list.
TakeWhole(h) ==
    /\ holes' = enqueue_head(hole_delete(holes, "unused", h), "used", h)
    /\ allocated' = allocated \cup {Block(start[h], length[h], "malloc")}
    /\ UNCHANGED <<start, length, FREE_MEM_BEGIN, FREE_MEM_END, status>>

\* A larger one gives its beginning away, described by a pending hole n.
TakePart(h, size) ==
    LET n == holes.head["pending"] IN
    \/ /\ n # NULL
       /\ start' = [start EXCEPT ![h] = @ + size, ![n] = start[h]]
       /\ length' = [length EXCEPT ![h] = @ - size, ![n] = size]
       /\ holes' = enqueue_head(dequeue(holes, "pending"), "used", n)
       /\ allocated' = allocated \cup {Block(start[h], size, "malloc")}
       /\ UNCHANGED <<FREE_MEM_BEGIN, FREE_MEM_END, status>>
    \/ /\ n = NULL
       /\ status' = "wild"
       /\ start' = [start EXCEPT ![h] = @ + size]
       /\ length' = [length EXCEPT ![h] = @ - size]
       /\ UNCHANGED <<holes, FREE_MEM_BEGIN, FREE_MEM_END, allocated>>

\* No hole is large enough: _sbrk.  When no hole is pending the memory is taken
\* and NULL is returned.
TakeNew(size) ==
    LET n == holes.head["pending"] IN
    \/ SbrkFails(size) /\ UNCHANGED vars
    \/ /\ ~SbrkFails(size)
       /\ n # NULL
       /\ FREE_MEM_BEGIN' = AfterSbrk(size)
       /\ start' = [start EXCEPT ![n] = FREE_MEM_BEGIN]
       /\ length' = [length EXCEPT ![n] = size]
       /\ holes' = enqueue_head(dequeue(holes, "pending"), "used", n)
       /\ allocated' = allocated \cup {Block(FREE_MEM_BEGIN, size, "malloc")}
       /\ UNCHANGED <<FREE_MEM_END, status>>
    \/ /\ ~SbrkFails(size)
       /\ n = NULL
       /\ FREE_MEM_BEGIN' = AfterSbrk(size)
       /\ UNCHANGED <<holes, start, length, FREE_MEM_END, status, allocated>>

proc_malloc(size) ==
    LET h == BigEnough(size) IN
    /\ size # 0
    /\ \/ h # NULL /\ length[h] = size /\ TakeWhole(h)
       \/ h # NULL /\ length[h] # size /\ TakePart(h, size)
       \/ h = NULL /\ TakeNew(size)
-----------------------------------------------------------------------------
(* proc_free *)

End(h) == start[h] + length[h]

\* merge_holes(unused_holes, h), h being on no list in L.  hole_delete has no
\* return statement: the caller reads the 1 that hole_delete2 left behind.
Adjacent(L, h) ==
    First(L, "unused", {c \in Hole : End(c) = start[h] \/ End(h) = start[c]})

merge_holes_Bug(L, h) ==            \* the start of the merged hole stays
    LET c == Adjacent(L, h) IN
    /\ holes' = enqueue_head(L, IF c = NULL THEN "unused" ELSE "pending", h)
    /\ length' = IF c = NULL THEN length ELSE [length EXCEPT ![c] = @ + length[h]]
    /\ UNCHANGED <<start, FREE_MEM_BEGIN>>
merge_holes(L, h) ==
    LET c == Adjacent(L, h) IN
    \/ /\ End(h) = FREE_MEM_BEGIN
       /\ FREE_MEM_BEGIN' = FREE_MEM_BEGIN - length[h]
       /\ holes' = enqueue_head(L, "pending", h)
       /\ UNCHANGED <<start, length>>
    \/ /\ End(h) # FREE_MEM_BEGIN /\ c # NULL
       /\ start' = IF End(c) = start[h] THEN start
                   ELSE [start EXCEPT ![c] = @ - length[h]]
       /\ length' = [length EXCEPT ![c] = @ + length[h]]
       /\ holes' = enqueue_head(L, "pending", h)
       /\ UNCHANGED FREE_MEM_BEGIN
    \/ /\ End(h) # FREE_MEM_BEGIN /\ c = NULL
       /\ holes' = enqueue_head(L, "unused", h)
       /\ UNCHANGED <<start, length, FREE_MEM_BEGIN>>

\* The owner of the block at p gives it back.  If no used hole starts there
\* nothing happens: the memory is not reused.
proc_free_Bug(p) ==                 \* the hole stays on the used list
    LET h == First(holes, "used", {c \in Hole : start[c] = p}) IN
    /\ allocated' = {b \in allocated : b.start # p}
    /\ UNCHANGED <<FREE_MEM_END, status>>
    /\ \/ h = NULL /\ UNCHANGED <<holes, start, length, FREE_MEM_BEGIN>>
       \/ h # NULL /\ merge_holes(holes, h)
proc_free(p) ==
    LET h == First(holes, "used", {c \in Hole : start[c] = p}) IN
    /\ allocated' = {b \in allocated : b.start # p}
    /\ UNCHANGED <<FREE_MEM_END, status>>
    /\ \/ h = NULL /\ UNCHANGED <<holes, start, length, FREE_MEM_BEGIN>>
       \/ h # NULL /\ merge_holes(hole_delete(holes, "used", h), h)
-----------------------------------------------------------------------------
\* scan_memory, when the system task starts.  Until then "we just assume there
\* is enough memory".
scan_memory ==
    /\ FREE_MEM_END = 0
    /\ FREE_MEM_END' = LAST
    /\ UNCHANGED <<holes, start, length, FREE_MEM_BEGIN, status, allocated>>

\* Requests so large that FREE_MEM_BEGIN + size wraps are left out: for one of
\* them the comparison of _sbrk passes and FREE_MEM_BEGIN moves backwards.
NoWrap == \A size \in Sizes : LAST + size < SIZE_LIMIT

EnoughMemory(size) == FREE_MEM_END # 0 \/ FREE_MEM_BEGIN + size <= LAST

\* init_memory: every hole is put at the head of the pending list, then the
\* last one, NUM_HOLES, is taken for the common bss segment; its final word is
\* left out of the hole.
Init ==
    /\ holes = [head |-> [q \in HoleList |->
                    CASE q = "unused" -> NUM_HOLES
                      [] q = "pending" -> IF NUM_HOLES > 1 THEN NUM_HOLES - 1 ELSE NULL
                      [] OTHER -> NULL],
                tail |-> [q \in HoleList |->
                    CASE q = "unused" -> NUM_HOLES
                      [] q = "pending" -> IF NUM_HOLES > 1 THEN 1 ELSE NULL
                      [] OTHER -> NULL],
                next |-> [h \in Hole |-> IF h \in {1, NUM_HOLES} THEN NULL
                                         ELSE h - 1]]
    /\ start = [h \in Hole |-> IF h = NUM_HOLES THEN ORIGIN ELSE 0]
    /\ length = [h \in Hole |-> IF h = NUM_HOLES THEN BSS_SIZE - 1 ELSE 0]
    /\ FREE_MEM_BEGIN = ORIGIN + BSS_SIZE
    /\ FREE_MEM_END = 0
    /\ status = "running"
    /\ allocated = {}

Sbrk   == \E size \in Sizes : EnoughMemory(size) /\ _sbrk(size)
Malloc == \E size \in Sizes : EnoughMemory(size) /\ proc_malloc(size)
Free   == \E b \in allocated : proc_free(b.start)

Next == \/ status = "running" /\ (Sbrk \/ Malloc \/ Free \/ scan_memory)
        \/ status # "running" /\ UNCHANGED vars

Spec == Init /\ [][Next]_vars
-----------------------------------------------------------------------------
(* Properties *)

\* Every pointer is a hole or null, every address and length is a size_t.
TypeOK ==
    /\ holes \in Stores(Hole, HoleList)
    /\ start \in [Hole -> Word] /\ length \in [Hole -> Word]
    /\ FREE_MEM_BEGIN \in Word /\ FREE_MEM_END \in {0, LAST}
    /\ status \in {"running", "wild"}
    /\ allocated \subseteq [start : Word, length : Word, by : {"malloc", "sbrk"}]

Words(s, l) == s .. s + l - 1

\* Two blocks that are handed out, however they were taken and whatever was
\* freed, split, merged or retracted in between, share no word; none shares a
\* word with a hole that can be handed out next, or lies above FREE_MEM_BEGIN,
\* where _sbrk takes from.
NoOverlap ==
    /\ \A a, b \in allocated :
         a # b => Words(a.start, a.length) \cap Words(b.start, b.length) = {}
    /\ \A a \in allocated :
         /\ Words(a.start, a.length) \subseteq ORIGIN .. FREE_MEM_BEGIN - 1
         /\ \A h \in OnList(holes, "unused") :
              Words(a.start, a.length) \cap Words(start[h], length[h]) = {}

\* A hole is on one list at most, whatever the deletions left of the tails: a
\* hole never describes memory in use and memory to give out at once.
OnOneList ==
    \A q, r \in HoleList : q # r => OnList(holes, q) \cap OnList(holes, r) = {}

\* Once memory has been scanned nothing at or above FREE_MEM_END is handed out.
WithinMemory == FREE_MEM_END # 0 => FREE_MEM_BEGIN <= FREE_MEM_END

\* proc_free finds "any starting address of the used hole that matches"
\* (sys_memory.c:201-205): each block proc_malloc returned stays on the used
\* list until it is freed.
FreeFindsBlock ==
    \A b \in allocated : b.by = "malloc" =>
        \E h \in OnList(holes, "used") : start[h] = b.start
=============================================================================
