----------------------------- MODULE MemoryProofs -----------------------------
(***************************************************************************)
(* What is proved of Session about the boot and about who owns memory, for *)
(* every size of the tables and of the memory and every set of programs.   *)
(***************************************************************************)
EXTENDS SessionProofs, HoleAllocatorProofs

-----------------------------------------------------------------------------
(* What main leaves behind: the state from which Kernel starts.  Boot is *)
(* deterministic in the table: the proof writes it out at each call.     *)

\* The lists when the entries before n have been handed out; "both" says that the
\* shell waits behind init.
BootLists(n, both) ==
    [head |-> [q \in Queue |->
         CASE q = FREE            -> IF n < NUM_PROCS THEN n ELSE NULL
           [] q = SYSTEM_PRIORITY -> IF n > 0 THEN 0 ELSE NULL
           [] q = IDLE_PRIORITY   -> IF n > 1 THEN 1 ELSE NULL
           [] q = USER_PRIORITY   -> IF n > 2 THEN 2 ELSE NULL
           [] OTHER               -> NULL],
     tail |-> [q \in Queue |->
         CASE q = FREE            -> IF n < NUM_PROCS THEN NUM_PROCS - 1 ELSE NULL
           [] q = SYSTEM_PRIORITY -> IF n > 0 THEN 0 ELSE NULL
           [] q = IDLE_PRIORITY   -> IF n > 1 THEN 1 ELSE NULL
           [] q = USER_PRIORITY   -> IF both THEN 3 ELSE IF n > 2 THEN 2 ELSE NULL
           [] OTHER               -> NULL],
     next |-> [p \in Proc |->
         IF p < n THEN IF both /\ p = 2 THEN 3 ELSE NULL
         ELSE IF p = NUM_PROCS - 1 THEN NULL ELSE p + 1]]

\* A field of the process table.
Field(f) == f = [p \in Proc |-> f[p]]

\* The table then; the fourth entry is in the state st and has the quantum ticks.
BootTable(n, both, st, ticks) ==
    /\ lists = BootLists(n, both)
    /\ current_proc = NULL
    /\ Field(state) /\ Field(priority) /\ Field(quantum)
    /\ \A p \in Proc : state[p] = IF p >= n THEN "DEAD" ELSE IF p = 3 THEN st
                                  ELSE "RUNNABLE"
    /\ \A p \in Proc : priority[p] = IF p >= n \/ p = 0 THEN SYSTEM_PRIORITY
                                     ELSE IF p = 1 THEN IDLE_PRIORITY
                                     ELSE USER_PRIORITY
    /\ \A p \in Proc : quantum[p] = IF p >= n THEN 0
                                    ELSE CASE p = 0 -> SYSTEM_QUANTUM
                                           [] p = 1 -> DEFAULT_QUANTUM
                                           [] p = 2 -> INIT_QUANTUM
                                           [] OTHER -> ticks
    /\ ticks_left = [p \in Proc |-> 0]

\* The table as main's calls leave it.
BootOK ==
    /\ boot_pc = "init_proc" =>
           /\ lists = [head |-> [q \in Queue |-> NULL], tail |-> [q \in Queue |-> NULL],
                       next |-> [p \in Proc |-> NULL]]
           /\ current_proc = NULL
           /\ state = [p \in Proc |-> "DEAD"]
           /\ priority = [p \in Proc |-> 0]
           /\ quantum = [p \in Proc |-> 0]
           /\ ticks_left = [p \in Proc |-> 0]
    /\ boot_pc = "new SYSTEM"    => BootTable(0, FALSE, "DEAD", 0)
    /\ boot_pc = "new IDLE"      => BootTable(1, FALSE, "DEAD", 0)
    /\ boot_pc = "exec init"     => BootTable(2, FALSE, "DEAD", 0)
    /\ boot_pc = "fork init"     => BootTable(3, FALSE, "DEAD", 0)
    /\ boot_pc = "free the copy" => BootTable(4, FALSE, "RUNNABLE", INIT_QUANTUM)
    /\ boot_pc = "exec Shell"    => BootTable(4, FALSE, "INITIALISING", INIT_QUANTUM)
    /\ boot_pc = "sched"         => BootTable(4, TRUE, "RUNNABLE", SHELL_QUANTUM)
-----------------------------------------------------------------------------
LEMMA BootConstants ==
    /\ NUM_PROCS \in Nat /\ NUM_PROCS >= 4 /\ Proc = 0 .. NUM_PROCS - 1
    /\ {0, 1, 2, 3, NUM_PROCS - 1} \subseteq Proc
    /\ Queue = {0, 1, 2, 3, 4, 5}
    /\ FREE = 5 /\ SYSTEM_PRIORITY = 0 /\ IDLE_PRIORITY = 4 /\ USER_PRIORITY = 3
    /\ \A p \in Proc : p \in Int /\ p # NULL
    /\ NULL \notin Proc /\ NULL \notin Int
  BY ImageAssumption, BootAssumption, TableAssumption
     DEF Proc, Queue, FREE, NUM_QUEUES, SYSTEM_PRIORITY, IDLE_PRIORITY, USER_PRIORITY

\* init_proc links all entries in order.
LEMMA InitProcLists ==
    ASSUME init_proc, boot_pc = "init_proc", BootOK
    PROVE  lists' = BootLists(0, FALSE)
  <1> DEFINE N == NUM_PROCS
             F(f) == [n \in 0 .. N |-> IF n = 0 THEN lists
                                       ELSE enqueue_tail(f[n - 1], FREE, n - 1)]
             c == CHOOSE f : f = F(f)
             G(n) == [head |-> [q \in Queue |-> IF q = FREE /\ n > 0 THEN 0 ELSE NULL],
                      tail |-> [q \in Queue |-> IF q = FREE /\ n > 0 THEN n - 1 ELSE NULL],
                      next |-> [p \in Proc |-> IF p < n - 1 THEN p + 1 ELSE NULL]]
             g == [n \in 0 .. N |-> G(n)]
             S == {n \in Nat : n \in 0 .. N => c[n] = g[n]}
  <1>1. lists' = c[N]
    BY DEF init_proc
  <1>2. N \in Nat /\ N >= 4 /\ Proc = 0 .. N - 1 /\ Queue = {0, 1, 2, 3, 4, 5} /\ FREE = 5
        /\ NULL \notin Proc /\ \A p \in Proc : p # NULL
    BY BootConstants
  <1>3. lists = G(0)
    <2>1. lists = [head |-> [q \in Queue |-> NULL], tail |-> [q \in Queue |-> NULL],
                   next |-> [p \in Proc |-> NULL]]
      BY DEF BootOK
    <2>2. /\ [q \in Queue |-> NULL] = [q \in Queue |-> IF q = FREE /\ 0 > 0 THEN 0 ELSE NULL]
          /\ [q \in Queue |-> NULL]
                = [q \in Queue |-> IF q = FREE /\ 0 > 0 THEN 0 - 1 ELSE NULL]
      OBVIOUS
    <2>3. [p \in Proc |-> NULL] = [p \in Proc |-> IF p < 0 - 1 THEN p + 1 ELSE NULL]
      BY <1>2
    <2> QED BY <2>1, <2>2, <2>3
  <1>4. ASSUME NEW n \in 1 .. N PROVE enqueue_tail(G(n - 1), FREE, n - 1) = G(n)
    <2> DEFINE L == G(n - 1)
               E == enqueue_tail(L, FREE, n - 1)
    <2> SUFFICES E = G(n)
      OBVIOUS
    <2>1. n - 1 \in Proc /\ n \in Nat /\ n - 1 \in Nat
      BY <1>2
    <2>0. /\ L.head = [q \in Queue |-> IF q = FREE /\ n - 1 > 0 THEN 0 ELSE NULL]
          /\ L.tail = [q \in Queue |-> IF q = FREE /\ n - 1 > 0 THEN n - 2 ELSE NULL]
          /\ L.next = [p \in Proc |-> IF p < n - 2 THEN p + 1 ELSE NULL]
          /\ L = [head |-> L.head, tail |-> L.tail, next |-> L.next]
      OBVIOUS
    <2>4. G(n) = [head |-> [q \in Queue |-> IF q = FREE /\ n > 0 THEN 0 ELSE NULL],
                  tail |-> [q \in Queue |-> IF q = FREE /\ n > 0 THEN n - 1 ELSE NULL],
                  next |-> [p \in Proc |-> IF p < n - 1 THEN p + 1 ELSE NULL]]
      OBVIOUS
    <2>2. CASE n = 1
      <3>1. L.head[FREE] = NULL
        BY <1>2, <2>2
      <3> HIDE DEF L, G
      <3>2. E = [head |-> [L.head EXCEPT ![FREE] = n - 1],
                 tail |-> [L.tail EXCEPT ![FREE] = n - 1],
                 next |-> [L.next EXCEPT ![n - 1] = NULL]]
        BY <2>0, <3>1 DEF enqueue_tail
      <3>3. [L.head EXCEPT ![FREE] = n - 1]
                = [q \in Queue |-> IF q = FREE /\ n > 0 THEN 0 ELSE NULL]
        BY <1>2, <2>0, <2>2
      <3>4. [L.tail EXCEPT ![FREE] = n - 1]
                = [q \in Queue |-> IF q = FREE /\ n > 0 THEN n - 1 ELSE NULL]
        BY <1>2, <2>0, <2>2
      <3>5. [L.next EXCEPT ![n - 1] = NULL]
                = [p \in Proc |-> IF p < n - 1 THEN p + 1 ELSE NULL]
        <4>1. \A p \in Proc : ~(p < n - 1) /\ ~(p < n - 2)
          BY <1>2, <2>2
        <4>2. L.next = [p \in Proc |-> NULL]
          BY <2>0, <4>1
        <4>3. [p \in Proc |-> NULL] = [p \in Proc |-> IF p < n - 1 THEN p + 1 ELSE NULL]
          BY <4>1
        <4> QED BY <4>2, <4>3
      <3> HIDE DEF E
      <3> QED BY <2>4, <3>2, <3>3, <3>4, <3>5
    <2>3. CASE n > 1
      <3>1. L.head[FREE] = 0 /\ L.tail[FREE] = n - 2 /\ 0 # NULL
        <4>1. n - 1 > 0 /\ FREE \in Queue /\ 0 \in Int /\ n - 2 = (n - 1) - 1
          BY <1>2, <2>1, <2>3
        <4> QED BY <4>1, <2>0, BootConstants
      <3> HIDE DEF L, G
      <3>2. E = [head |-> L.head,
                 tail |-> [L.tail EXCEPT ![FREE] = n - 1],
                 next |-> [L.next EXCEPT ![n - 2] = n - 1, ![n - 1] = NULL]]
        BY <2>0, <3>1 DEF enqueue_tail
      <3>3. L.head = [q \in Queue |-> IF q = FREE /\ n > 0 THEN 0 ELSE NULL]
        BY <1>2, <2>0, <2>1, <2>3
      <3>4. [L.tail EXCEPT ![FREE] = n - 1]
                = [q \in Queue |-> IF q = FREE /\ n > 0 THEN n - 1 ELSE NULL]
        <4>1. n > 0 /\ FREE \in Queue
          BY <1>2, <2>1, <2>3
        <4>2. ASSUME NEW q \in Queue
              PROVE  [L.tail EXCEPT ![FREE] = n - 1][q]
                         = IF q = FREE /\ n > 0 THEN n - 1 ELSE NULL
          BY <2>0, <4>1
        <4>3. [L.tail EXCEPT ![FREE] = n - 1]
                  = [q \in Queue |-> [L.tail EXCEPT ![FREE] = n - 1][q]]
          BY <2>0
        <4> HIDE <2>0
        <4> QED BY <4>2, <4>3
      <3>5. [L.next EXCEPT ![n - 2] = n - 1, ![n - 1] = NULL]
                = [p \in Proc |-> IF p < n - 1 THEN p + 1 ELSE NULL]
        <4>1. n \in Int /\ n - 2 \in Proc /\ n - 1 \in Proc
          BY <1>2, <2>1, <2>3
        <4>2. ASSUME NEW p \in Proc
              PROVE  [L.next EXCEPT ![n - 2] = n - 1, ![n - 1] = NULL][p]
                         = IF p < n - 1 THEN p + 1 ELSE NULL
          <5>1. p \in Int /\ (p = n - 2 => p + 1 = n - 1)
            BY <1>2, <4>1
          <5>2. CASE p = n - 1
            BY <2>0, <4>1, <5>1, <5>2
          <5>3. CASE p = n - 2
            BY <2>0, <4>1, <5>1, <5>3
          <5>4. CASE p # n - 1 /\ p # n - 2
            BY <2>0, <4>1, <5>1, <5>4
          <5> QED BY <5>2, <5>3, <5>4
        <4>3. [L.next EXCEPT ![n - 2] = n - 1, ![n - 1] = NULL]
                  = [p \in Proc |->
                        [L.next EXCEPT ![n - 2] = n - 1, ![n - 1] = NULL][p]]
          BY <2>0
        <4> QED BY <4>2, <4>3
      <3> HIDE DEF E
      <3> QED BY <2>4, <3>2, <3>3, <3>4, <3>5
    <2>5. n = 1 \/ n > 1
      BY <1>2
    <2> QED BY <2>2, <2>3, <2>5
  <1> HIDE DEF G
  <1>5. g = F(g)
    <2>1. ASSUME NEW n \in 0 .. N
          PROVE  g[n] = IF n = 0 THEN lists ELSE enqueue_tail(g[n - 1], FREE, n - 1)
      <3>1. n # 0 => n \in 1 .. N /\ n - 1 \in 0 .. N
        BY <1>2
      <3> QED BY <1>3, <1>4, <3>1
    <2> QED BY <2>1
  <1> HIDE DEF c
  <1>6. c = F(c)
    <2> HIDE DEF F
    <2> QED BY <1>5 DEF c
  <1>7. 0 \in S
    BY <1>3, <1>6
  <1>8. ASSUME NEW n \in Nat, n \in S PROVE n + 1 \in S
    <2> SUFFICES ASSUME n + 1 \in 0 .. N PROVE c[n + 1] = g[n + 1]
      OBVIOUS
    <2>1. n \in 0 .. N /\ n + 1 # 0 /\ (n + 1) - 1 = n /\ n + 1 \in 1 .. N
      BY <1>2
    <2>2. c[n] = G(n)
      BY <1>8, <2>1
    <2>3. c[n + 1] = enqueue_tail(c[n], FREE, n)
      BY <1>6, <2>1
    <2>4. enqueue_tail(G(n), FREE, n) = G(n + 1)
      BY <1>4, <2>1
    <2> QED BY <2>1, <2>2, <2>3, <2>4
  <1>9. Nat \subseteq S
    <2> HIDE DEF S
    <2> QED BY <1>7, <1>8, Induction
  <1>10. c[N] = G(N)
    <2>1. N \in Nat /\ N \in 0 .. N
      BY <1>2
    <2>2. c[N] = g[N]
      BY <1>9, <2>1 DEF S
    <2>3. g[N] = G(N)
      BY <2>1
    <2> QED BY <2>2, <2>3
  <1>11. G(N) = BootLists(0, FALSE)
    <2>1. /\ G(N).head = BootLists(0, FALSE).head
          /\ G(N).tail = BootLists(0, FALSE).tail
          /\ G(N).next = BootLists(0, FALSE).next
      BY <1>2, BootConstants DEF G, BootLists
    <2> QED BY <2>1 DEF G, BootLists
  <1> QED BY <1>1, <1>10, <1>11

\* Two stores with the same pointers are the same.
LEMMA SameStore ==
    ASSUME NEW L \in Stores(Proc, Queue), NEW M \in Stores(Proc, Queue),
           \A q \in Queue : L.head[q] = M.head[q] /\ L.tail[q] = M.tail[q],
           \A p \in Proc : L.next[p] = M.next[p]
    PROVE  L = M
  <1>1. /\ L.head = M.head /\ L.tail = M.tail /\ L.next = M.next
    BY DEF Stores
  <1> QED BY <1>1 DEF Stores

LEMMA BootStores ==
    ASSUME NEW n \in 0 .. 4
    PROVE  /\ BootLists(n, FALSE) \in Stores(Proc, Queue)
           /\ BootLists(n, TRUE) \in Stores(Proc, Queue)
  <1>1. /\ 0 \in Proc /\ 1 \in Proc /\ 2 \in Proc /\ 3 \in Proc /\ NUM_PROCS - 1 \in Proc
        /\ NUM_PROCS \in Nat /\ Proc = 0 .. NUM_PROCS - 1 /\ n \in Int
    BY BootConstants
  <1>2. n < NUM_PROCS => n \in Proc
    BY <1>1
  <1>3. \A p \in Proc : p # NUM_PROCS - 1 => p + 1 \in Proc
    BY <1>1
  <1>4. /\ BootLists(n, FALSE).head \in [Queue -> Proc \cup {NULL}]
        /\ BootLists(n, FALSE).tail \in [Queue -> Proc \cup {NULL}]
    BY <1>1, <1>2 DEF BootLists
  <1>5. BootLists(n, FALSE).next \in [Proc -> Proc \cup {NULL}]
    BY <1>1, <1>3 DEF BootLists
  <1>6. /\ BootLists(n, TRUE).head \in [Queue -> Proc \cup {NULL}]
        /\ BootLists(n, TRUE).tail \in [Queue -> Proc \cup {NULL}]
    BY <1>1, <1>2 DEF BootLists
  <1>7. BootLists(n, TRUE).next \in [Proc -> Proc \cup {NULL}]
    BY <1>1, <1>3 DEF BootLists
  <1> QED BY <1>4, <1>5, <1>6, <1>7 DEF BootLists, Stores

\* get_free_proc takes entry n.
LEMMA TakeEntry ==
    ASSUME NEW n \in 0 .. 3
    PROVE  LET L == BootLists(n, FALSE)
               D == dequeue(L, FREE)
           IN  /\ L.head[FREE] = n
               /\ D \in Stores(Proc, Queue)
               /\ D.head[FREE] = IF n + 1 < NUM_PROCS THEN n + 1 ELSE NULL
               /\ D.tail[FREE] = IF n + 1 < NUM_PROCS THEN NUM_PROCS - 1 ELSE NULL
               /\ \A q \in Queue \ {FREE} : D.head[q] = L.head[q] /\ D.tail[q] = L.tail[q]
               /\ \A p \in Proc : D.next[p] = IF p = n THEN NULL ELSE L.next[p]
  <1> DEFINE L == BootLists(n, FALSE)
             D == dequeue(L, FREE)
  <1>1. /\ NUM_PROCS \in Nat /\ NUM_PROCS >= 4 /\ n \in Int /\ n < NUM_PROCS
        /\ n \in Proc /\ n # NULL /\ FREE \in Queue /\ NUM_PROCS - 1 \in Proc
        /\ NUM_PROCS - 1 # NULL
    BY BootConstants
  <1>2. L \in Stores(Proc, Queue)
    <2>1. n \in 0 .. 4
      OBVIOUS
    <2> QED BY <2>1, BootStores
  <1>3. L.head[FREE] = n /\ L.tail[FREE] = NUM_PROCS - 1
    BY <1>1, BootConstants DEF BootLists
  <1>4. L.next[n] = IF n = NUM_PROCS - 1 THEN NULL ELSE n + 1
    BY <1>1 DEF BootLists
  <1> HIDE DEF L
  <1>5. CASE n = NUM_PROCS - 1
    <2>1. D = [L EXCEPT !.head = [@ EXCEPT ![FREE] = NULL],
                        !.tail = [@ EXCEPT ![FREE] = NULL],
                        !.next = [@ EXCEPT ![n] = NULL]]
      BY <1>1, <1>3, <1>5 DEF dequeue
    <2>2. ~(n + 1 < NUM_PROCS)
      BY <1>1, <1>5
    <2> HIDE DEF D
    <2>3. /\ D \in Stores(Proc, Queue)
          /\ D.head[FREE] = NULL /\ D.tail[FREE] = NULL
          /\ \A q \in Queue \ {FREE} : D.head[q] = L.head[q] /\ D.tail[q] = L.tail[q]
          /\ \A p \in Proc : D.next[p] = IF p = n THEN NULL ELSE L.next[p]
      BY <1>1, <1>2, <2>1 DEF Stores
    <2> QED BY <1>3, <2>2, <2>3 DEF L, D
  <1>6. CASE n # NUM_PROCS - 1
    <2>1. D = [L EXCEPT !.head = [@ EXCEPT ![FREE] = n + 1],
                        !.next = [@ EXCEPT ![n] = NULL]]
      BY <1>1, <1>3, <1>4, <1>6 DEF dequeue
    <2>2. n + 1 < NUM_PROCS /\ n + 1 \in Proc
      BY <1>1, <1>6, BootConstants
    <2> HIDE DEF D
    <2>3. /\ D \in Stores(Proc, Queue)
          /\ D.head[FREE] = n + 1 /\ D.tail[FREE] = NUM_PROCS - 1
          /\ \A q \in Queue \ {FREE} : D.head[q] = L.head[q] /\ D.tail[q] = L.tail[q]
          /\ \A p \in Proc : D.next[p] = IF p = n THEN NULL ELSE L.next[p]
      BY <1>1, <1>2, <1>3, <2>1, <2>2 DEF Stores
    <2> QED BY <1>3, <2>2, <2>3 DEF L, D
  <1> QED BY <1>5, <1>6

\* The priority main gives to the entries it queues.
PriorityOf(n) == IF n = 0 THEN SYSTEM_PRIORITY
                 ELSE IF n = 1 THEN IDLE_PRIORITY ELSE USER_PRIORITY

\* new_proc and exec_new_proc: entry n is taken and queued.
LEMMA AdmitEntry ==
    ASSUME NEW n \in 0 .. 2
    PROVE  enqueue_tail(dequeue(BootLists(n, FALSE), FREE), PriorityOf(n), n)
               = BootLists(n + 1, FALSE)
  <1> DEFINE prio == PriorityOf(n)
             L == BootLists(n, FALSE)
             D == dequeue(L, FREE)
             E == enqueue_tail(D, prio, n)
             B == BootLists(n + 1, FALSE)
  <1>1. /\ NUM_PROCS \in Nat /\ NUM_PROCS >= 4 /\ n \in Int /\ n < NUM_PROCS
        /\ n \in Proc /\ n # NULL /\ prio \in Queue \ {FREE} /\ FREE \in Queue
        /\ \/ n = 0 /\ prio = SYSTEM_PRIORITY
           \/ n = 1 /\ prio = IDLE_PRIORITY
           \/ n = 2 /\ prio = USER_PRIORITY
    BY BootConstants DEF PriorityOf
  <1> HIDE DEF prio
  <1>2. /\ L \in Stores(Proc, Queue) /\ B \in Stores(Proc, Queue)
    <2>1. n \in 0 .. 4 /\ n + 1 \in 0 .. 4
      OBVIOUS
    <2> QED BY <2>1, BootStores
  <1>3. /\ D \in Stores(Proc, Queue)
        /\ D.head[FREE] = IF n + 1 < NUM_PROCS THEN n + 1 ELSE NULL
        /\ D.tail[FREE] = IF n + 1 < NUM_PROCS THEN NUM_PROCS - 1 ELSE NULL
        /\ \A q \in Queue \ {FREE} : D.head[q] = L.head[q] /\ D.tail[q] = L.tail[q]
        /\ \A p \in Proc : D.next[p] = IF p = n THEN NULL ELSE L.next[p]
    <2>1. n \in 0 .. 3
      OBVIOUS
    <2> QED BY <2>1, TakeEntry
  <1>4. L.head[prio] = NULL
    BY <1>1, BootConstants DEF BootLists
  <1>5. D.head[prio] = NULL
    BY <1>1, <1>3, <1>4
  <1>6. \A q \in Queue \ {FREE} : /\ B.head[q] = IF q = prio THEN n ELSE L.head[q]
                                  /\ B.tail[q] = IF q = prio THEN n ELSE L.tail[q]
    BY <1>1, BootConstants DEF BootLists
  <1>7. /\ B.head[FREE] = IF n + 1 < NUM_PROCS THEN n + 1 ELSE NULL
        /\ B.tail[FREE] = IF n + 1 < NUM_PROCS THEN NUM_PROCS - 1 ELSE NULL
    BY <1>1, BootConstants DEF BootLists
  <1>8. \A p \in Proc : B.next[p] = IF p = n THEN NULL ELSE L.next[p]
    BY <1>1, BootConstants DEF BootLists
  <1> HIDE DEF L, D, B
  <1>9. E = [D EXCEPT !.head = [@ EXCEPT ![prio] = n],
                      !.tail = [@ EXCEPT ![prio] = n],
                      !.next = [@ EXCEPT ![n] = NULL]]
    BY <1>5 DEF enqueue_tail
  <1> HIDE DEF E
  <1>10. E \in Stores(Proc, Queue)
    BY <1>1, <1>3, <1>9 DEF Stores
  <1>11. \A q \in Queue : /\ E.head[q] = IF q = prio THEN n ELSE D.head[q]
                          /\ E.tail[q] = IF q = prio THEN n ELSE D.tail[q]
    BY <1>3, <1>9 DEF Stores
  <1>12. \A p \in Proc : E.next[p] = IF p = n THEN NULL ELSE D.next[p]
    BY <1>3, <1>9 DEF Stores
  <1>13. \A q \in Queue : E.head[q] = B.head[q] /\ E.tail[q] = B.tail[q]
    BY <1>1, <1>3, <1>6, <1>7, <1>11
  <1>14. \A p \in Proc : E.next[p] = B.next[p]
    BY <1>3, <1>8, <1>12
  <1>15. E = B
    BY <1>2, <1>10, <1>13, <1>14, SameStore
  <1> QED BY <1>15 DEF B, D, E, L, prio

\* fork_proc of init: the child is on no queue.
LEMMA TakeChild ==
    dequeue(BootLists(3, FALSE), FREE) = BootLists(4, FALSE)
  <1> DEFINE L == BootLists(3, FALSE)
             D == dequeue(L, FREE)
             B == BootLists(4, FALSE)
  <1>1. /\ NUM_PROCS \in Nat /\ NUM_PROCS >= 4 /\ 3 \in Proc /\ FREE \in Queue
    BY BootConstants
  <1>2. B \in Stores(Proc, Queue)
    <2>1. 4 \in 0 .. 4
      OBVIOUS
    <2> QED BY <2>1, BootStores
  <1>3. /\ D \in Stores(Proc, Queue)
        /\ D.head[FREE] = IF 4 < NUM_PROCS THEN 4 ELSE NULL
        /\ D.tail[FREE] = IF 4 < NUM_PROCS THEN NUM_PROCS - 1 ELSE NULL
        /\ \A q \in Queue \ {FREE} : D.head[q] = L.head[q] /\ D.tail[q] = L.tail[q]
        /\ \A p \in Proc : D.next[p] = IF p = 3 THEN NULL ELSE L.next[p]
    <2>1. 3 \in 0 .. 3 /\ 3 + 1 = 4
      OBVIOUS
    <2> QED BY <2>1, TakeEntry
  <1>4. \A q \in Queue \ {FREE} : B.head[q] = L.head[q] /\ B.tail[q] = L.tail[q]
    BY <1>1, BootConstants DEF BootLists
  <1>5. /\ B.head[FREE] = IF 4 < NUM_PROCS THEN 4 ELSE NULL
        /\ B.tail[FREE] = IF 4 < NUM_PROCS THEN NUM_PROCS - 1 ELSE NULL
    BY <1>1, BootConstants DEF BootLists
  <1>6. \A p \in Proc : B.next[p] = IF p = 3 THEN NULL ELSE L.next[p]
    BY <1>1, BootConstants DEF BootLists
  <1> HIDE DEF L, D, B
  <1>7. D = B
    BY <1>2, <1>3, <1>4, <1>5, <1>6, SameStore
  <1> QED BY <1>7 DEF B, D, L

\* exec of that child: the shell is queued behind init.
LEMMA QueueShell ==
    enqueue_tail(BootLists(4, FALSE), USER_PRIORITY, 3) = BootLists(4, TRUE)
  <1> DEFINE L == BootLists(4, FALSE)
             E == enqueue_tail(L, USER_PRIORITY, 3)
             B == BootLists(4, TRUE)
  <1>1. /\ NUM_PROCS \in Nat /\ NUM_PROCS >= 4 /\ 3 \in Proc /\ 2 \in Proc
        /\ USER_PRIORITY \in Queue /\ 2 # NULL
    BY BootConstants
  <1>2. L \in Stores(Proc, Queue) /\ B \in Stores(Proc, Queue)
    <2>1. 4 \in 0 .. 4
      OBVIOUS
    <2> QED BY <2>1, BootStores
  <1>3. L.head[USER_PRIORITY] = 2 /\ L.tail[USER_PRIORITY] = 2
    BY <1>1, BootConstants DEF BootLists
  <1>4. \A q \in Queue : /\ B.head[q] = L.head[q]
                         /\ B.tail[q] = IF q = USER_PRIORITY THEN 3 ELSE L.tail[q]
    BY <1>1, BootConstants DEF BootLists
  <1>5. \A p \in Proc : B.next[p] = IF p = 3 THEN NULL ELSE IF p = 2 THEN 3 ELSE L.next[p]
    BY <1>1, BootConstants DEF BootLists
  <1> HIDE DEF L, B
  <1>6. E = [L EXCEPT !.tail = [@ EXCEPT ![USER_PRIORITY] = 3],
                      !.next = [@ EXCEPT ![2] = 3, ![3] = NULL]]
    BY <1>1, <1>3 DEF enqueue_tail
  <1> HIDE DEF E
  <1>7. /\ E \in Stores(Proc, Queue)
        /\ \A q \in Queue : /\ E.head[q] = L.head[q]
                            /\ E.tail[q] = IF q = USER_PRIORITY THEN 3 ELSE L.tail[q]
        /\ \A p \in Proc : E.next[p] = IF p = 3 THEN NULL ELSE IF p = 2 THEN 3 ELSE L.next[p]
    BY <1>1, <1>2, <1>6 DEF Stores
  <1>8. E = B
    BY <1>2, <1>4, <1>5, <1>7, SameStore
  <1> QED BY <1>8 DEF B, E, L

-----------------------------------------------------------------------------
LEMMA AdmitStep ==
    ASSUME NEW n \in 0 .. 2, NEW prio, NEW ticks,
           \/ n = 0 /\ prio = SYSTEM_PRIORITY /\ ticks = SYSTEM_QUANTUM
           \/ n = 1 /\ prio = IDLE_PRIORITY /\ ticks = DEFAULT_QUANTUM
           \/ n = 2 /\ prio = USER_PRIORITY /\ ticks = INIT_QUANTUM,
           BootTable(n, FALSE, "DEAD", 0),
           Admit(Taken, dequeue(lists, FREE), prio, ticks)
    PROVE  Taken = n /\ BootTable(n + 1, FALSE, "DEAD", 0)'
  <1>1. n \in 0 .. 3 /\ n \in Int /\ n + 1 \in Int /\ n \in Proc
    BY BootConstants
  <1>2. Taken = n
    BY <1>1, TakeEntry DEF BootTable, Taken
  <1>3. lists' = BootLists(n + 1, FALSE)
    <2>1. lists' = enqueue_tail(dequeue(BootLists(n, FALSE), FREE), prio, n)
      BY <1>2 DEF Admit, BootTable
    <2>2. prio = PriorityOf(n)
      BY DEF PriorityOf
    <2>3. enqueue_tail(dequeue(BootLists(n, FALSE), FREE), PriorityOf(n), n)
              = BootLists(n + 1, FALSE)
      BY AdmitEntry
    <2> QED BY <2>1, <2>2, <2>3
  <1>4. current_proc' = NULL
    BY DEF Admit, BootTable
  <1>5. /\ Field(state)'
        /\ \A p \in Proc : state'[p] = IF p >= n + 1 THEN "DEAD" ELSE IF p = 3 THEN "DEAD"
                                 ELSE "RUNNABLE"
    <2>1. state' = [state EXCEPT ![n] = "RUNNABLE"]
      BY <1>2 DEF Admit
    <2>2. Field(state) /\ n \in Proc
      BY <1>1 DEF BootTable
    <2>5. /\ Field(state') /\ state'[n] = "RUNNABLE"
          /\ \A p \in Proc : p # n => state'[p] = state[p]
      BY <2>1, <2>2 DEF Field
    <2>6. Field(state)'
      BY <2>5 DEF Field
    <2> QED BY <1>1, <2>5, <2>6, BootConstants DEF BootTable
  <1>6. /\ Field(priority)'
        /\ \A p \in Proc : priority'[p] = IF p >= n + 1 \/ p = 0 THEN SYSTEM_PRIORITY
                                    ELSE IF p = 1 THEN IDLE_PRIORITY
                                    ELSE USER_PRIORITY
    <2>1. priority' = [priority EXCEPT ![n] = prio]
      BY <1>2 DEF Admit
    <2>2. Field(priority) /\ n \in Proc
      BY <1>1 DEF BootTable
    <2>5. /\ Field(priority') /\ priority'[n] = prio
          /\ \A p \in Proc : p # n => priority'[p] = priority[p]
      BY <2>1, <2>2 DEF Field
    <2>6. Field(priority)'
      BY <2>5 DEF Field
    <2> QED BY <1>1, <2>5, <2>6, BootConstants DEF BootTable
  <1>7. /\ Field(quantum)'
        /\ \A p \in Proc : quantum'[p] = IF p >= n + 1 THEN 0
                                   ELSE CASE p = 0 -> SYSTEM_QUANTUM
                                          [] p = 1 -> DEFAULT_QUANTUM
                                          [] p = 2 -> INIT_QUANTUM
                                          [] OTHER -> 0
    <2>1. quantum' = [quantum EXCEPT ![n] = ticks]
      BY <1>2 DEF Admit
    <2>2. Field(quantum) /\ n \in Proc
      BY <1>1 DEF BootTable
    <2>5. /\ Field(quantum') /\ quantum'[n] = ticks
          /\ \A p \in Proc : p # n => quantum'[p] = quantum[p]
      BY <2>1, <2>2 DEF Field
    <2>6. Field(quantum)'
      BY <2>5 DEF Field
    <2> QED BY <1>1, <2>5, <2>6, BootConstants DEF BootTable
  <1>8. ticks_left' = [p \in Proc |-> 0]
    BY <1>2 DEF Admit, BootTable
  <1> QED BY <1>2, <1>3, <1>4, <1>5, <1>6, <1>7, <1>8 DEF BootTable

LEMMA BootHolds == BootInit => BootOK
  BY DEF BootInit, BootOK

\* Before the entry n is taken, and who the later calls are about.
LEMMA WhoIsWho ==
    ASSUME BootOK
    PROVE  /\ boot_pc = "exec init" => Taken = 2
           /\ boot_pc = "fork init" => Taken = 3 /\ Init_ = 2
           /\ boot_pc \in {"free the copy", "exec Shell"} => Child = 3
  <1>1. ASSUME boot_pc = "exec init" PROVE Taken = 2
    <2>4. 2 \in 0 .. 3
      OBVIOUS
    <2>1. lists = BootLists(2, FALSE)
      BY <1>1 DEF BootOK, BootTable
    <2> QED BY <2>1, <2>4, TakeEntry DEF Taken
  <1>2. ASSUME boot_pc = "fork init" PROVE Taken = 3 /\ Init_ = 2
    <2>4. 3 \in 0 .. 3
      OBVIOUS
    <2>1. lists = BootLists(3, FALSE)
      BY <1>2 DEF BootOK, BootTable
    <2>2. lists.head[USER_PRIORITY] = 2
      BY <2>1, BootConstants DEF BootLists
    <2> QED BY <2>1, <2>2, <2>4, TakeEntry DEF Taken, Init_
  <1>3. ASSUME boot_pc \in {"free the copy", "exec Shell"} PROVE Child = 3
    <2>1. \E st \in {"RUNNABLE", "INITIALISING"} :
              \A p \in Proc : state[p] = IF p >= 4 THEN "DEAD" ELSE IF p = 3 THEN st
                                      ELSE "RUNNABLE"
      BY <1>3 DEF BootOK, BootTable
    <2>2. \A p \in Proc : state[p] # "DEAD" <=> p \in 0 .. 3
      BY <2>1, BootConstants
    <2>3. 3 \in Proc /\ \A p \in Proc : p \in Int
      BY BootConstants
    <2>4. \A p \in Proc : (state[p] # "DEAD" /\ \A q \in Proc : state[q] # "DEAD" => q <= p)
                              <=> p = 3
      BY <2>2, <2>3
    <2> QED BY <2>3, <2>4 DEF Child
  <1> QED BY <1>1, <1>2, <1>3

\* Each call of main leaves the table as written out above.
LEMMA BootKeeps ==
    ASSUME BootOK, BootNext
    PROVE  BootOK'
  <1>1. CASE init_proc
    <2>1. boot_pc = "init_proc" /\ boot_pc' = "new SYSTEM"
      BY <1>1 DEF init_proc, Step
    <2>2. lists' = BootLists(0, FALSE)
      BY <1>1, <2>1, InitProcLists
    <2>3. BootTable(0, FALSE, "DEAD", 0)'
      <3>1. /\ current_proc' = NULL
            /\ state' = [p \in Proc |-> "DEAD"]
            /\ priority' = [p \in Proc |-> 0]
            /\ quantum' = [p \in Proc |-> 0]
            /\ ticks_left' = [p \in Proc |-> 0]
        BY <1>1, <2>1 DEF BootOK, init_proc
      <3>2. \A p \in Proc : p >= 0
        BY BootConstants
      <3> QED BY <2>2, <3>1, <3>2, BootConstants DEF BootTable, Field
    <2> QED BY <2>1, <2>3 DEF BootOK
  <1>2. CASE NewSystem
    <2>1. boot_pc = "new SYSTEM" /\ boot_pc' = "new IDLE"
      BY <1>2 DEF NewSystem, Step
    <2>2. BootTable(0, FALSE, "DEAD", 0)
      BY <2>1 DEF BootOK
    <2>5. 0 \in 0 .. 2 /\ 0 + 1 = 1
      OBVIOUS
    <2>3. Admit(Taken, dequeue(lists, FREE), SYSTEM_PRIORITY, SYSTEM_QUANTUM)
      BY <1>2 DEF NewSystem, new_proc
    <2>4. BootTable(1, FALSE, "DEAD", 0)'
      BY <2>2, <2>3, <2>5, AdmitStep
    <2> QED BY <2>1, <2>4 DEF BootOK
  <1>3. CASE NewIdle
    <2>1. boot_pc = "new IDLE" /\ boot_pc' = "exec init"
      BY <1>3 DEF NewIdle, Step
    <2>2. BootTable(1, FALSE, "DEAD", 0)
      BY <2>1 DEF BootOK
    <2>5. 1 \in 0 .. 2 /\ 1 + 1 = 2
      OBVIOUS
    <2>3. Admit(Taken, dequeue(lists, FREE), IDLE_PRIORITY, DEFAULT_QUANTUM)
      BY <1>3 DEF NewIdle, new_proc
    <2>4. BootTable(2, FALSE, "DEAD", 0)'
      BY <2>2, <2>3, <2>5, AdmitStep
    <2> QED BY <2>1, <2>4 DEF BootOK
  <1>4. CASE NewInit
    <2>1. boot_pc = "exec init" /\ boot_pc' = "fork init"
      BY <1>4 DEF NewInit, Step
    <2>2. BootTable(2, FALSE, "DEAD", 0)
      BY <2>1 DEF BootOK
    <2>5. 2 \in 0 .. 2 /\ 2 + 1 = 3
      OBVIOUS
    <2>3. Admit(Taken, dequeue(lists, FREE), USER_PRIORITY, INIT_QUANTUM)
      BY <1>4 DEF NewInit
    <2>4. BootTable(3, FALSE, "DEAD", 0)'
      BY <2>2, <2>3, <2>5, AdmitStep
    <2> QED BY <2>1, <2>4 DEF BootOK
  <1>5. CASE ForkInit
    <2>1. boot_pc = "fork init" /\ boot_pc' = "free the copy"
      BY <1>5 DEF ForkInit, Step
    <2>2. BootTable(3, FALSE, "DEAD", 0) /\ Taken = 3 /\ Init_ = 2
      BY <2>1, WhoIsWho DEF BootOK
    <2>3. lists' = BootLists(4, FALSE) /\ current_proc' = NULL
      BY <1>5, <2>2, TakeChild DEF ForkInit, BootTable
    <2>4. /\ Field(state)'
          /\ \A p \in Proc : state'[p] = IF p >= 4 THEN "DEAD" ELSE IF p = 3 THEN "RUNNABLE"
                                   ELSE "RUNNABLE"
      <3>1. state' = [state EXCEPT ![3] = "RUNNABLE"]
        BY <1>5, <2>2 DEF ForkInit
      <3>4. Field(state) /\ 3 \in Proc
        BY <2>2, BootConstants DEF BootTable
      <3>5. /\ Field(state') /\ state'[3] = "RUNNABLE"
            /\ \A p \in Proc : p # 3 => state'[p] = state[p]
        BY <3>1, <3>4 DEF Field
      <3>6. Field(state)'
        BY <3>5 DEF Field
      <3> QED BY <2>2, <3>5, <3>6, BootConstants DEF BootTable
    <2>5. /\ Field(priority)'
          /\ \A p \in Proc : priority'[p] = IF p >= 4 \/ p = 0 THEN SYSTEM_PRIORITY
                                      ELSE IF p = 1 THEN IDLE_PRIORITY
                                      ELSE USER_PRIORITY
      <3>1. priority' = [priority EXCEPT ![3] = priority[2]]
        BY <1>5, <2>2 DEF ForkInit
      <3>2. priority[2] = USER_PRIORITY
        BY <2>2, BootConstants DEF BootTable
      <3>4. Field(priority) /\ 3 \in Proc
        BY <2>2, BootConstants DEF BootTable
      <3>5. /\ Field(priority') /\ priority'[3] = priority[2]
            /\ \A p \in Proc : p # 3 => priority'[p] = priority[p]
        BY <3>1, <3>4 DEF Field
      <3>6. Field(priority)'
        BY <3>5 DEF Field
      <3> QED BY <2>2, <3>2, <3>5, <3>6, BootConstants DEF BootTable
    <2>6. /\ Field(quantum)'
          /\ \A p \in Proc : quantum'[p] = IF p >= 4 THEN 0
                                     ELSE CASE p = 0 -> SYSTEM_QUANTUM
                                            [] p = 1 -> DEFAULT_QUANTUM
                                            [] p = 2 -> INIT_QUANTUM
                                            [] OTHER -> INIT_QUANTUM
      <3>1. quantum' = [quantum EXCEPT ![3] = quantum[2]]
        BY <1>5, <2>2 DEF ForkInit
      <3>2. quantum[2] = INIT_QUANTUM
        BY <2>2, BootConstants DEF BootTable
      <3>4. Field(quantum) /\ 3 \in Proc
        BY <2>2, BootConstants DEF BootTable
      <3>5. /\ Field(quantum') /\ quantum'[3] = quantum[2]
            /\ \A p \in Proc : p # 3 => quantum'[p] = quantum[p]
        BY <3>1, <3>4 DEF Field
      <3>6. Field(quantum)'
        BY <3>5 DEF Field
      <3> QED BY <2>2, <3>2, <3>5, <3>6, BootConstants DEF BootTable
    <2>7. ticks_left' = [p \in Proc |-> 0]
      BY <1>5, <2>2, BootConstants DEF ForkInit, BootTable
    <2>8. BootTable(4, FALSE, "RUNNABLE", INIT_QUANTUM)'
      BY <2>3, <2>4, <2>5, <2>6, <2>7 DEF BootTable
    <2> QED BY <2>1, <2>8 DEF BootOK
  <1>6. CASE FreeCopy
    <2>1. boot_pc = "free the copy" /\ boot_pc' = "exec Shell"
      BY <1>6 DEF FreeCopy, Step
    <2>2. BootTable(4, FALSE, "RUNNABLE", INIT_QUANTUM) /\ Child = 3
      BY <2>1, WhoIsWho DEF BootOK
    <2>3. /\ Field(state)'
          /\ \A p \in Proc : state'[p] = IF p >= 4 THEN "DEAD" ELSE IF p = 3 THEN "INITIALISING"
                                   ELSE "RUNNABLE"
      <3>1. state' = [state EXCEPT ![3] = "INITIALISING"]
        BY <1>6, <2>2 DEF FreeCopy
      <3>4. Field(state) /\ 3 \in Proc
        BY <2>2, BootConstants DEF BootTable
      <3>5. /\ Field(state') /\ state'[3] = "INITIALISING"
            /\ \A p \in Proc : p # 3 => state'[p] = state[p]
        BY <3>1, <3>4 DEF Field
      <3>6. Field(state)'
        BY <3>5 DEF Field
      <3> QED BY <2>2, <3>5, <3>6, BootConstants DEF BootTable
    <2>4. BootTable(4, FALSE, "INITIALISING", INIT_QUANTUM)'
      BY <1>6, <2>2, <2>3 DEF FreeCopy, BootTable, tableVars
    <2> QED BY <2>1, <2>4 DEF BootOK
  <1>7. CASE NewShell
    <2>1. boot_pc = "exec Shell" /\ boot_pc' = "sched"
      BY <1>7 DEF NewShell, Step
    <2>2. BootTable(4, FALSE, "INITIALISING", INIT_QUANTUM) /\ Child = 3
      BY <2>1, WhoIsWho DEF BootOK
    <2>3. Admit(3, lists, USER_PRIORITY, SHELL_QUANTUM)
      BY <1>7, <2>2 DEF NewShell
    <2>4. lists' = BootLists(4, TRUE) /\ current_proc' = NULL
      BY <2>2, <2>3, QueueShell DEF Admit, BootTable
    <2>5. /\ Field(state)'
          /\ \A p \in Proc : state'[p] = IF p >= 4 THEN "DEAD" ELSE IF p = 3 THEN "RUNNABLE"
                                   ELSE "RUNNABLE"
      <3>1. state' = [state EXCEPT ![3] = "RUNNABLE"]
        BY <2>3 DEF Admit
      <3>4. Field(state) /\ 3 \in Proc
        BY <2>2, BootConstants DEF BootTable
      <3>5. /\ Field(state') /\ state'[3] = "RUNNABLE"
            /\ \A p \in Proc : p # 3 => state'[p] = state[p]
        BY <3>1, <3>4 DEF Field
      <3>6. Field(state)'
        BY <3>5 DEF Field
      <3> QED BY <2>2, <3>5, <3>6, BootConstants DEF BootTable
    <2>6. /\ Field(priority)'
          /\ \A p \in Proc : priority'[p] = IF p >= 4 \/ p = 0 THEN SYSTEM_PRIORITY
                                      ELSE IF p = 1 THEN IDLE_PRIORITY
                                      ELSE USER_PRIORITY
      <3>1. priority' = [priority EXCEPT ![3] = USER_PRIORITY]
        BY <2>3 DEF Admit
      <3>4. Field(priority) /\ 3 \in Proc
        BY <2>2, BootConstants DEF BootTable
      <3>5. /\ Field(priority') /\ priority'[3] = USER_PRIORITY
            /\ \A p \in Proc : p # 3 => priority'[p] = priority[p]
        BY <3>1, <3>4 DEF Field
      <3>6. Field(priority)'
        BY <3>5 DEF Field
      <3> QED BY <2>2, <3>5, <3>6, BootConstants DEF BootTable
    <2>7. /\ Field(quantum)'
          /\ \A p \in Proc : quantum'[p] = IF p >= 4 THEN 0
                                     ELSE CASE p = 0 -> SYSTEM_QUANTUM
                                            [] p = 1 -> DEFAULT_QUANTUM
                                            [] p = 2 -> INIT_QUANTUM
                                            [] OTHER -> SHELL_QUANTUM
      <3>1. quantum' = [quantum EXCEPT ![3] = SHELL_QUANTUM]
        BY <2>3 DEF Admit
      <3>4. Field(quantum) /\ 3 \in Proc
        BY <2>2, BootConstants DEF BootTable
      <3>5. /\ Field(quantum') /\ quantum'[3] = SHELL_QUANTUM
            /\ \A p \in Proc : p # 3 => quantum'[p] = quantum[p]
        BY <3>1, <3>4 DEF Field
      <3>6. Field(quantum)'
        BY <3>5 DEF Field
      <3> QED BY <2>2, <3>5, <3>6, BootConstants DEF BootTable
    <2>8. ticks_left' = [p \in Proc |-> 0]
      BY <2>2, <2>3, BootConstants DEF Admit, BootTable
    <2>9. BootTable(4, TRUE, "RUNNABLE", SHELL_QUANTUM)'
      BY <2>4, <2>5, <2>6, <2>7, <2>8 DEF BootTable
    <2> QED BY <2>1, <2>9 DEF BootOK
  <1>8. CASE FirstSched
    <2>1. boot_pc' = "booted"
      BY <1>8 DEF FirstSched, Step
    <2> QED BY <2>1 DEF BootOK
  <1> QED BY <1>1, <1>2, <1>3, <1>4, <1>5, <1>6, <1>7, <1>8 DEF BootNext
-----------------------------------------------------------------------------
\* No allocation before the first sched writes through a null pointer: each one
\* that main makes either returns a block or stops it.
LEMMA StatusKept ==
    ASSUME BootNext
    PROVE  status' = status
  <1>1. ASSUME NEW size, proc_malloc(size), Returned # {} PROVE status' = status
    <2>1. status' = status \/ UNCHANGED allocated
      BY <1>1 DEF proc_malloc, TakeWhole, TakePart, TakeNew, vars
    <2>2. ~UNCHANGED allocated
      BY <1>1 DEF Returned
    <2> QED BY <2>1, <2>2
  <1>2. ASSUME NEW size, _sbrk(size) PROVE status' = status
    BY <1>2 DEF _sbrk, vars
  <1>3. ASSUME NEW p, NEW len, ExecImage(p, len) PROVE status' = status
    <2>1. proc_malloc(ImageSize(len)) /\ Returned # {}
      BY <1>3 DEF ExecImage
    <2> QED BY <1>1, <2>1
  <1>4. ASSUME NEW o, NEW p, ForkImage(o, p) PROVE status' = status
    <2>1. proc_malloc(ImageSize(image[o].length)) /\ Returned # {}
      BY <1>4 DEF ForkImage
    <2> QED BY <1>1, <2>1
  <1>5. CASE init_proc
    BY <1>5 DEF init_proc, vars
  <1>6. CASE NewSystem \/ NewIdle
    BY <1>2, <1>6 DEF NewSystem, NewIdle, new_proc
  <1>7. CASE NewInit \/ NewShell
    BY <1>3, <1>7 DEF NewInit, NewShell
  <1>8. CASE ForkInit
    BY <1>4, <1>8 DEF ForkInit
  <1>9. CASE FreeCopy
    BY <1>9 DEF FreeCopy, proc_free
  <1>10. CASE FirstSched
    BY <1>10 DEF FirstSched, vars
  <1> QED BY <1>5, <1>6, <1>7, <1>8, <1>9, <1>10 DEF BootNext

\* The first sched turns that table into the one Kernel starts from.
LEMMA FirstSchedStarts ==
    ASSUME BootOK, boot_pc = "sched", status = "running", FirstSched,
           \A p \in Proc : image[p].length # 0 <=> p \in {2, 3}
    PROVE  BootedKernel!Init'
  <1> DEFINE L == BootLists(4, TRUE)
  <1>1. BootTable(4, TRUE, "RUNNABLE", SHELL_QUANTUM)
    BY DEF BootOK
  <1>2. /\ NUM_PROCS \in Nat /\ NUM_PROCS >= 4 /\ Proc = 0 .. NUM_PROCS - 1
        /\ 0 \in Proc /\ 1 \in Proc /\ 2 \in Proc /\ 3 \in Proc
        /\ Queue = 0 .. 5 /\ Queue = {0, 1, 2, 3, 4, 5}
        /\ FREE = 5 /\ SYSTEM_PRIORITY = 0 /\ IDLE_PRIORITY = 4 /\ USER_PRIORITY = 3
        /\ \A p \in Proc : p \in Int /\ p # NULL
        /\ NULL \notin Int
    BY BootConstants DEF Queue, NUM_QUEUES
  <1>3. /\ L \in Stores(Proc, Queue) /\ lists = L
        /\ L.head[0] = 0 /\ L.tail[0] = 0
    <2>1. 4 \in 0 .. 4
      OBVIOUS
    <2>2. L.head[0] = 0 /\ L.tail[0] = 0
      BY <1>2 DEF BootLists
    <2> QED BY <1>1, <2>1, <2>2, BootStores DEF BootTable
  <1>4. current_proc' = 0
    BY <1>2, <1>3 DEF FirstSched
  <1>5. ticks_left' = [p \in Proc |-> IF p = 0 THEN SYSTEM_QUANTUM ELSE 0]
    <2>1. quantum[0] = SYSTEM_QUANTUM
      BY <1>1, <1>2 DEF BootTable
    <2>2. ticks_left = [p \in Proc |-> 0]
      BY <1>1 DEF BootTable
    <2>3. ticks_left' = [ticks_left EXCEPT ![0] = quantum[0]]
      BY <1>2, <1>3 DEF FirstSched
    <2> QED BY <1>2, <2>1, <2>2, <2>3
  <1>6. UNCHANGED <<status, state, priority, quantum>>
    BY DEF FirstSched, vars
  <1> DEFINE E == [head |-> [q \in Queue |->
                                CASE q = 3 -> 2
                                  [] q = 4 -> 1
                                  [] q = 5 -> IF NUM_PROCS > 4 THEN 4 ELSE NULL
                                  [] OTHER -> NULL],
                   tail |-> [q \in Queue |->
                                CASE q = 3 -> 3
                                  [] q = 4 -> 1
                                  [] q = 5 -> IF NUM_PROCS > 4 THEN NUM_PROCS - 1 ELSE NULL
                                  [] OTHER -> NULL],
                   next |-> [p \in Proc |->
                                IF p \in {0, 1, 3, NUM_PROCS - 1} THEN NULL
                                ELSE p + 1]]
             D == dequeue(L, SYSTEM_PRIORITY)
  <1>7. lists' = E
    <2>1. lists' = D
      BY <1>3 DEF FirstSched
    <2>2. /\ \A q \in Queue : E.head[q] = IF q = 0 THEN NULL ELSE L.head[q]
          /\ \A q \in Queue : E.tail[q] = IF q = 0 THEN NULL ELSE L.tail[q]
      BY <1>2 DEF BootLists
    <2>3. \A p \in Proc : E.next[p] = IF p = 0 THEN NULL ELSE L.next[p]
      BY <1>2 DEF BootLists
    <2>4. E \in Stores(Proc, Queue)
      <3>1. E.head \in [Queue -> Proc \cup {NULL}] /\ E.tail \in [Queue -> Proc \cup {NULL}]
        BY <1>2
      <3>2. E.next \in [Proc -> Proc \cup {NULL}]
        BY <1>2
      <3> QED BY <3>1, <3>2 DEF Stores
    <2> HIDE DEF L, E
    <2>5. D = [L EXCEPT !.head = [@ EXCEPT ![0] = NULL],
                        !.tail = [@ EXCEPT ![0] = NULL],
                        !.next = [@ EXCEPT ![0] = NULL]]
      BY <1>2, <1>3 DEF dequeue
    <2> HIDE DEF D
    <2>6. /\ D \in Stores(Proc, Queue)
          /\ \A q \in Queue : D.head[q] = IF q = 0 THEN NULL ELSE L.head[q]
          /\ \A q \in Queue : D.tail[q] = IF q = 0 THEN NULL ELSE L.tail[q]
          /\ \A p \in Proc : D.next[p] = IF p = 0 THEN NULL ELSE L.next[p]
      BY <1>2, <1>3, <2>5 DEF Stores
    <2>7. D = E
      BY <2>2, <2>3, <2>4, <2>6, SameStore
    <2> QED BY <2>1, <2>7
  <1>8. state' = [p \in Proc |-> IF p \in {0, 1, 2, 3} THEN "RUNNABLE" ELSE "DEAD"]
    <2>1. Field(state) /\ \A p \in Proc : state[p] = IF p \in {0, 1, 2, 3} THEN "RUNNABLE"
                                                   ELSE "DEAD"
      BY <1>1, <1>2 DEF BootTable
    <2> QED BY <1>6, <2>1 DEF Field
  <1>9. priority' = [p \in Proc |-> CASE p = 1 -> 4
                                      [] p \in {2, 3} -> 3
                                      [] OTHER -> 0]
    <2>1. Field(priority) /\ \A p \in Proc : priority[p] = CASE p = 1 -> 4
                                                              [] p \in {2, 3} -> 3
                                                              [] OTHER -> 0
      BY <1>1, <1>2 DEF BootTable
    <2> QED BY <1>6, <2>1 DEF Field
  <1>10. [p \in Proc |-> IF state'[p] = "DEAD" THEN DEFAULT_QUANTUM ELSE quantum'[p]]
            = [p \in Proc |-> CASE p = 0 -> SYSTEM_QUANTUM
                                [] p = 2 -> INIT_QUANTUM
                                [] p = 3 -> SHELL_QUANTUM
                                [] OTHER -> DEFAULT_QUANTUM]
    <2>1. \A p \in Proc : (IF state[p] = "DEAD" THEN DEFAULT_QUANTUM ELSE quantum[p])
             = CASE p = 0 -> SYSTEM_QUANTUM
                 [] p = 2 -> INIT_QUANTUM
                 [] p = 3 -> SHELL_QUANTUM
                 [] OTHER -> DEFAULT_QUANTUM
      BY <1>1, <1>2 DEF BootTable
    <2> QED BY <1>6, <2>1
  <1> HIDE DEF L, E, D
  <1>11. /\ BootedKernel!Queue = Queue /\ BootedKernel!Proc = Proc
         /\ BootedKernel!USER_PRIORITY = 3 /\ BootedKernel!IDLE_PRIORITY = 4
         /\ BootedKernel!SYSTEM_PRIORITY = 0 /\ BootedKernel!FREE = 5
         /\ BootedKernel!SYSTEM = 0 /\ BootedKernel!IDLE = 1
         /\ BootedKernel!INIT = 2 /\ BootedKernel!SHELL = 3
         /\ BootedKernel!Booted = {0, 1, 2, 3}
    BY <1>2 DEF BootedKernel!Queue, BootedKernel!ReadyQueue, BootedKernel!NUM_QUEUES,
                BootedKernel!FREE, BootedKernel!USER_PRIORITY,
                BootedKernel!IDLE_PRIORITY, BootedKernel!SYSTEM_PRIORITY,
                BootedKernel!SYSTEM, BootedKernel!IDLE, BootedKernel!INIT,
                BootedKernel!SHELL, BootedKernel!Booted, BootedKernel!Proc, Proc
  <1>12. lists' = [head |-> [q \in BootedKernel!Queue |->
                    CASE q = BootedKernel!USER_PRIORITY -> BootedKernel!INIT
                      [] q = BootedKernel!IDLE_PRIORITY -> BootedKernel!IDLE
                      [] q = BootedKernel!FREE -> IF NUM_PROCS > 4 THEN 4 ELSE NULL
                      [] OTHER -> NULL],
                   tail |-> [q \in BootedKernel!Queue |->
                    CASE q = BootedKernel!USER_PRIORITY -> BootedKernel!SHELL
                      [] q = BootedKernel!IDLE_PRIORITY -> BootedKernel!IDLE
                      [] q = BootedKernel!FREE -> IF NUM_PROCS > 4 THEN NUM_PROCS - 1 ELSE NULL
                      [] OTHER -> NULL],
                   next |-> [p \in BootedKernel!Proc |->
                    IF p \in {BootedKernel!SYSTEM, BootedKernel!IDLE, BootedKernel!SHELL,
                              NUM_PROCS - 1} THEN NULL
                    ELSE p + 1]]
    BY <1>7, <1>11 DEF E
  <1>13. /\ current_proc' = BootedKernel!SYSTEM
         /\ status' = "running"
         /\ state' = [p \in BootedKernel!Proc |->
                         IF p \in BootedKernel!Booted THEN "RUNNABLE" ELSE "DEAD"]
    BY <1>4, <1>6, <1>8, <1>11
  <1>14. priority' = [p \in BootedKernel!Proc |->
                         CASE p = BootedKernel!IDLE -> BootedKernel!IDLE_PRIORITY
                           [] p \in {BootedKernel!INIT, BootedKernel!SHELL}
                                -> BootedKernel!USER_PRIORITY
                           [] OTHER -> BootedKernel!SYSTEM_PRIORITY]
    BY <1>9, <1>11
  <1>15. [p \in Proc |-> IF state'[p] = "DEAD" THEN DEFAULT_QUANTUM ELSE quantum'[p]]
            = [p \in BootedKernel!Proc |-> CASE p = BootedKernel!SYSTEM -> SYSTEM_QUANTUM
                                [] p = BootedKernel!INIT -> INIT_QUANTUM
                                [] p = BootedKernel!SHELL -> SHELL_QUANTUM
                                [] OTHER -> DEFAULT_QUANTUM]
    BY <1>10, <1>11
  <1>16. ticks_left' = [p \in BootedKernel!Proc |->
                          IF p = BootedKernel!SYSTEM THEN SYSTEM_QUANTUM ELSE 0]
    BY <1>5, <1>11
  <1>17. \A p \in Proc : BootedKernel!NoMessage(p) = [src |-> p, type |-> "NONE", i1 |-> NULL]
    BY DEF BootedKernel!NoMessage
  <1>18. [p \in Proc |-> [src |-> p, type |-> "NONE", i1 |-> NULL]]
            = [p \in BootedKernel!Proc |-> BootedKernel!NoMessage(p)]
    BY <1>11, <1>17
  <1>19. {p \in Proc : image'[p].length # 0} = {BootedKernel!INIT, BootedKernel!SHELL}
    <2>1. image' = image
      BY DEF FirstSched, imageVars
    <2>2. {p \in Proc : image[p].length # 0} = {2, 3}
      BY <1>2
    <2> QED BY <1>11, <2>1, <2>2
  <1> QED
    BY <1>11, <1>12, <1>13, <1>14, <1>15, <1>16, <1>18, <1>19 DEF BootedKernel!Init

-----------------------------------------------------------------------------
(* Arithmetic of blocks. *)

\* The quotient and the remainder.
LEMMA Division ==
    ASSUME NEW x \in Nat, NEW b \in Nat \ {0}
    PROVE  /\ x \div b \in Nat /\ x % b \in 0 .. b - 1
           /\ x = (x \div b) * b + (x % b)
  OBVIOUS

LEMMA Multiple ==
    ASSUME NEW a \in Int, NEW b \in Nat \ {0}, a * b >= 0, a * b < b
    PROVE  a = 0
  <1>1. CASE a >= 1
    <2>1. (a - 1) * b >= 0
      BY <1>1
    <2>2. (a - 1) * b = a * b - b
      OBVIOUS
    <2> QED BY <2>1, <2>2
  <1>2. CASE a <= -1
    <2>1. (-1 - a) * b >= 0
      BY <1>2
    <2>2. (-1 - a) * b = -b - a * b
      OBVIOUS
    <2> QED BY <2>1, <2>2
  <1> QED BY <1>1, <1>2

LEMMA MultipleOf ==
    ASSUME NEW q \in Nat, NEW b \in Nat \ {0}
    PROVE  (q * b) % b = 0 /\ (q * b) \div b = q /\ q * b \in Nat
  <1> DEFINE x == q * b
             d == x \div b
             m == x % b
  <1>1. x \in Nat
    OBVIOUS
  <1> HIDE DEF x
  <1>2. d \in Nat /\ m \in 0 .. b - 1 /\ x = d * b + m
    BY <1>1, Division
  <1>3. x = q * b
    BY DEF x
  <1> HIDE DEF d, m
  <1>4. (q - d) * b = m
    <2>1. (q - d) * b = q * b - d * b
      BY <1>2
    <2> QED BY <1>2, <1>3, <2>1
  <1>5. q - d = 0
    <2>1. q - d \in Int
      BY <1>2
    <2> QED BY <1>2, <1>4, <2>1, Multiple
  <1>6. m = 0 /\ d = q
    BY <1>2, <1>4, <1>5
  <1> QED BY <1>6, <1>1 DEF x, d, m

LEMMA RoundedBlocks ==
    ASSUME NEW len \in Nat
    PROVE  /\ Rounded(len) \in Nat /\ Rounded(len) >= BLOCK
           /\ Rounded(len) <= len + BLOCK
           /\ Rounded(len) % BLOCK = 0
           /\ Rounded(Rounded(len)) = Rounded(len)
  <1> DEFINE up == IF len % BLOCK = 0 THEN len ELSE len + BLOCK
             q == up \div BLOCK
  <1>0. BLOCK \in Nat \ {0} /\ BLOCK \in Nat /\ BLOCK > 0
    BY ImageAssumption
  <1>1. up \in Nat /\ up <= len + BLOCK
    BY <1>0
  <1>2. Rounded(len) = IF up < BLOCK THEN BLOCK ELSE q * BLOCK
    BY DEF Rounded
  <1> HIDE DEF up
  <1>3. q \in Nat /\ q * BLOCK <= up /\ up < q * BLOCK + BLOCK
    BY <1>0, <1>1, Division
  <1> HIDE DEF q
  <1>4. (q * BLOCK) % BLOCK = 0 /\ (q * BLOCK) \div BLOCK = q /\ q * BLOCK \in Nat
    BY <1>0, <1>3, MultipleOf
  <1>5. BLOCK % BLOCK = 0 /\ BLOCK \div BLOCK = 1
    <2>1. 1 \in Nat /\ 1 * BLOCK = BLOCK
      BY <1>0
    <2> QED BY <1>0, <2>1, MultipleOf
  <1>6. CASE up < BLOCK
    BY <1>0, <1>2, <1>5, <1>6 DEF Rounded
  <1>7. CASE up >= BLOCK
    <2>1. q * BLOCK >= BLOCK
      <3>1. q # 0
        BY <1>0, <1>1, <1>3, <1>7
      <3>2. (q - 1) * BLOCK >= 0 /\ (q - 1) * BLOCK = q * BLOCK - BLOCK
        BY <1>0, <1>3, <3>1
      <3> QED BY <1>0, <1>4, <3>2
    <2>2. Rounded(len) = q * BLOCK
      BY <1>0, <1>1, <1>2, <1>7
    <2>3. ~(q * BLOCK < BLOCK)
      BY <1>0, <1>4, <2>1
    <2>4. Rounded(q * BLOCK) = q * BLOCK
      BY <1>4, <2>3 DEF Rounded
    <2> QED BY <1>0, <1>1, <1>3, <1>4, <2>1, <2>2, <2>4
  <1> QED BY <1>0, <1>1, <1>6, <1>7

-----------------------------------------------------------------------------
(* What the calls of the allocator give and take. *)

\* Nothing but blocks of no words is given back.
AllStay == \A b \in allocated : b.length > 0 => b \in allocated'

LEMMA MallocGives ==
    ASSUME HInv, NEW size \in Word, LAST + size < SIZE_LIMIT, EnoughMemory(size),
           proc_malloc(size)
    PROVE  /\ HInv' /\ allocated \subseteq allocated' /\ UNCHANGED FREE_MEM_END
           /\ FREE_MEM_BEGIN' <= FREE_MEM_BEGIN + size
           /\ \A base \in Returned :
                Block(base, size, "malloc") \in allocated' \ allocated
  <1> DEFINE S == {x \in Hole : length[x] >= size}
             h == BigEnough(size)
  <1>1. size # 0 /\ \/ h # NULL /\ length[h] = size /\ TakeWhole(h)
                    \/ h # NULL /\ length[h] # size /\ TakePart(h, size)
                    \/ h = NULL /\ TakeNew(size)
    BY DEF proc_malloc
  <1>2. HInv'
    BY MallocStep
  <1>3. BoundsOK /\ FREE_MEM_BEGIN \in Nat /\ size \in Nat
    BY Facts DEF HInv
  <1> HIDE DEF h
  <1>4. /\ UNCHANGED FREE_MEM_END
        /\ FREE_MEM_BEGIN' = FREE_MEM_BEGIN \/ FREE_MEM_BEGIN' = FREE_MEM_BEGIN + size
        /\ \/ UNCHANGED allocated
           \/ \E s : allocated' = allocated \cup {Block(s, size, "malloc")}
    <2>1. CASE length[h] = size /\ TakeWhole(h)
      BY <2>1 DEF TakeWhole
    <2>2. CASE TakePart(h, size)
      BY <2>2 DEF TakePart
    <2>3. CASE TakeNew(size)
      <3>1. CASE SbrkFails(size)
        BY <2>3, <3>1 DEF TakeNew, vars
      <3>2. CASE ~SbrkFails(size)
        <4>1. AfterSbrk(size) = FREE_MEM_BEGIN + size
          BY <1>3, <3>2, SbrkTakes
        <4> QED BY <2>3, <3>2, <4>1 DEF TakeNew
      <3> QED BY <3>1, <3>2
    <2> QED BY <1>1, <2>1, <2>2, <2>3
  <1>5. ASSUME NEW base \in Returned
        PROVE  Block(base, size, "malloc") \in allocated' \ allocated
    <2>1. PICK b \in allocated' \ allocated : b.start = base
      BY DEF Returned
    <2>2. PICK s : allocated' = allocated \cup {Block(s, size, "malloc")}
      BY <1>4, <2>1
    <2>3. b = Block(s, size, "malloc")
      BY <2>1, <2>2
    <2> QED BY <2>1, <2>3, BlockFields
  <1> QED BY <1>2, <1>3, <1>4, <1>5

LEMMA SbrkGives ==
    ASSUME HInv, NEW size \in Word, LAST + size < SIZE_LIMIT, EnoughMemory(size),
           _sbrk(size)
    PROVE  /\ HInv' /\ allocated \subseteq allocated' /\ UNCHANGED FREE_MEM_END
           /\ FREE_MEM_BEGIN' <= FREE_MEM_BEGIN + size
  <1>1. HInv'
    BY SbrkStep
  <1>2. BoundsOK /\ FREE_MEM_BEGIN \in Nat /\ size \in Nat
    BY Facts DEF HInv
  <1>3. CASE SbrkFails(size)
    BY <1>1, <1>2, <1>3 DEF _sbrk, vars
  <1>4. CASE ~SbrkFails(size)
    BY <1>1, <1>2, <1>4, SbrkTakes DEF _sbrk
  <1> QED BY <1>3, <1>4

LEMMA FreeTakes ==
    ASSUME HInv, NEW p, proc_free(p)
    PROVE  /\ HInv' /\ UNCHANGED FREE_MEM_END
           /\ FREE_MEM_BEGIN' <= FREE_MEM_BEGIN
           /\ allocated' = {b \in allocated : b.start # p}
  <1> DEFINE S == {c \in Hole : start[c] = p}
             h == First(holes, "used", S)
  <1>1. HInv'
    BY FreeStep
  <1>2. /\ BoundsOK /\ FREE_MEM_BEGIN \in Nat
        /\ \A x \in Hole : length[x] \in Nat
    BY Facts DEF HInv
  <1>3. /\ UNCHANGED FREE_MEM_END
        /\ allocated' = {b \in allocated : b.start # p}
        /\ \/ h = NULL /\ UNCHANGED FREE_MEM_BEGIN
           \/ h # NULL /\ merge_holes(hole_delete(holes, "used", h), h)
    BY DEF proc_free
  <1>4. h # NULL => h \in Hole
    BY FirstIn, HoleConstants
  <1> HIDE DEF h
  <1>5. FREE_MEM_BEGIN' <= FREE_MEM_BEGIN
    <2>1. CASE h = NULL
      BY <1>2, <1>3, <2>1
    <2>2. CASE h # NULL
      <3>1. \/ UNCHANGED FREE_MEM_BEGIN
            \/ FREE_MEM_BEGIN' = FREE_MEM_BEGIN - length[h]
        BY <1>3, <2>2 DEF merge_holes
      <3>2. length[h] \in Nat
        BY <1>2, <1>4, <2>2
      <3> QED BY <1>2, <3>1, <3>2
    <2> QED BY <2>1, <2>2
  <1> QED BY <1>1, <1>3, <1>5

\* Where the blocks are, and that two with words do not start at one address.
LEMMA BlockPlaces ==
    ASSUME HInv, NEW b \in allocated, b.length > 0
    PROVE  /\ b.start \in Nat /\ b.length \in Nat
           /\ ORIGIN <= b.start /\ b.start + b.length <= LAST
           /\ \A a \in allocated : a.length > 0 /\ a.start = b.start => a = b
  <1>1. PICK at : BlocksApart(at)
    BY DEF HInv
  <1>2. BoundsOK
    BY DEF HInv
  <1>3. /\ \A a \in allocated : a.start \in Nat /\ a.length \in Nat
        /\ ORIGIN \in Nat /\ LAST \in Nat /\ FREE_MEM_BEGIN \in Nat
        /\ FREE_MEM_BEGIN <= LAST
    BY <1>2, Facts
  <1>4. Below(b.start, b.length)
    BY <1>1 DEF BlocksApart
  <1>5. ASSUME NEW a \in allocated, a.length > 0, a.start = b.start PROVE a = b
    <2>1. a # b => Apart(a.start, a.length, b.start, b.length)
      BY <1>1 DEF BlocksApart
    <2> QED BY <1>3, <1>5, <2>1 DEF Apart
  <1> QED BY <1>3, <1>4, <1>5 DEF Below
-----------------------------------------------------------------------------
(* The boot. *)

\* Until main has called the first sched nothing but main runs.
OnlyMain == boot_pc # "booted" => status = "running" /\ ld_pc = "idle"

LEMMA OthersWait ==
    ASSUME OnlyMain, SessionNext, ~Boots
    PROVE  boot_pc = "booted" /\ UNCHANGED <<boot_pc, tableVars>>
  <1>1. CASE SystemStarts
    BY <1>1 DEF SystemStarts, tableVars
  <1>2. CASE Reads \/ Decodes \/ ShellExecs
    BY <1>2 DEF Reads, Decodes, ShellExecs, Serving, bootVars
  <1>3. CASE ShellExits
    BY <1>3 DEF ShellExits, Exits, Serving
  <1>4. CASE ShellForks
    BY <1>4 DEF ShellForks, Forks, Serving
  <1>5. CASE SystemLoads
    <2>1. ld_pc # "idle"
      BY <1>5 DEF SystemLoads, Loads, ReadHeader, ReadRecord, ReadEntry, ReadTyped,
                  Replace, Install, NoMemory
    <2> QED BY <1>5, <2>1 DEF SystemLoads, OnlyMain
  <1>6. CASE ShellGoesOn
    BY <1>6 DEF ShellGoesOn, OnlyMain, bootVars
  <1>7. CASE ProgramAsks
    BY <1>7 DEF ProgramAsks, Serving, Allocates, Forks, Exits, Faults
  <1> QED
    BY <1>1, <1>2, <1>3, <1>4, <1>5, <1>6, <1>7 DEF SessionNext

LEMMA TableStep ==
    ASSUME BootOK, OnlyMain, [SessionNext]_sessionVars
    PROVE  BootOK' /\ OnlyMain'
  <1>1. CASE Boots
    <2>1. BootNext /\ ld_pc' = ld_pc
      BY <1>1 DEF Boots, loaderVars, loadVars
    <2>2. boot_pc # "booted"
      BY <2>1 DEF BootNext, init_proc, NewSystem, NewIdle, NewInit, ForkInit,
                  FreeCopy, NewShell, FirstSched, Step
    <2> QED BY <2>1, <2>2, BootKeeps, StatusKept DEF OnlyMain
  <1>2. CASE SessionNext /\ ~Boots
    <2>1. boot_pc = "booted" /\ boot_pc' = "booted"
      BY <1>2, OthersWait
    <2> QED BY <2>1 DEF BootOK, OnlyMain
  <1>3. CASE UNCHANGED sessionVars
    BY <1>3, ZenonT(60)
       DEF sessionVars, bootVars, tableVars, vars, loaderVars, loadVars,
           BootOK, BootTable, OnlyMain
  <1> QED BY <1>1, <1>2, <1>3

LEMMA TableInvariant == SessionSpec => [](BootOK /\ OnlyMain)
  <1>1. SessionInit => BootOK /\ OnlyMain
    BY BootHolds DEF SessionInit, BootInit, Init, LoaderInit, OnlyMain
  <1>2. BootOK /\ OnlyMain /\ [SessionNext]_sessionVars => BootOK' /\ OnlyMain'
    BY TableStep
  <1> QED BY <1>1, <1>2, PTL DEF SessionSpec

\* The entries with an image before each call of main, if these are all it has made.
Holding == CASE boot_pc = "fork init"     -> {2}
             [] boot_pc = "free the copy" -> {2, 3}
             [] boot_pc = "exec Shell"    -> {2}
             [] boot_pc = "sched"         -> {2, 3}
             [] OTHER                     -> {}
BootImages == boot_pc # "booted" =>
    Field(image) /\ \A p \in Proc : image[p].length # 0 <=> p \in Holding

\* An entry gets an image of that length.
LEMMA ImageSet ==
    ASSUME Field(image), NEW p \in Proc, NEW x, image' = [image EXCEPT ![p] = x]
    PROVE  Field(image') /\ image'[p] = x /\ \A q \in Proc : q # p => image'[q] = image[q]
  BY DEF Field

LEMMA BootImagesStep ==
    ASSUME BootImages, BootOK, BootNext
    PROVE  BootImages'
  <1>1. {0, 1, 2, 3} \subseteq Proc
    BY BootConstants
  <1>2. ASSUME NEW len \in Nat PROVE Rounded(len) # 0
    <2>1. Rounded(len) \in Nat /\ Rounded(len) >= BLOCK /\ BLOCK \in Nat \ {0}
      BY RoundedBlocks, ImageAssumption
    <2> QED BY <2>1
  <1>3. CASE init_proc \/ NewSystem \/ NewIdle
    <2>1. image' = image
      BY <1>3 DEF init_proc, NewSystem, NewIdle, new_proc, imageVars
    <2>2. /\ boot_pc \in {"init_proc", "new SYSTEM", "new IDLE"}
          /\ boot_pc' \in {"new SYSTEM", "new IDLE", "exec init"}
      BY <1>3 DEF init_proc, NewSystem, NewIdle, Step
    <2>3. Holding = {} /\ Holding' = {}
      BY <2>2 DEF Holding
    <2> QED BY <2>1, <2>2, <2>3 DEF BootImages, Field
  <1>4. CASE NewInit
    <2>1. boot_pc = "exec init" /\ boot_pc' = "fork init"
      BY <1>4 DEF NewInit, Step
    <2>2. Holding = {} /\ Holding' = {2}
      BY <2>1 DEF Holding
    <2>3. Taken = 2
      BY <2>1, WhoIsWho
    <2>4. PICK base \in Returned :
              image' = [image EXCEPT ![2] = [rbase |-> base, length |-> Rounded(INIT_LENGTH)]]
      BY <1>4, <2>3 DEF NewInit, ExecImage
    <2>5. Rounded(INIT_LENGTH) # 0
      BY <1>2, BootAssumption
    <2>6. Field(image) /\ \A p \in Proc : image[p].length # 0 <=> p \in Holding
      BY <2>1 DEF BootImages
    <2> DEFINE x == [rbase |-> base, length |-> Rounded(INIT_LENGTH)]
    <2>7. x.length = Rounded(INIT_LENGTH) /\ image' = [image EXCEPT ![2] = x]
      BY <2>4
    <2> HIDE DEF x
    <2>8. Field(image') /\ image'[2] = x /\ \A q \in Proc : q # 2 => image'[q] = image[q]
      BY <1>1, <2>6, <2>7, ImageSet
    <2> QED BY <2>2, <2>5, <2>6, <2>7, <2>8 DEF BootImages, Field
  <1>5. CASE ForkInit
    <2>1. boot_pc = "fork init" /\ boot_pc' = "free the copy"
      BY <1>5 DEF ForkInit, Step
    <2>2. Holding = {2} /\ Holding' = {2, 3}
      BY <2>1 DEF Holding
    <2>3. Taken = 3 /\ Init_ = 2
      BY <2>1, WhoIsWho
    <2>4. PICK base \in Returned :
              image' = [image EXCEPT ![3] = [rbase |-> base, length |-> image[2].length]]
      BY <1>5, <2>3 DEF ForkInit, ForkImage
    <2>6. Field(image) /\ \A p \in Proc : image[p].length # 0 <=> p \in Holding
      BY <2>1 DEF BootImages
    <2>5. image[2].length # 0
      BY <1>1, <2>2, <2>6
    <2> DEFINE x == [rbase |-> base, length |-> image[2].length]
    <2>7. x.length = image[2].length /\ image' = [image EXCEPT ![3] = x]
      BY <2>4
    <2> HIDE DEF x
    <2>8. Field(image') /\ image'[3] = x /\ \A q \in Proc : q # 3 => image'[q] = image[q]
      BY <1>1, <2>6, <2>7, ImageSet
    <2> QED BY <2>2, <2>5, <2>6, <2>7, <2>8 DEF BootImages, Field
  <1>6. CASE FreeCopy
    <2>1. boot_pc = "free the copy" /\ boot_pc' = "exec Shell"
      BY <1>6 DEF FreeCopy, Step
    <2>2. Holding = {2, 3} /\ Holding' = {2}
      BY <2>1 DEF Holding
    <2>3. Child = 3
      BY <2>1, WhoIsWho
    <2>6. Field(image) /\ \A p \in Proc : image[p].length # 0 <=> p \in Holding
      BY <2>1 DEF BootImages
    <2>7. NoImage.length = 0 /\ image' = [image EXCEPT ![3] = NoImage]
      BY <1>6, <2>3 DEF FreeCopy, NoImage
    <2>8. Field(image') /\ image'[3] = NoImage /\ \A q \in Proc : q # 3 => image'[q] = image[q]
      BY <1>1, <2>6, <2>7, ImageSet
    <2> QED BY <2>2, <2>6, <2>7, <2>8 DEF BootImages, Field
  <1>7. CASE NewShell
    <2>1. boot_pc = "exec Shell" /\ boot_pc' = "sched"
      BY <1>7 DEF NewShell, Step
    <2>2. Holding = {2} /\ Holding' = {2, 3}
      BY <2>1 DEF Holding
    <2>3. Child = 3
      BY <2>1, WhoIsWho
    <2>4. PICK base \in Returned :
              image' = [image EXCEPT ![3] = [rbase |-> base, length |-> Rounded(SHELL_LENGTH)]]
      BY <1>7, <2>3 DEF NewShell, ExecImage
    <2>5. Rounded(SHELL_LENGTH) # 0
      BY <1>2, BootAssumption
    <2>6. Field(image) /\ \A p \in Proc : image[p].length # 0 <=> p \in Holding
      BY <2>1 DEF BootImages
    <2> DEFINE x == [rbase |-> base, length |-> Rounded(SHELL_LENGTH)]
    <2>7. x.length = Rounded(SHELL_LENGTH) /\ image' = [image EXCEPT ![3] = x]
      BY <2>4
    <2> HIDE DEF x
    <2>8. Field(image') /\ image'[3] = x /\ \A q \in Proc : q # 3 => image'[q] = image[q]
      BY <1>1, <2>6, <2>7, ImageSet
    <2> QED BY <2>2, <2>5, <2>6, <2>7, <2>8 DEF BootImages, Field
  <1>8. CASE FirstSched
    BY <1>8 DEF FirstSched, Step, BootImages
  <1> QED BY <1>3, <1>4, <1>5, <1>6, <1>7, <1>8 DEF BootNext

LEMMA BootImagesInvariant == SessionSpec => []BootImages
  <1>1. SessionInit => BootImages
    <2> SUFFICES ASSUME SessionInit PROVE BootImages
      OBVIOUS
    <2>1. image = [p \in Proc |-> NoImage] /\ boot_pc = "init_proc" /\ NoImage.length = 0
      BY DEF SessionInit, BootInit, NoImage
    <2>2. Holding = {}
      BY <2>1 DEF Holding
    <2> QED BY <2>1, <2>2 DEF BootImages, Field
  <1>2. ASSUME BootImages, BootOK, OnlyMain, [SessionNext]_sessionVars
        PROVE  BootImages'
    <2>1. CASE Boots
      BY <1>2, <2>1, BootImagesStep DEF Boots
    <2>2. CASE SessionNext /\ ~Boots
      <3>1. boot_pc' = "booted"
        BY <1>2, <2>2, OthersWait
      <3> QED BY <3>1 DEF BootImages
    <2>3. CASE UNCHANGED sessionVars
      <3>1. UNCHANGED <<boot_pc, image>>
        BY <2>3 DEF sessionVars, bootVars, imageVars
      <3> QED BY <1>2, <3>1 DEF BootImages, Holding, Field
    <2> QED BY <1>2, <2>1, <2>2, <2>3
  <1>3. BootImages /\ BootOK /\ OnlyMain /\ [SessionNext]_sessionVars => BootImages'
    BY <1>2
  <1> QED BY <1>1, <1>3, TableInvariant, PTL DEF SessionSpec

\* What main leaves behind is the state from which Kernel starts, for every size of
\* the process table and all quanta (main.c).
THEOREM BootIsKernelInit == SessionSpec => HandsOverKernel
  <1>1. ASSUME BootOK, BootImages, OnlyMain, [SessionNext]_sessionVars
        PROVE  [boot_pc = "sched" /\ boot_pc' = "booted" => BootedKernel!Init']_bootVars
    <2>1. CASE SessionNext /\ boot_pc = "sched" /\ boot_pc' = "booted"
      <3>1. Boots
        BY <1>1, <2>1, OthersWait
      <3>2. FirstSched
        BY <2>1, <3>1 DEF Boots, BootNext, init_proc, NewSystem, NewIdle, NewInit,
                          ForkInit, FreeCopy, NewShell, Step
      <3>3. status = "running"
        BY <1>1, <2>1 DEF OnlyMain
      <3>4. \A p \in Proc : image[p].length # 0 <=> p \in {2, 3}
        <4>1. boot_pc # "booted" /\ Holding = {2, 3}
          BY <2>1 DEF Holding
        <4> QED BY <1>1, <4>1 DEF BootImages
      <3> QED BY <1>1, <2>1, <3>2, <3>3, <3>4, FirstSchedStarts
    <2>2. CASE UNCHANGED sessionVars
      BY <2>2 DEF sessionVars
    <2> QED BY <1>1, <2>1, <2>2
  <1>2. BootOK /\ BootImages /\ OnlyMain /\ [SessionNext]_sessionVars
            => [boot_pc = "sched" /\ boot_pc' = "booted" => BootedKernel!Init']_bootVars
    BY <1>1
  <1> QED BY <1>2, TableInvariant, BootImagesInvariant, PTL
          DEF SessionSpec, HandsOverKernel

-----------------------------------------------------------------------------
(* The shell main starts, and the loader it calls. *)

\* A shell that is gone makes no call, and the loader runs for one that is not.
ShellInv ==
    /\ sh_pc = "gone" => call = "none" /\ ld_pc = "idle"
    /\ ld_pc # "idle" => ld_for = SHELL

LEMMA ShellStep ==
    ASSUME ShellInv, [SessionNext]_sessionVars
    PROVE  ShellInv' /\ (sh_pc' # "gone" => sh_pc # "gone")
  <1>1. CASE Boots \/ SystemStarts \/ ProgramAsks \/ UNCHANGED sessionVars
    <2>1. UNCHANGED <<sh_pc, call, ld_pc, ld_for>>
      BY <1>1 DEF Boots, SystemStarts, ProgramAsks, Allocates, Forks, Exits, Faults,
                  sessionVars, shellVars, loaderVars, loadVars
    <2> QED BY <2>1 DEF ShellInv
  <1>2. CASE Reads
    <2>1. UNCHANGED <<call, ld_pc, ld_for>>
      BY <1>2 DEF Reads, ReadChar, loaderVars, loadVars
    <2>2. sh_pc = "read" /\ sh_pc' \in {"read", "decode"}
      BY <1>2 DEF Reads, ReadChar, EndOfLine, GoOn
    <2> QED BY <2>1, <2>2 DEF ShellInv
  <1>3. CASE Decodes
    <2>1. UNCHANGED <<ld_pc, ld_for>>
      BY <1>3 DEF Decodes, loaderVars, loadVars
    <2>2. sh_pc = "decode" /\ sh_pc' \in {"read", "call"}
      BY <1>3 DEF Decodes, RunLine
    <2> QED BY <2>1, <2>2 DEF ShellInv
  <1>4. CASE ShellExits
    <2>1. UNCHANGED <<ld_pc, ld_for>> /\ ld_pc = "idle" /\ call = "exit"
      BY <1>4 DEF ShellExits, Serving, Exits, loadVars
    <2>2. sh_pc' = "gone" /\ call' = "none"
      BY <1>4 DEF ShellExits, ShellGone
    <2> QED BY <2>1, <2>2 DEF ShellInv
  <1>5. CASE ShellForks
    <2>1. UNCHANGED <<ld_pc, ld_for>> /\ ld_pc = "idle" /\ call = "fork"
      BY <1>5 DEF ShellForks, Serving, Forks, loadVars
    <2>2. sh_pc' = "read"
      BY <1>5 DEF ShellForks, CallReturns
    <2> QED BY <2>1, <2>2 DEF ShellInv
  <1>6. CASE ShellExecs
    <2>1. ld_for' = SHELL /\ call = "exec" /\ UNCHANGED <<sh_pc, call>>
      BY <1>6 DEF ShellExecs, exec_read_srec, shellVars
    <2> QED BY <2>1 DEF ShellInv
  <1>7. CASE SystemLoads
    <2>1. ld_pc # "idle" /\ (ld_pc' # "idle" => ld_for' = ld_for)
          /\ (ld_pc' = "idle" => ld_pc = "install")
      BY <1>7 DEF SystemLoads, Loads, ReadHeader, ReadRecord, ReadEntry, ReadTyped,
                  Replace, Install, NoMemory, loadVars, Idle, Fails
    <2>2. \/ ld_pc' = "idle" /\ sh_pc' = "gone" /\ call' = "none"
          \/ ld_pc' # "idle" /\ UNCHANGED <<sh_pc, call>>
      BY <1>7, <2>1 DEF SystemLoads, ShellGone, shellVars
    <2> QED BY <2>1, <2>2 DEF ShellInv
  <1>8. CASE ShellGoesOn
    <2>1. ld_pc = "failed" /\ ld_pc' = "idle" /\ sh_pc' = "read"
      BY <1>8 DEF ShellGoesOn, Idle, CallReturns
    <2> QED BY <2>1 DEF ShellInv
  <1> QED BY <1>1, <1>2, <1>3, <1>4, <1>5, <1>6, <1>7, <1>8 DEF SessionNext

LEMMA ShellInvariant == SessionSpec => []ShellInv
  <1>1. SessionInit => ShellInv
    BY DEF SessionInit, ShellInit, LoaderInit, ShellInv
  <1>2. ShellInv /\ [SessionNext]_sessionVars => ShellInv'
    BY ShellStep
  <1> QED BY <1>1, <1>2, PTL DEF SessionSpec
-----------------------------------------------------------------------------
(* The number of a process. *)

States == {"DEAD", "INITIALISING", "RUNNABLE"}

\* An entry in use has lost its number only to a name that runs over its field; one
\* that is free has it.  The shell main starts has its own until it is gone.
Named(p) == proc_index[p] = p \/ (state[p] # "DEAD" /\ Spills(forks[p]))

NumberInv ==
    /\ state \in [Proc -> States]
    /\ forks \in [Proc -> Nat] /\ Field(proc_index)
    /\ \A p \in Proc : Named(p)
    /\ sh_pc # "gone" => /\ proc_index[SHELL] = SHELL
                         /\ boot_pc = "booted" => state[SHELL] # "DEAD"

\* A step that renames and forks nothing and frees no entry.
LEMMA NumbersKept ==
    ASSUME NumberInv, UNCHANGED nameVars, state' \in [Proc -> States],
           \A p \in Proc : state'[p] = "DEAD" => state[p] = "DEAD",
           boot_pc' = "booted" => boot_pc = "booted" \/ state[SHELL] # "DEAD",
           sh_pc' # "gone" => sh_pc # "gone"
    PROVE  NumberInv'
  <1>1. \A p \in Proc : Named(p)'
    BY DEF NumberInv, nameVars, Named
  <1>2. SHELL \in Proc
    BY BootConstants DEF SHELL, BootedKernel!SHELL
  <1> QED BY <1>1, <1>2 DEF NumberInv, nameVars, Field

\* The end of a process that has its number.
LEMMA EndKeepsNumbers ==
    ASSUME NumberInv, UNCHANGED nameVars, UNCHANGED boot_pc, NEW p \in Proc,
           proc_index[p] = p, state' \in {state, [state EXCEPT ![p] = "DEAD"]},
           sh_pc' # "gone" => sh_pc # "gone" /\ p # SHELL
    PROVE  NumberInv'
  <1>1. \A q \in Proc : Named(q)'
    BY DEF NumberInv, nameVars, Named
  <1>2. SHELL \in Proc
    BY BootConstants DEF SHELL, BootedKernel!SHELL
  <1>3. state' \in [Proc -> States]
    BY DEF NumberInv, States
  <1> QED BY <1>1, <1>2, <1>3 DEF NumberInv, nameVars, Field

\* The name of a fork is longer than its parent's.
LEMMA ForkKeepsNumbers ==
    ASSUME NumberInv, NEW o \in Proc, Forks(o), sh_pc' # "gone" => sh_pc # "gone",
           boot_pc = "booted"
    PROVE  NumberInv'
  <1>1. CASE UNCHANGED <<state, nameVars>>
    <2>1. boot_pc' = boot_pc
      BY DEF Forks
    <2> QED BY <1>1, <2>1, NumbersKept DEF NumberInv
  <1>2. CASE ~UNCHANGED <<state, nameVars>>
    <2>1. PICK q \in Proc :
            /\ state[q] = "DEAD"
            /\ state' = [state EXCEPT ![q] = "RUNNABLE"]
            /\ forks' = [forks EXCEPT ![q] = forks[o] + 1]
            /\ proc_index' = [proc_index EXCEPT
                                 ![q] = IF Spills(forks[o] + 1) THEN NULL ELSE @]
      BY <1>2 DEF Forks, memoryVars
    <2>2. SHELL \in Proc /\ boot_pc' = boot_pc
      BY BootConstants DEF SHELL, BootedKernel!SHELL, Forks
    <2>3. forks[o] + 1 \in Nat /\ proc_index[q] = q
      BY <2>1 DEF NumberInv, Named
    <2>4. forks'[q] = forks[o] + 1 /\ state'[q] = "RUNNABLE"
          /\ proc_index'[q] = IF Spills(forks[o] + 1) THEN NULL ELSE q
      BY <2>1, <2>3 DEF NumberInv, Field
    <2>5. Named(q)'
      BY <2>4 DEF Named, Spills
    <2>6. \A p \in Proc \ {q} : /\ state'[p] = state[p] /\ forks'[p] = forks[p]
                                /\ proc_index'[p] = proc_index[p]
      BY <2>1 DEF NumberInv, Field
    <2>7. \A p \in Proc : Named(p)'
      BY <2>5, <2>6 DEF NumberInv, Named, Spills
    <2>8. state' \in [Proc -> States] /\ forks' \in [Proc -> Nat] /\ Field(proc_index)'
      BY <2>1, <2>3 DEF NumberInv, States, Field
    <2>9. sh_pc' # "gone" => /\ proc_index'[SHELL] = SHELL
                             /\ boot_pc' = "booted" => state'[SHELL] # "DEAD"
      <3> SUFFICES ASSUME sh_pc' # "gone"
                   PROVE  proc_index'[SHELL] = SHELL /\ state'[SHELL] # "DEAD"
        OBVIOUS
      <3>1. SHELL # q
        BY <2>1 DEF NumberInv
      <3> QED BY <2>2, <2>6, <3>1 DEF NumberInv
    <2> QED BY <2>7, <2>8, <2>9 DEF NumberInv
  <1> QED BY <1>1, <1>2

LEMMA NumberStep ==
    ASSUME NumberInv, ShellInv, BootOK, OnlyMain, [SessionNext]_sessionVars
    PROVE  NumberInv'
  <1>g. sh_pc' # "gone" => sh_pc # "gone"
    BY ShellStep
  <1>t. state \in [Proc -> States]
    BY DEF NumberInv
  <1>s. SHELL = 3 /\ SHELL \in Proc
    BY BootConstants DEF SHELL, BootedKernel!SHELL
  <1>1. CASE Boots
    <2>1. UNCHANGED nameVars /\ sh_pc' = sh_pc /\ BootNext
      BY <1>1 DEF Boots, shellVars
    <2>2. /\ state' \in [Proc -> States]
          /\ \A p \in Proc : state'[p] = "DEAD" => state[p] = "DEAD"
      BY <2>1, <1>t DEF BootNext, init_proc, NewSystem, NewIdle, NewInit, ForkInit,
              FreeCopy, NewShell, FirstSched, new_proc, Admit, States
    <2>3. boot_pc' = "booted" => state[SHELL] # "DEAD"
      <3>1. boot_pc' = "booted" => boot_pc = "sched"
        BY <2>1 DEF BootNext, init_proc, NewSystem, NewIdle, NewInit, ForkInit,
                FreeCopy, NewShell, FirstSched, Step
      <3>2. ASSUME boot_pc = "sched" PROVE state[SHELL] # "DEAD"
        <4>1. BootTable(4, TRUE, "RUNNABLE", SHELL_QUANTUM)
          BY <3>2 DEF BootOK
        <4>2. ~(SHELL >= 4)
          BY <1>s
        <4> QED BY <4>1, <4>2, <1>s DEF BootTable
      <3> QED BY <3>1, <3>2
    <2> QED BY <2>1, <2>2, <2>3, NumbersKept
  <1>2. CASE SystemStarts \/ Reads \/ Decodes \/ ShellExecs \/ ShellGoesOn
             \/ UNCHANGED sessionVars
    <2>1. UNCHANGED <<nameVars, state, boot_pc>>
      BY <1>2 DEF SystemStarts, Reads, Decodes, ShellExecs, ShellGoesOn, bootVars,
                  sessionVars
    <2> QED BY <2>1, <1>g, <1>t, NumbersKept
  <1>3. CASE ShellExits
    <2>1. sh_pc # "gone"
      BY <1>3 DEF ShellExits, ShellInv
    <2>2. /\ UNCHANGED <<nameVars, boot_pc>> /\ sh_pc' = "gone"
          /\ state' \in {state, [state EXCEPT ![SHELL] = "DEAD"]}
      BY <1>3 DEF ShellExits, Exits, ShellGone
    <2>3. proc_index[SHELL] = SHELL
      BY <2>1 DEF NumberInv
    <2> QED BY <1>s, <2>2, <2>3, EndKeepsNumbers
  <1>4. CASE ShellForks
    <2>1. boot_pc = "booted" /\ Forks(SHELL)
      BY <1>4 DEF ShellForks, Serving
    <2> QED BY <1>g, <1>s, <2>1, ForkKeepsNumbers
  <1>5. CASE SystemLoads
    <2>1. UNCHANGED <<nameVars, boot_pc>>
      BY <1>5 DEF SystemLoads
    <2>2. state' \in {state, [state EXCEPT ![ld_for] = "INITIALISING"],
                      [state EXCEPT ![ld_for] = "RUNNABLE"]}
      BY <1>5 DEF SystemLoads, Loads, ReadHeader, ReadRecord, ReadEntry, ReadTyped,
                  Replace, Install, NoMemory
    <2>3. /\ state' \in [Proc -> States]
          /\ \A p \in Proc : state'[p] = "DEAD" => state[p] = "DEAD"
      BY <1>t, <2>2 DEF States
    <2> QED BY <1>g, <2>1, <2>3, NumbersKept
  <1>6. CASE ProgramAsks
    <2>1. PICK p \in Proc :
            /\ Program_(p)
            /\ \/ Allocates(p)
               \/ \E o \in Proc : HasImage(o) /\ Forks(o)
               \/ \E code \in ExitCodes : Exits(p, code) \/ Faults(p, code)
      BY <1>6 DEF ProgramAsks
    <2>2. boot_pc = "booted" /\ UNCHANGED shellVars /\ sh_pc' = sh_pc
      BY <1>6 DEF ProgramAsks, Serving, shellVars
    <2>3. CASE Allocates(p)
      BY <2>2, <2>3, <1>t, NumbersKept DEF Allocates, nameVars
    <2>4. CASE \E o \in Proc : HasImage(o) /\ Forks(o)
      BY <2>2, <2>4, ForkKeepsNumbers
    <2>5. CASE \E code \in ExitCodes : Exits(p, code) \/ Faults(p, code)
      <3>1. proc_index[p] = p /\ (sh_pc' # "gone" => sh_pc # "gone" /\ p # SHELL)
        BY <2>1, <2>2 DEF Program_
      <3>2. /\ UNCHANGED <<nameVars, boot_pc>>
            /\ state' \in {state, [state EXCEPT ![p] = "DEAD"]}
        BY <2>5 DEF Exits, Faults
      <3> QED BY <3>1, <3>2, EndKeepsNumbers
    <2> QED BY <2>1, <2>3, <2>4, <2>5
  <1> QED BY <1>1, <1>2, <1>3, <1>4, <1>5, <1>6 DEF SessionNext

LEMMA NumberInvariant == SessionSpec => []NumberInv
  <1>1. SessionInit => NumberInv
    <2> SUFFICES ASSUME SessionInit PROVE NumberInv
      OBVIOUS
    <2>1. /\ state = [p \in Proc |-> "DEAD"] /\ boot_pc = "init_proc"
          /\ proc_index = [p \in Proc |-> p] /\ forks = [p \in Proc |-> 0]
      BY DEF SessionInit, BootInit
    <2>2. SHELL \in Proc
      BY BootConstants DEF SHELL, BootedKernel!SHELL
    <2> QED BY <2>1, <2>2 DEF NumberInv, Named, Field, States
  <1>2. NumberInv /\ ShellInv /\ BootOK /\ OnlyMain /\ [SessionNext]_sessionVars
            => NumberInv'
    BY NumberStep
  <1> QED BY <1>1, <1>2, TableInvariant, ShellInvariant, PTL DEF SessionSpec

\* A process that is not too many forks away from one main has named keeps its
\* number, whatever the lengths of the names and of the field (proc.c:311).
THEOREM NumbersStay == SessionSpec => []KeepsItsNumber
  <1>1. ASSUME NEW n \in Nat, n <= SafeForks PROVE ~Spills(n)
    <2> DEFINE x == PROC_NAME_LEN + 1 - NAME_LEN
               d == x \div PREFIX_LEN
    <2>1. x \in Nat /\ PREFIX_LEN \in Nat \ {0} /\ NAME_LEN \in Nat /\ PROC_NAME_LEN \in Nat
      BY SessionAssumption
    <2>2. d \in Nat /\ d * PREFIX_LEN <= x
      <3>1. /\ d \in Nat /\ x % PREFIX_LEN \in 0 .. PREFIX_LEN - 1
            /\ x = d * PREFIX_LEN + (x % PREFIX_LEN)
        BY <2>1, Division
      <3> HIDE DEF d
      <3> QED BY <2>1, <3>1
    <2>3. n <= d
      BY <1>1 DEF SafeForks
    <2> HIDE DEF d
    <2>4. n * PREFIX_LEN <= d * PREFIX_LEN
      <3>1. (d - n) * PREFIX_LEN >= 0 /\ (d - n) * PREFIX_LEN = d * PREFIX_LEN - n * PREFIX_LEN
        BY <2>1, <2>2, <2>3
      <3> QED BY <2>1, <2>2, <3>1
    <2>5. n * PREFIX_LEN \in Nat /\ d * PREFIX_LEN \in Nat
      BY <2>1, <2>2
    <2> QED BY <2>1, <2>2, <2>4, <2>5 DEF Spills, SPARE_FIELDS
  <1>2. NumberInv => KeepsItsNumber
    BY <1>1 DEF NumberInv, Named, KeepsItsNumber
  <1> QED BY <1>2, NumberInvariant, PTL

-----------------------------------------------------------------------------
(* Who owns the images. *)

\* An image is a block that is handed out, its length whole blocks of the table.
Owned(p) == image[p].length # 0 => /\ ImageBlock(p) \in allocated
                                   /\ image[p].length >= BLOCK
                                   /\ Rounded(image[p].length) = image[p].length
ImagesOK ==
    /\ image \in [Proc -> [rbase : Word, length : Word]]
    /\ \A p \in Proc : Owned(p)
    /\ \A p, q \in Proc : p # q /\ image[p].length # 0 /\ image[q].length # 0
                              => image[p].rbase # image[q].rbase

LEMMA ImageFields ==
    ASSUME NEW p
    PROVE  /\ ImageBlock(p).start = image[p].rbase
           /\ ImageBlock(p).length = image[p].length + BLOCK
  BY BlockFields DEF ImageBlock, DEFAULT_STACK_SIZE

LEMMA ImageTypes ==
    ASSUME ImagesOK, NEW p \in Proc
    PROVE  /\ image[p].rbase \in Nat /\ image[p].length \in Nat
           /\ BLOCK \in Nat /\ BLOCK > 0
           /\ ImageBlock(p).length > 0
  <1>1. \A x \in Word : x \in Nat
    BY MemoryAssumption DEF Word
  <1>2. image[p].rbase \in Nat /\ image[p].length \in Nat /\ BLOCK \in Nat \ {0}
    BY <1>1, ImageAssumption DEF ImagesOK
  <1> QED BY <1>2, ImageFields

LEMMA ImagesStay ==
    ASSUME ImagesOK, UNCHANGED image, AllStay
    PROVE  ImagesOK'
  <1>1. ASSUME NEW p \in Proc PROVE Owned(p)'
    <2>1. ImageBlock(p).length > 0 /\ ImageBlock(p)' = ImageBlock(p)
      BY ImageTypes DEF ImageBlock
    <2> QED BY <2>1 DEF ImagesOK, Owned, AllStay
  <1> QED BY <1>1 DEF ImagesOK

\* Two blocks with words do not start at one address.
OneStart == \A a, b \in allocated : a.length > 0 /\ b.length > 0 /\ a.start = b.start
                                   => a = b
LEMMA StartsDiffer == HInv => OneStart
  BY BlockPlaces DEF OneStart

\* The process p gets the image of r words at base.
Imaged(p, base, r) == image' = [image EXCEPT ![p] = [rbase |-> base, length |-> r]]

\* A new image is owned, and starts where no other does.
LEMMA ImageGiven ==
    ASSUME HInv, ImagesOK, NEW p \in Proc, NEW r \in Nat,
           r >= BLOCK, Rounded(r) = r, LAST + r + BLOCK < SIZE_LIMIT,
           EnoughMemory(r + BLOCK), proc_malloc(r + BLOCK), NEW base \in Returned,
           Imaged(p, base, r)
    PROVE  ImagesOK'
  <1>0. /\ BLOCK \in Nat /\ BLOCK > 0 /\ LAST \in Nat /\ SIZE_LIMIT \in Nat
        /\ \A x : x \in Word <=> x \in Nat /\ x < SIZE_LIMIT
    BY ImageAssumption, MemoryAssumption DEF Word
  <1>1. /\ r \in Word /\ r + BLOCK \in Word /\ LAST + (r + BLOCK) < SIZE_LIMIT
    BY <1>0
  <1> DEFINE new == Block(base, r + BLOCK, "malloc")
  <1>2. HInv' /\ allocated \subseteq allocated' /\ new \in allocated' \ allocated
    BY <1>1, MallocGives
  <1>3. new.start = base /\ new.length = r + BLOCK
    BY BlockFields
  <1>4. base \in Word
    BY <1>2, <1>3 DEF HInv, BoundsOK
  <1>5. /\ image'[p] = [rbase |-> base, length |-> r]
        /\ \A q \in Proc \ {p} : image'[q] = image[q]
        /\ image' \in [Proc -> [rbase : Word, length : Word]]
    BY <1>1, <1>4 DEF ImagesOK, Imaged
  <1>6. ImageBlock(p)' = new
    BY <1>5 DEF ImageBlock, DEFAULT_STACK_SIZE
  <1>7. Owned(p)'
    BY <1>0, <1>2, <1>5, <1>6 DEF Owned
  <1>8. ASSUME NEW q \in Proc \ {p}
        PROVE  Owned(q)' /\ (image'[q].length # 0 => image'[q].rbase # base)
    <2>1. Owned(q) /\ ImageBlock(q)' = ImageBlock(q)
      BY <1>5 DEF ImagesOK, ImageBlock
    <2>2. Owned(q)'
      BY <1>2, <1>5, <2>1 DEF Owned
    <2>3. ASSUME image[q].length # 0, image[q].rbase = base PROVE FALSE
      <3>1. ImageBlock(q) \in allocated /\ ImageBlock(q).length > 0
            /\ ImageBlock(q).start = base
        BY <2>1, <2>3, ImageFields, ImageTypes DEF Owned
      <3>2. new.length > 0 /\ new.start = base
        BY <1>0, <1>3
      <3> HIDE DEF new
      <3>3. OneStart'
        BY <1>2, StartsDiffer, PTL
      <3> QED BY <1>2, <3>1, <3>2, <3>3 DEF OneStart
    <2> QED BY <1>5, <2>2, <2>3
  <1>9. ASSUME NEW a \in Proc, NEW b \in Proc, a # b, image'[a].length # 0,
               image'[b].length # 0
        PROVE  image'[a].rbase # image'[b].rbase
    <2>1. CASE a = p \/ b = p
      BY <1>5, <1>8, <1>9, <2>1
    <2>2. CASE a # p /\ b # p
      BY <1>5, <1>9, <2>2 DEF ImagesOK
    <2> QED BY <2>1, <2>2
  <1> QED BY <1>5, <1>7, <1>8, <1>9 DEF ImagesOK

\* The blocks of the words given back.
Freed == {b \in allocated \ allocated' : b.length > 0}

\* An image is given back, and no other.
LEMMA ImageFreed ==
    ASSUME HInv, ImagesOK, NEW p \in Proc, image[p].length # 0,
           proc_free(image[p].rbase), image' = [image EXCEPT ![p] = NoImage]
    PROVE  ImagesOK' /\ Freed = {ImageBlock(p)}
  <1>1. allocated' = {b \in allocated : b.start # image[p].rbase}
    BY FreeTakes
  <1>2. /\ ImageBlock(p) \in allocated /\ ImageBlock(p).length > 0
        /\ ImageBlock(p).start = image[p].rbase
    BY ImageFields, ImageTypes DEF ImagesOK, Owned
  <1>3. Freed = {ImageBlock(p)}
    BY <1>1, <1>2, BlockPlaces DEF Freed
  <1>4. /\ image'[p] = [rbase |-> 0, length |-> 0]
        /\ \A q \in Proc \ {p} : image'[q] = image[q]
        /\ image' \in [Proc -> [rbase : Word, length : Word]]
    <2>1. 0 \in Word
      BY MemoryAssumption DEF Word
    <2> QED BY <2>1 DEF ImagesOK, NoImage
  <1>5. ASSUME NEW q \in Proc PROVE Owned(q)'
    <2>1. CASE q = p
      BY <1>4, <2>1 DEF Owned
    <2>2. CASE q # p
      <3>1. image'[q] = image[q] /\ ImageBlock(q)' = ImageBlock(q)
        BY <1>4, <2>2 DEF ImageBlock
      <3>2. ASSUME image[q].length # 0 PROVE ImageBlock(q) \in allocated'
        <4>1. ImageBlock(q) \in allocated /\ ImageBlock(q).start # image[p].rbase
          BY <2>2, <3>2, ImageFields DEF ImagesOK, Owned
        <4> QED BY <1>1, <4>1
      <3> QED BY <3>1, <3>2 DEF ImagesOK, Owned
    <2> QED BY <2>1, <2>2
  <1>6. ASSUME NEW a \in Proc, NEW b \in Proc, a # b, image'[a].length # 0,
               image'[b].length # 0
        PROVE  image'[a].rbase # image'[b].rbase
    BY <1>4, <1>6 DEF ImagesOK
  <1> QED BY <1>3, <1>4, <1>5, <1>6 DEF ImagesOK

\* SYSCALL_FREE frees nothing: the number of a process is below all of memory.
LEMMA NumberFreed ==
    ASSUME HInv, NEW p \in Proc, proc_free(p)
    PROVE  AllStay
  <1>1. allocated' = {b \in allocated : b.start # p}
    BY FreeTakes
  <1>2. ASSUME NEW b \in allocated, b.length > 0 PROVE b.start # p
    <2>1. ORIGIN <= b.start /\ b.start \in Nat
      BY <1>2, BlockPlaces
    <2>2. ORIGIN \in Nat /\ p \in Nat /\ p < ORIGIN
      BY ImageAssumption, MemoryAssumption DEF Proc
    <2> QED BY <2>1, <2>2
  <1> QED BY <1>1, <1>2 DEF AllStay

-----------------------------------------------------------------------------
(* The memory of the system, from the boot on. *)

\* How far the calls of main have taken FREE_MEM_BEGIN, at most.
InitSize == ImageSize(INIT_LENGTH)
Within(n) == FREE_MEM_BEGIN <= ORIGIN + BSS_SIZE + n
AfterSystem == 0 + BLOCK
AfterIdle   == AfterSystem + BLOCK
AfterInit   == AfterIdle + InitSize
AfterFork   == AfterInit + InitSize
BootMemory ==
    /\ boot_pc \in {"init_proc", "new SYSTEM"} => Within(0)
    /\ boot_pc = "new IDLE"  => Within(AfterSystem)
    /\ boot_pc = "exec init" => Within(AfterIdle)
    /\ boot_pc = "fork init" => Within(AfterInit) /\ image[2].length = Rounded(INIT_LENGTH)
    /\ boot_pc = "free the copy" => Within(AfterFork) /\ image[3].length # 0
    /\ boot_pc = "exec Shell"    => Within(AfterFork)

\* The shell has an image until the loader gives it back.
ShellImage ==
    boot_pc \in {"sched", "booted"} /\ sh_pc # "gone" /\ ld_pc # "install"
        => image[SHELL].length # 0

\* What the loader asks for is not so much that an addition wraps.
LoadOK ==
    /\ LoadFits(wordslength)
    /\ ld_pc = "header" => LoadFits(winix_load_srec_words_length(Head(incoming)))
    /\ ld_pc # "idle" => FREE_MEM_END # 0

MemInv == HInv /\ ImagesOK /\ BootMemory /\ ShellImage /\ LoadOK

LEMMA BootSizes ==
    ASSUME Fits
    PROVE  /\ {ORIGIN, BSS_SIZE, LAST, SIZE_LIMIT, BLOCK, InitSize, INIT_LENGTH,
               SHELL_LENGTH, ImageSize(SHELL_LENGTH)} \subseteq Nat
           /\ ORIGIN + BSS_SIZE + 2 * BLOCK + 2 * InitSize + ImageSize(SHELL_LENGTH) <= LAST
           /\ \A size \in Nat : size <= LAST => size \in Word /\ LAST + size < SIZE_LIMIT
  <1>1. INIT_LENGTH \in Nat /\ SHELL_LENGTH \in Nat /\ BLOCK \in Nat
        /\ ORIGIN \in Nat /\ BSS_SIZE \in Nat /\ LAST \in Nat /\ SIZE_LIMIT \in Nat
    BY BootAssumption, ImageAssumption, MemoryAssumption
  <1>2. InitSize \in Nat /\ ImageSize(SHELL_LENGTH) \in Nat
    BY <1>1, RoundedBlocks DEF InitSize, ImageSize, DEFAULT_STACK_SIZE
  <1>3. ORIGIN + BSS_SIZE + 2 * BLOCK + 2 * InitSize + ImageSize(SHELL_LENGTH) <= LAST
    BY DEF Fits, InitSize, DEFAULT_STACK_SIZE
  <1>4. 2 * LAST < SIZE_LIMIT
    BY DEF Fits
  <1> QED BY <1>1, <1>2, <1>3, <1>4 DEF Word

\* main calls new_proc while FREE_MEM_BEGIN is where it can be.
LEMMA BootSbrk ==
    ASSUME Fits, HInv, ImagesOK, NEW n \in Nat,
           n <= 2 * InitSize + BLOCK, Within(n),
           _sbrk(BLOCK), UNCHANGED image
    PROVE  /\ HInv' /\ ImagesOK' /\ AllStay /\ UNCHANGED FREE_MEM_END
           /\ Within(n + BLOCK)'
  <1>1. BoundsOK /\ FREE_MEM_BEGIN \in Nat
    BY Facts DEF HInv
  <1>2. BLOCK \in Word /\ LAST + BLOCK < SIZE_LIMIT /\ FREE_MEM_BEGIN + BLOCK <= LAST
    BY <1>1, BootSizes DEF Within
  <1>3. /\ HInv' /\ allocated \subseteq allocated' /\ UNCHANGED FREE_MEM_END
        /\ FREE_MEM_BEGIN' <= FREE_MEM_BEGIN + BLOCK
    BY <1>2, SbrkGives DEF EnoughMemory
  <1>4. FREE_MEM_BEGIN' \in Nat
    BY <1>3, MemoryAssumption DEF HInv, BoundsOK
  <1>5. AllStay
    BY <1>3 DEF AllStay
  <1>6. ImagesOK'
    BY <1>5, ImagesStay
  <1>7. Within(n + BLOCK)'
    BY <1>1, <1>3, <1>4, BootSizes DEF Within
  <1> QED BY <1>3, <1>5, <1>6, <1>7

\* It calls exec or fork.
LEMMA BootImage ==
    ASSUME Fits, HInv, ImagesOK, NEW n \in Nat, NEW len \in Nat, NEW p \in Proc,
           n + ImageSize(len) <= 2 * BLOCK + 2 * InitSize + ImageSize(SHELL_LENGTH),
           Within(n),
           proc_malloc(ImageSize(len)), NEW base \in Returned,
           Imaged(p, base, Rounded(len))
    PROVE  /\ HInv' /\ ImagesOK' /\ AllStay /\ UNCHANGED FREE_MEM_END
           /\ Within(n + ImageSize(len))'
           /\ image'[p].length = Rounded(len) /\ Rounded(len) # 0
           /\ \A q \in Proc \ {p} : image'[q] = image[q]
  <1> DEFINE r == Rounded(len)
             size == ImageSize(len)
  <1>1. BoundsOK /\ FREE_MEM_BEGIN \in Nat
    BY Facts DEF HInv
  <1>2. /\ r \in Nat /\ BLOCK \in Nat /\ BLOCK > 0 /\ r >= BLOCK /\ Rounded(r) = r
        /\ size = r + BLOCK /\ size \in Nat
    BY RoundedBlocks, ImageAssumption DEF ImageSize, DEFAULT_STACK_SIZE
  <1> HIDE DEF r, size
  <1>3. size <= LAST /\ FREE_MEM_BEGIN + size <= LAST
    BY <1>1, <1>2, BootSizes DEF size, Within
  <1>4. size \in Word /\ LAST + size < SIZE_LIMIT /\ EnoughMemory(size)
    BY <1>2, <1>3, BootSizes DEF EnoughMemory
  <1>5. /\ HInv' /\ allocated \subseteq allocated' /\ UNCHANGED FREE_MEM_END
        /\ FREE_MEM_BEGIN' <= FREE_MEM_BEGIN + size
    BY <1>4, MallocGives DEF size
  <1>6. FREE_MEM_BEGIN' \in Nat
    BY <1>5, MemoryAssumption DEF HInv, BoundsOK
  <1>7. ImagesOK'
    <2>1. proc_malloc(r + BLOCK) /\ EnoughMemory(r + BLOCK) /\ LAST + r + BLOCK < SIZE_LIMIT
      BY <1>2, <1>4, BootSizes DEF size
    <2>2. Imaged(p, base, r)
      BY DEF r
    <2> QED BY <1>2, <2>1, <2>2, ImageGiven
  <1>8. Within(n + size)'
    BY <1>1, <1>2, <1>5, <1>6, BootSizes DEF Within
  <1>9. image'[p].length = r /\ \A q \in Proc \ {p} : image'[q] = image[q]
    BY DEF ImagesOK, Imaged, r
  <1> QED BY <1>2, <1>5, <1>7, <1>8, <1>9 DEF AllStay, r, size

\* Memory that is given back is the image of a process that exec replaces.
FreesOK == Freed # {} => \/ boot_pc = "free the copy"
                         \/ ld_pc = "replace" /\ Freed = {ImageBlock(ld_for)}

LEMMA NothingFreed == AllStay => FreesOK
  BY DEF AllStay, Freed, FreesOK

\* The loader waits, and nothing it knows changes.
LEMMA LoaderWaits ==
    ASSUME LoadOK, UNCHANGED loadVars, UNCHANGED FREE_MEM_END
    PROVE  LoadOK'
  BY DEF LoadOK, loadVars, LoadFits

LEMMA MemoryBoots ==
    ASSUME Fits, MemInv, BootOK, Boots
    PROVE  MemInv' /\ FreesOK
  <1>1. HInv /\ ImagesOK /\ BootMemory /\ ShellImage /\ LoadOK /\ BootNext
        /\ UNCHANGED loadVars /\ UNCHANGED <<sh_pc, ld_pc>>
    BY DEF MemInv, Boots, shellVars, loaderVars, loadVars
  <1>2. /\ BLOCK \in Nat /\ InitSize \in Nat /\ INIT_LENGTH \in Nat /\ SHELL_LENGTH \in Nat
        /\ ImageSize(SHELL_LENGTH) \in Nat /\ ORIGIN \in Nat /\ BSS_SIZE \in Nat
        /\ FREE_MEM_BEGIN \in Nat
        /\ SHELL = 3 /\ 2 \in Proc /\ 3 \in Proc
    BY <1>1, BootSizes, BootConstants, Facts DEF HInv, SHELL, BootedKernel!SHELL
  <1>3. CASE init_proc
    <2>1. /\ boot_pc = "init_proc" /\ boot_pc' = "new SYSTEM"
          /\ UNCHANGED <<vars, image>>
      BY <1>3 DEF init_proc, Step, imageVars
    <2>2. HInv' /\ AllStay /\ UNCHANGED FREE_MEM_END /\ UNCHANGED FREE_MEM_BEGIN
      BY <1>1, <2>1 DEF vars, HInv, BoundsOK, HolesApart, BlocksApart, Below, AllStay
    <2>3. BootMemory' /\ ShellImage'
      BY <1>1, <2>1, <2>2 DEF BootMemory, ShellImage, Within
    <2> QED BY <1>1, <2>1, <2>2, <2>3, ImagesStay, LoaderWaits, NothingFreed DEF MemInv
  <1>4. CASE NewSystem
    <2>1. /\ boot_pc = "new SYSTEM" /\ boot_pc' = "new IDLE"
          /\ _sbrk(BLOCK) /\ UNCHANGED image
      BY <1>4 DEF NewSystem, Step, new_proc, DEFAULT_STACK_SIZE
    <2>2. 0 \in Nat /\ 0 <= 2 * InitSize + BLOCK
      BY <1>2
    <2>5. Within(0)
      BY <1>1, <2>1 DEF BootMemory
    <2>3. /\ HInv' /\ ImagesOK' /\ AllStay /\ UNCHANGED FREE_MEM_END
          /\ Within(0 + BLOCK)'
      BY <1>1, <2>1, <2>2, <2>5, BootSbrk
    <2>4. BootMemory' /\ ShellImage'
      BY <2>1, <2>3 DEF BootMemory, ShellImage, AfterSystem, AfterIdle
    <2> QED BY <1>1, <2>3, <2>4, LoaderWaits, NothingFreed DEF MemInv
  <1>5. CASE NewIdle
    <2>1. /\ boot_pc = "new IDLE" /\ boot_pc' = "exec init"
          /\ _sbrk(BLOCK) /\ UNCHANGED image
      BY <1>5 DEF NewIdle, Step, new_proc, DEFAULT_STACK_SIZE
    <2>2. AfterSystem \in Nat /\ AfterSystem <= 2 * InitSize + BLOCK
      BY <1>2 DEF AfterSystem
    <2>5. Within(AfterSystem)
      BY <1>1, <2>1 DEF BootMemory
    <2>3. /\ HInv' /\ ImagesOK' /\ AllStay /\ UNCHANGED FREE_MEM_END
          /\ Within(AfterSystem + BLOCK)'
      BY <1>1, <2>1, <2>2, <2>5, BootSbrk
    <2>4. BootMemory' /\ ShellImage'
      BY <2>1, <2>3 DEF BootMemory, ShellImage, AfterSystem, AfterIdle
    <2> QED BY <1>1, <2>3, <2>4, LoaderWaits, NothingFreed DEF MemInv
  <1>6. CASE NewInit
    <2>1. boot_pc = "exec init" /\ boot_pc' = "fork init" /\ ExecImage(Taken, INIT_LENGTH)
      BY <1>6 DEF NewInit, Step
    <2>2. Taken = 2
      BY <2>1, WhoIsWho
    <2>3. PICK base \in Returned : Imaged(2, base, Rounded(INIT_LENGTH))
      BY <2>1, <2>2 DEF ExecImage, Imaged
    <2>4. proc_malloc(ImageSize(INIT_LENGTH))
      BY <2>1 DEF ExecImage
    <2>5. /\ AfterIdle \in Nat
          /\ AfterIdle + ImageSize(INIT_LENGTH)
                <= 2 * BLOCK + 2 * InitSize + ImageSize(SHELL_LENGTH)
      BY <1>2 DEF AfterIdle, AfterSystem, InitSize
    <2>8. Within(AfterIdle)
      BY <1>1, <2>1 DEF BootMemory
    <2>6. /\ HInv' /\ ImagesOK' /\ AllStay /\ UNCHANGED FREE_MEM_END
          /\ Within(AfterIdle + ImageSize(INIT_LENGTH))'
          /\ image'[2].length = Rounded(INIT_LENGTH)
      BY <1>1, <1>2, <2>3, <2>4, <2>5, <2>8, BootImage
    <2>7. BootMemory' /\ ShellImage'
      BY <2>1, <2>6 DEF BootMemory, ShellImage, AfterInit, InitSize
    <2> QED BY <1>1, <2>6, <2>7, LoaderWaits, NothingFreed DEF MemInv
  <1>7. CASE ForkInit
    <2>1. boot_pc = "fork init" /\ boot_pc' = "free the copy" /\ ForkImage(Init_, Taken)
      BY <1>7 DEF ForkInit, Step
    <2>2. Init_ = 2 /\ Taken = 3
      BY <2>1, WhoIsWho
    <2> DEFINE r == Rounded(INIT_LENGTH)
    <2>3. image[2].length = r
      BY <1>1, <2>1 DEF BootMemory
    <2>4. r \in Nat /\ Rounded(r) = r /\ ImageSize(r) = InitSize
      BY <1>2, RoundedBlocks DEF InitSize, ImageSize
    <2> HIDE DEF r
    <2>5. PICK base \in Returned : Imaged(3, base, r)
      BY <2>1, <2>2, <2>3 DEF ForkImage, Imaged
    <2>6. proc_malloc(ImageSize(r))
      BY <2>1, <2>2, <2>3 DEF ForkImage
    <2>7. /\ AfterInit \in Nat
          /\ AfterInit + ImageSize(r) <= 2 * BLOCK + 2 * InitSize + ImageSize(SHELL_LENGTH)
      BY <1>2, <2>4 DEF AfterInit, AfterIdle, AfterSystem
    <2>11. Within(AfterInit)
      BY <1>1, <2>1 DEF BootMemory
    <2>8. Imaged(3, base, Rounded(r))
      BY <2>4, <2>5
    <2>9. /\ HInv' /\ ImagesOK' /\ AllStay /\ UNCHANGED FREE_MEM_END
          /\ Within(AfterInit + ImageSize(r))'
          /\ image'[3].length = Rounded(r) /\ Rounded(r) # 0
      BY <1>1, <1>2, <2>4, <2>6, <2>7, <2>8, <2>11, BootImage
    <2>12. Within(AfterFork)'
      BY <2>4, <2>9 DEF AfterFork
    <2>10. BootMemory' /\ ShellImage'
      BY <2>1, <2>9, <2>12 DEF BootMemory, ShellImage
    <2> QED BY <1>1, <2>9, <2>10, LoaderWaits, NothingFreed DEF MemInv
  <1>8. CASE FreeCopy
    <2>1. /\ boot_pc = "free the copy" /\ boot_pc' = "exec Shell"
          /\ proc_free(image[Child].rbase)
          /\ image' = [image EXCEPT ![Child] = NoImage]
      BY <1>8 DEF FreeCopy, Step
    <2>2. Child = 3 /\ image[3].length # 0
      BY <1>1, <2>1, WhoIsWho DEF BootMemory
    <2>3. ImagesOK'
      BY <1>1, <1>2, <2>1, <2>2, ImageFreed
    <2>4. HInv' /\ UNCHANGED FREE_MEM_END /\ FREE_MEM_BEGIN' <= FREE_MEM_BEGIN
      BY <1>1, <2>1, FreeTakes
    <2>5. FREE_MEM_BEGIN' \in Nat
      BY <2>4, MemoryAssumption DEF HInv, BoundsOK
    <2>7. Within(AfterFork)
      BY <1>1, <2>1 DEF BootMemory
    <2>8. Within(AfterFork)'
      BY <1>2, <2>4, <2>5, <2>7 DEF Within, AfterFork, AfterInit, AfterIdle, AfterSystem
    <2>6. BootMemory' /\ ShellImage'
      BY <2>1, <2>8 DEF BootMemory, ShellImage
    <2> QED BY <1>1, <2>1, <2>3, <2>4, <2>6, LoaderWaits DEF MemInv, FreesOK
  <1>9. CASE NewShell
    <2>1. boot_pc = "exec Shell" /\ boot_pc' = "sched" /\ ExecImage(Child, SHELL_LENGTH)
      BY <1>9 DEF NewShell, Step
    <2>2. Child = 3
      BY <2>1, WhoIsWho
    <2>3. PICK base \in Returned : Imaged(3, base, Rounded(SHELL_LENGTH))
      BY <2>1, <2>2 DEF ExecImage, Imaged
    <2>4. proc_malloc(ImageSize(SHELL_LENGTH))
      BY <2>1 DEF ExecImage
    <2>5. /\ AfterFork \in Nat
          /\ AfterFork + ImageSize(SHELL_LENGTH)
                <= 2 * BLOCK + 2 * InitSize + ImageSize(SHELL_LENGTH)
      BY <1>2 DEF AfterFork, AfterInit, AfterIdle, AfterSystem
    <2>8. Within(AfterFork)
      BY <1>1, <2>1 DEF BootMemory
    <2>6. /\ HInv' /\ ImagesOK' /\ AllStay /\ UNCHANGED FREE_MEM_END
          /\ image'[3].length = Rounded(SHELL_LENGTH) /\ Rounded(SHELL_LENGTH) # 0
      BY <1>1, <1>2, <2>3, <2>4, <2>5, <2>8, BootImage
    <2>7. BootMemory' /\ ShellImage'
      BY <1>2, <2>1, <2>6 DEF BootMemory, ShellImage
    <2> QED BY <1>1, <2>6, <2>7, LoaderWaits, NothingFreed DEF MemInv
  <1>10. CASE FirstSched
    <2>1. boot_pc = "sched" /\ boot_pc' = "booted" /\ UNCHANGED <<vars, image>>
      BY <1>10 DEF FirstSched, Step, imageVars
    <2>2. HInv' /\ AllStay /\ UNCHANGED FREE_MEM_END
      BY <1>1, <2>1 DEF vars, HInv, BoundsOK, HolesApart, BlocksApart, Below, AllStay
    <2>3. BootMemory' /\ ShellImage'
      BY <1>1, <2>1 DEF BootMemory, ShellImage
    <2> QED BY <1>1, <2>1, <2>2, <2>3, ImagesStay, LoaderWaits, NothingFreed DEF MemInv
  <1> QED BY <1>1, <1>3, <1>4, <1>5, <1>6, <1>7, <1>8, <1>9, <1>10 DEF BootNext

-----------------------------------------------------------------------------
(* The memory of the running system. *)

LEMMA ShellIs3 == SHELL = 3 /\ SHELL \in Proc
  BY BootConstants DEF SHELL, BootedKernel!SHELL

\* After the boot the images, the blocks, and what the loader knows are all there is.
LEMMA MemoryRuns ==
    ASSUME boot_pc' = "booted", HInv', ImagesOK', LoadOK', AllStay,
           sh_pc' # "gone" /\ ld_pc' # "install" => image'[SHELL].length # 0
    PROVE  MemInv' /\ FreesOK
  <1>1. BootMemory' /\ ShellImage'
    BY DEF BootMemory, ShellImage
  <1> QED BY <1>1, NothingFreed DEF MemInv

\* Steps that leave the memory and the loader as they are.
LEMMA MemoryRests ==
    ASSUME MemInv, boot_pc = "booted", UNCHANGED <<vars, image, boot_pc, loadVars>>,
           sh_pc' # "gone" => sh_pc # "gone"
    PROVE  MemInv' /\ FreesOK
  <1>1. HInv /\ ImagesOK /\ LoadOK /\ ShellImage
    BY DEF MemInv
  <1>2. HInv' /\ AllStay /\ UNCHANGED FREE_MEM_END
    BY <1>1 DEF vars, HInv, BoundsOK, HolesApart, BlocksApart, Below, AllStay
  <1>3. ImagesOK' /\ LoadOK'
    BY <1>1, <1>2, ImagesStay, LoaderWaits
  <1>4. sh_pc' # "gone" /\ ld_pc' # "install" => image'[SHELL].length # 0
    BY <1>1 DEF ShellImage, loadVars
  <1> QED BY <1>2, <1>3, <1>4, MemoryRuns

\* A fork of a process that has an image.
LEMMA MemoryForks ==
    ASSUME Fits, MemInv, NumberInv, NEW o \in Proc, image[o].length # 0, Forks(o),
           boot_pc = "booted", ld_pc = "idle", FREE_MEM_END # 0,
           sh_pc' # "gone" => sh_pc # "gone"
    PROVE  MemInv' /\ FreesOK
  <1> DEFINE r == image[o].length
  <1>1. HInv /\ ImagesOK /\ LoadOK /\ ShellImage /\ boot_pc' = "booted"
        /\ UNCHANGED loadVars
    BY DEF MemInv, Forks
  <1>2. /\ r \in Nat /\ r >= BLOCK /\ Rounded(r) = r /\ BLOCK \in Nat /\ BLOCK > 0
        /\ ImageSize(r) = r + BLOCK
        /\ ImageBlock(o) \in allocated /\ ImageBlock(o).length = r + BLOCK
    BY <1>1, ImageTypes, ImageFields DEF ImagesOK, Owned, ImageSize, DEFAULT_STACK_SIZE
  <1> HIDE DEF r
  <1>3. r + BLOCK \in Nat /\ r + BLOCK <= LAST
    <2>1. ImageBlock(o).length > 0
      BY <1>2
    <2>2. ImageBlock(o).start \in Nat /\ ImageBlock(o).start + ImageBlock(o).length <= LAST
      BY <1>1, <1>2, <2>1, BlockPlaces
    <2> QED BY <1>2, <2>2, MemoryAssumption
  <1>4. /\ r + BLOCK \in Word /\ LAST + (r + BLOCK) < SIZE_LIMIT
        /\ LAST + r + BLOCK < SIZE_LIMIT /\ EnoughMemory(r + BLOCK)
    BY <1>2, <1>3, BootSizes DEF EnoughMemory
  <1>5. CASE UNCHANGED memoryVars
    <2>1. UNCHANGED <<vars, image, boot_pc, loadVars>>
      BY <1>1, <1>5 DEF memoryVars, imageVars
    <2> QED BY <2>1, MemoryRests
  <1>6. ASSUME proc_malloc(ImageSize(r))
        PROVE  HInv' /\ AllStay /\ LoadOK'
    <2>1. HInv' /\ allocated \subseteq allocated' /\ UNCHANGED FREE_MEM_END
      BY <1>1, <1>2, <1>4, <1>6, MallocGives
    <2> QED BY <1>1, <2>1, LoaderWaits DEF AllStay
  <1>7. CASE OutOfMemory(r) /\ UNCHANGED image
    <2>1. HInv' /\ AllStay /\ LoadOK'
      BY <1>6, <1>7 DEF OutOfMemory
    <2>2. ImagesOK'
      BY <1>1, <1>7, <2>1, ImagesStay
    <2>3. sh_pc' # "gone" /\ ld_pc' # "install" => image'[SHELL].length # 0
      BY <1>1, <1>7 DEF ShellImage, loadVars
    <2> QED BY <1>1, <2>1, <2>2, <2>3, MemoryRuns
  <1>8. ASSUME NEW q \in Proc, state[q] = "DEAD", ForkImage(o, q)
        PROVE  MemInv' /\ FreesOK
    <2>1. proc_malloc(ImageSize(r))
      BY <1>8 DEF ForkImage, r
    <2>2. PICK base \in Returned : Imaged(q, base, r)
      BY <1>8 DEF ForkImage, Imaged, r
    <2>3. HInv' /\ AllStay /\ LoadOK'
      BY <1>6, <2>1
    <2>4. ImagesOK'
      BY <1>1, <1>2, <1>4, <2>1, <2>2, ImageGiven
    <2>5. sh_pc' # "gone" /\ ld_pc' # "install" => image'[SHELL].length # 0
      <3> SUFFICES ASSUME sh_pc' # "gone" PROVE image'[SHELL].length # 0
        OBVIOUS
      <3>1. SHELL # q
        BY <1>8 DEF NumberInv
      <3>2. image[SHELL].length # 0
        BY <1>1 DEF ShellImage
      <3> QED BY <1>1, <2>2, <3>1, <3>2, ShellIs3 DEF ImagesOK, Imaged
    <2> QED BY <1>1, <2>3, <2>4, <2>5, MemoryRuns
  <1> QED BY <1>5, <1>7, <1>8 DEF Forks, imageVars, r

\* Requests for memory.
LEMMA MemoryAllocates ==
    ASSUME Fits, MemInv, NEW p \in Proc, Allocates(p), boot_pc = "booted",
           FREE_MEM_END # 0, sh_pc' # "gone" => sh_pc # "gone"
    PROVE  MemInv' /\ FreesOK
  <1>1. /\ HInv /\ ImagesOK /\ LoadOK /\ ShellImage /\ boot_pc' = "booted"
        /\ UNCHANGED loadVars /\ UNCHANGED image
    BY DEF MemInv, Allocates, imageVars, loaderVars
  <1>2. HInv' /\ AllStay /\ UNCHANGED FREE_MEM_END
    <2>1. ASSUME NEW size \in Sizes, _sbrk(size) \/ proc_malloc(size)
          PROVE  HInv' /\ AllStay /\ UNCHANGED FREE_MEM_END
      <3>1. size \in Word /\ LAST + size < SIZE_LIMIT /\ EnoughMemory(size)
        BY SizesAssumption DEF Fits, NoWrap, EnoughMemory
      <3>2. HInv' /\ allocated \subseteq allocated' /\ UNCHANGED FREE_MEM_END
        BY <1>1, <2>1, <3>1, SbrkGives, MallocGives
      <3> QED BY <3>2 DEF AllStay
    <2>2. CASE proc_free(p)
      BY <1>1, <2>2, FreeTakes, NumberFreed
    <2> QED BY <2>1, <2>2 DEF Allocates
  <1>3. ImagesOK' /\ LoadOK'
    BY <1>1, <1>2, ImagesStay, LoaderWaits
  <1>4. sh_pc' # "gone" /\ ld_pc' # "install" => image'[SHELL].length # 0
    BY <1>1 DEF ShellImage, loadVars
  <1> QED BY <1>1, <1>2, <1>3, <1>4, MemoryRuns

\* The loader: its array, and the old image and the new one of the shell.
LEMMA MemoryLoads ==
    ASSUME Fits, MemInv, ShellInv, OnlyMain, SystemLoads
    PROVE  MemInv' /\ FreesOK
  <1>1. HInv /\ ImagesOK /\ LoadOK /\ ShellImage /\ UNCHANGED boot_pc /\ Loads
    BY DEF MemInv, SystemLoads
  <1>2. ld_pc # "idle"
    BY <1>1 DEF Loads, ReadHeader, ReadRecord, ReadEntry, ReadTyped, Replace, Install,
                NoMemory
  <1>3. /\ boot_pc' = "booted" /\ FREE_MEM_END # 0 /\ ld_for = SHELL
        /\ sh_pc # "gone" /\ (ld_pc # "install" => image[SHELL].length # 0)
    BY <1>1, <1>2 DEF OnlyMain, ShellInv, LoadOK, ShellImage
  <1>4. ASSUME ImagesOK', image' = image, HInv', AllStay, LoadOK',
               ld_pc = "install" => ld_pc' = "install"
        PROVE  MemInv' /\ FreesOK
    BY <1>3, <1>4, MemoryRuns
  <1>5. CASE ReadHeader
    <2> DEFINE words == winix_load_srec_words_length(Head(incoming))
    <2>1. /\ ld_pc = "header" /\ UNCHANGED image
          /\ \/ ld_pc' = "failed" /\ UNCHANGED wordslength /\ UNCHANGED vars
             \/ proc_malloc(words) /\ wordslength' = words /\ ld_pc' = "records"
      BY <1>5 DEF ReadHeader, Fails
    <2>2. LoadFits(words)
      BY <1>1, <2>1 DEF LoadOK
    <2> HIDE DEF words
    <2>3. CASE UNCHANGED vars /\ UNCHANGED wordslength /\ ld_pc' = "failed"
      <3>1. HInv' /\ AllStay /\ LoadOK'
        BY <1>1, <1>3, <2>3
           DEF vars, HInv, BoundsOK, HolesApart, BlocksApart, Below, AllStay, LoadOK,
               LoadFits
      <3> QED BY <1>1, <1>4, <2>1, <3>1, ImagesStay
    <2>4. CASE proc_malloc(words) /\ wordslength' = words /\ ld_pc' = "records"
      <3>1. words \in Word /\ LAST + words < SIZE_LIMIT /\ EnoughMemory(words)
        BY <1>3, <2>2, BootSizes DEF LoadFits, Word, EnoughMemory
      <3>2. HInv' /\ allocated \subseteq allocated' /\ UNCHANGED FREE_MEM_END
        BY <1>1, <2>4, <3>1, MallocGives
      <3>3. LoadOK' /\ AllStay
        BY <1>3, <2>2, <2>4, <3>2 DEF LoadOK, LoadFits, AllStay
      <3> QED BY <1>1, <1>4, <2>1, <3>2, <3>3, ImagesStay
    <2> QED BY <2>1, <2>3, <2>4
  <1>6. CASE ReadRecord \/ ReadEntry \/ ReadTyped
    <2>1. /\ UNCHANGED <<vars, image, wordslength>> /\ ld_pc = "records"
          /\ ld_pc' \in {"records", "failed", "replace"}
      BY <1>6 DEF ReadRecord, ReadEntry, ReadTyped, Fails
    <2>2. HInv' /\ AllStay /\ LoadOK'
      BY <1>1, <1>3, <2>1
         DEF vars, HInv, BoundsOK, HolesApart, BlocksApart, Below, AllStay, LoadOK,
             LoadFits
    <2> QED BY <1>1, <1>4, <2>1, <2>2, ImagesStay
  <1>7. CASE Replace
    <2>1. /\ ld_pc = "replace" /\ ld_pc' = "install" /\ UNCHANGED wordslength
          /\ proc_free(image[SHELL].rbase) /\ image' = [image EXCEPT ![SHELL] = NoImage]
      BY <1>3, <1>7 DEF Replace
    <2>2. ImagesOK' /\ Freed = {ImageBlock(SHELL)}
      BY <1>1, <1>3, <2>1, ShellIs3, ImageFreed
    <2>3. HInv' /\ UNCHANGED FREE_MEM_END
      BY <1>1, <2>1, FreeTakes
    <2>4. LoadOK'
      BY <1>1, <1>3, <2>1, <2>3 DEF LoadOK, LoadFits
    <2>5. BootMemory' /\ ShellImage'
      BY <1>3, <2>1 DEF BootMemory, ShellImage
    <2> QED BY <1>3, <2>1, <2>2, <2>3, <2>4, <2>5 DEF MemInv, FreesOK
  <1>8. wordslength \in Nat /\ LAST + wordslength + 2 * BLOCK < SIZE_LIMIT
    BY <1>1 DEF LoadOK, LoadFits
  <1> DEFINE r == Rounded(wordslength)
  <1>9. /\ r \in Nat /\ r >= BLOCK /\ Rounded(r) = r /\ r <= wordslength + BLOCK
        /\ ImageSize(wordslength) = r + BLOCK
    BY <1>8, RoundedBlocks DEF ImageSize, DEFAULT_STACK_SIZE
  <1> HIDE DEF r
  <1>10. /\ r + BLOCK \in Word /\ LAST + (r + BLOCK) < SIZE_LIMIT
         /\ LAST + r + BLOCK < SIZE_LIMIT /\ EnoughMemory(r + BLOCK)
    BY <1>3, <1>8, <1>9, BootSizes DEF Word, EnoughMemory
  <1>11. CASE Install
    <2>1. proc_malloc(r + BLOCK)
      BY <1>9, <1>11 DEF Install, ExecImage
    <2>2. PICK base \in Returned : Imaged(SHELL, base, r)
      BY <1>3, <1>11 DEF Install, ExecImage, Imaged, r
    <2>3. HInv' /\ allocated \subseteq allocated' /\ UNCHANGED FREE_MEM_END
      BY <1>1, <1>10, <2>1, MallocGives
    <2>4. ImagesOK'
      BY <1>1, <1>9, <1>10, <2>1, <2>2, ShellIs3, ImageGiven
    <2>5. ld_pc' = "idle" /\ wordslength' = 0 /\ sh_pc' = "gone"
      BY <1>11 DEF Install, Idle, SystemLoads, ShellGone
    <2>6. LoadFits(0)
      BY BootSizes DEF LoadFits
    <2>7. LoadOK' /\ AllStay
      BY <2>3, <2>5, <2>6 DEF LoadOK, LoadFits, AllStay
    <2> QED BY <1>3, <2>3, <2>4, <2>5, <2>7, MemoryRuns
  <1>12. CASE NoMemory
    <2>1. proc_malloc(r + BLOCK) /\ UNCHANGED image /\ UNCHANGED loadVars
      BY <1>9, <1>12 DEF NoMemory, OutOfMemory, imageVars
    <2>2. HInv' /\ allocated \subseteq allocated' /\ UNCHANGED FREE_MEM_END
      BY <1>1, <1>10, <2>1, MallocGives
    <2>3. LoadOK' /\ AllStay
      BY <1>1, <2>1, <2>2, LoaderWaits DEF AllStay
    <2> QED BY <1>1, <1>4, <2>1, <2>2, <2>3, ImagesStay DEF loadVars
  <1> QED BY <1>1, <1>5, <1>6, <1>7, <1>11, <1>12 DEF Loads

LEMMA MemoryStep ==
    ASSUME Fits, MemInv, NumberInv, ShellInv, BootOK, OnlyMain, [SessionNext]_sessionVars
    PROVE  MemInv' /\ FreesOK
  <1>g. sh_pc' # "gone" => sh_pc # "gone"
    BY ShellStep
  <1>1. CASE Boots
    BY <1>1, MemoryBoots
  <1>2. CASE SystemStarts
    <2>1. /\ boot_pc = "booted" /\ boot_pc' = "booted"
          /\ UNCHANGED <<image, sh_pc, ld_pc, wordslength, incoming>>
          /\ UNCHANGED <<holes, start, length, FREE_MEM_BEGIN, status, allocated>>
          /\ FREE_MEM_END' = LAST
      BY <1>2 DEF SystemStarts, scan_memory, imageVars, loaderVars, loadVars, shellVars
    <2>2. HInv /\ ImagesOK /\ LoadOK /\ ShellImage
      BY DEF MemInv
    <2>3. LAST # 0
      BY MemoryAssumption
    <2>4. HInv' /\ AllStay /\ LoadOK'
      BY <2>1, <2>2, <2>3 DEF HInv, BoundsOK, HolesApart, BlocksApart, Below, AllStay,
                              LoadOK, LoadFits
    <2>5. ImagesOK'
      BY <2>1, <2>2, <2>4, ImagesStay
    <2> QED BY <2>1, <2>2, <2>4, <2>5, MemoryRuns DEF ShellImage
  <1>3. CASE Reads \/ Decodes \/ ShellExits
    <2>1. boot_pc = "booted" /\ UNCHANGED <<vars, image, boot_pc, loadVars>>
      BY <1>3 DEF Reads, Decodes, ShellExits, Exits, Serving, bootVars, imageVars, loaderVars
    <2> QED BY <1>g, <2>1, MemoryRests
  <1>4. CASE ShellForks
    <2>1. /\ Forks(SHELL) /\ boot_pc = "booted" /\ ld_pc = "idle" /\ FREE_MEM_END # 0
          /\ call = "fork"
      BY <1>4 DEF ShellForks, Serving
    <2>2. image[SHELL].length # 0
      BY <2>1 DEF MemInv, ShellImage, ShellInv
    <2> QED BY <1>g, <2>1, <2>2, ShellIs3, MemoryForks
  <1>5. CASE ShellExecs
    <2>1. /\ boot_pc = "booted" /\ FREE_MEM_END # 0 /\ call = "exec"
          /\ UNCHANGED <<vars, image, boot_pc, sh_pc, wordslength>>
          /\ ld_pc = "idle" /\ ld_pc' = "header"
      BY <1>5 DEF ShellExecs, exec_read_srec, Serving, bootVars, imageVars, shellVars
    <2>2. PICK prog \in Programs :
            \E file \in Damages(WrittenFile(prog)) \cup {WrittenFile(prog)} : incoming' = file
      BY <1>5 DEF ShellExecs, exec_read_srec
    <2>3. LoadFits(winix_load_srec_words_length(Head(incoming')))
      BY <2>2 DEF Fits
    <2>4. HInv /\ ImagesOK /\ LoadOK /\ ShellImage
      BY DEF MemInv
    <2>5. HInv' /\ AllStay /\ UNCHANGED FREE_MEM_END
      BY <2>1, <2>4 DEF vars, HInv, BoundsOK, HolesApart, BlocksApart, Below, AllStay
    <2>6. ImagesOK'
      BY <2>1, <2>4, <2>5, ImagesStay
    <2>7. LoadOK'
      BY <2>1, <2>3, <2>4, <2>5 DEF LoadOK, LoadFits
    <2> QED BY <2>1, <2>4, <2>5, <2>6, <2>7, MemoryRuns DEF ShellImage
  <1>6. CASE SystemLoads
    BY <1>6, MemoryLoads
  <1>7. CASE ShellGoesOn
    <2>1. /\ ld_pc = "failed" /\ ld_pc' = "idle" /\ wordslength' = 0
          /\ UNCHANGED <<vars, image, boot_pc>>
      BY <1>7 DEF ShellGoesOn, Idle, bootVars, imageVars
    <2>2. boot_pc = "booted"
      BY <2>1 DEF OnlyMain
    <2>3. HInv /\ ImagesOK /\ ShellImage
      BY DEF MemInv
    <2>4. HInv' /\ AllStay
      BY <2>1, <2>3 DEF vars, HInv, BoundsOK, HolesApart, BlocksApart, Below, AllStay
    <2>5. LoadFits(0)
      BY BootSizes DEF LoadFits
    <2>6. LoadOK' /\ ImagesOK'
      BY <2>1, <2>3, <2>4, <2>5, ImagesStay DEF LoadOK, LoadFits
    <2> QED BY <1>g, <2>1, <2>2, <2>3, <2>4, <2>6, MemoryRuns DEF ShellImage
  <1>8. CASE ProgramAsks
    <2>1. PICK p \in Proc :
            \/ Allocates(p)
            \/ \E o \in Proc : HasImage(o) /\ Forks(o)
            \/ \E code \in ExitCodes : Exits(p, code) \/ Faults(p, code)
      BY <1>8 DEF ProgramAsks
    <2>2. boot_pc = "booted" /\ FREE_MEM_END # 0 /\ ld_pc = "idle"
      BY <1>8 DEF ProgramAsks, Serving
    <2>3. CASE Allocates(p)
      BY <1>g, <2>2, <2>3, MemoryAllocates
    <2>4. CASE \E o \in Proc : HasImage(o) /\ Forks(o)
      BY <1>g, <2>2, <2>4, MemoryForks DEF HasImage
    <2>5. CASE \E code \in ExitCodes : Exits(p, code) \/ Faults(p, code)
      <3>1. UNCHANGED <<vars, image, boot_pc, loadVars>>
        BY <2>5 DEF Exits, Faults, imageVars
      <3> QED BY <1>g, <2>2, <3>1, MemoryRests
    <2> QED BY <2>1, <2>3, <2>4, <2>5
  <1>9. CASE UNCHANGED sessionVars
    <2>1. /\ UNCHANGED <<vars, image, boot_pc, sh_pc>> /\ UNCHANGED loadVars
      BY <1>9 DEF sessionVars, bootVars, imageVars, shellVars, loaderVars
    <2>2. HInv /\ ImagesOK /\ LoadOK /\ ShellImage /\ BootMemory
      BY DEF MemInv
    <2>3. HInv' /\ AllStay /\ UNCHANGED FREE_MEM_END /\ UNCHANGED FREE_MEM_BEGIN
      BY <2>1, <2>2 DEF vars, HInv, BoundsOK, HolesApart, BlocksApart, Below, AllStay
    <2>4. ImagesOK' /\ LoadOK'
      BY <2>1, <2>2, <2>3, ImagesStay, LoaderWaits
    <2>5. ShellImage' /\ BootMemory'
      BY <2>1, <2>2, <2>3 DEF ShellImage, BootMemory, Within, loadVars
    <2> QED BY <2>3, <2>4, <2>5, NothingFreed DEF MemInv
  <1> QED BY <1>1, <1>2, <1>3, <1>4, <1>5, <1>6, <1>7, <1>8, <1>9 DEF SessionNext

LEMMA MemoryInvariant ==
    ASSUME Fits
    PROVE  SessionSpec => []MemInv
  <1>1. SessionInit => MemInv
    <2> SUFFICES ASSUME SessionInit PROVE MemInv
      OBVIOUS
    <2>1. /\ Init /\ boot_pc = "init_proc" /\ image = [p \in Proc |-> NoImage]
          /\ ld_pc = "idle" /\ wordslength = 0
      BY DEF SessionInit, BootInit, LoaderInit
    <2>2. HInv
      BY <2>1, InitHolds
    <2>3. ImagesOK
      <3>1. 0 \in Word
        BY MemoryAssumption DEF Word
      <3> QED BY <2>1, <3>1 DEF ImagesOK, Owned, NoImage
    <2>4. LoadOK
      <3>1. LoadFits(0)
        BY BootSizes DEF LoadFits
      <3> QED BY <2>1, <3>1 DEF LoadOK
    <2>5. Within(0)
      BY <2>1, MemoryAssumption DEF Init, Within
    <2>6. BootMemory /\ ShellImage
      BY <2>1, <2>5 DEF BootMemory, ShellImage
    <2> QED BY <2>2, <2>3, <2>4, <2>6 DEF MemInv
  <1>2. MemInv /\ NumberInv /\ ShellInv /\ BootOK /\ OnlyMain /\ [SessionNext]_sessionVars
            => MemInv'
    BY MemoryStep
  <1> QED BY <1>1, <1>2, NumberInvariant, ShellInvariant, TableInvariant, PTL
          DEF SessionSpec

\* Two blocks that the allocator has handed out share no word, in the whole system:
\* whatever is booted, typed, forked, loaded, asked for and given back.
THEOREM MemoryNeverOverlaps ==
    ASSUME Fits
    PROVE  SessionSpec => []NoOverlap
  <1>1. MemInv => NoOverlap
    BY HoldsApart DEF MemInv
  <1> QED BY <1>1, MemoryInvariant, PTL

\* The image of a living process is a block of its own.
THEOREM ImagesAreOwned ==
    ASSUME Fits
    PROVE  SessionSpec => []ImageIsOwned
  <1>1. MemInv => ImageIsOwned
    BY DEF MemInv, ImagesOK, Owned, ImageIsOwned, HasImage
  <1> QED BY <1>1, MemoryInvariant, PTL

\* Memory is given back by exec only, and it is the image exec replaces.
THEOREM ExecFreesItsOwn ==
    ASSUME Fits
    PROVE  SessionSpec => OnlyExecFrees
  <1>1. MemInv /\ NumberInv /\ ShellInv /\ BootOK /\ OnlyMain /\ [SessionNext]_sessionVars
            => FreesOK
    BY MemoryStep
  <1>2. FreesOK => LET freed == {b \in allocated \ allocated' : b.length > 0} IN
                   freed # {} => \/ boot_pc = "free the copy"
                                 \/ ld_pc = "replace" /\ freed = {ImageBlock(ld_for)}
    BY DEF FreesOK, Freed
  <1> QED BY <1>1, <1>2, MemoryInvariant, NumberInvariant, ShellInvariant, TableInvariant,
             PTL DEF SessionSpec, OnlyExecFrees

-----------------------------------------------------------------------------
(* What processes can touch. *)

\* The table of a process with an image was computed from it.
TablesOK ==
    /\ Field(protection_table)
    /\ \A p \in Proc : image[p].length # 0 =>
          protection_table[p] = ProtectionTable(image[p].rbase, image[p].length)
    /\ boot_pc \in {"init_proc", "new SYSTEM", "new IDLE"} =>
          \A p \in Proc : image[p].length = 0

LEMMA SameShift ==
    ASSUME UNCHANGED shift, NEW b, NEW l
    PROVE  ProtectionTable(b, l)' = ProtectionTable(b, l)
  BY DEF ProtectionTable, Bit

\* Exec and fork compute the table with the image; a process without one has none.
LEMMA TablesKept ==
    ASSUME TablesOK, Field(image), UNCHANGED shift, NEW p,
           NEW i, image' = [image EXCEPT ![p] = i],
           NEW t, protection_table' = [protection_table EXCEPT ![p] = t],
           i.length # 0 => t = ProtectionTable(i.rbase, i.length),
           boot_pc' \notin {"init_proc", "new SYSTEM", "new IDLE"}
    PROVE  TablesOK'
  <1>1. Field(protection_table)'
    BY DEF TablesOK, Field
  <1>2. \A b, l : ProtectionTable(b, l)' = ProtectionTable(b, l)
    BY SameShift
  <1>3. ASSUME NEW q \in Proc, image'[q].length # 0
        PROVE  protection_table'[q] = ProtectionTable(image'[q].rbase, image'[q].length)
    <2>1. CASE q = p
      <3>1. image'[q] = i /\ protection_table'[q] = t
        BY <2>1 DEF TablesOK, Field
      <3> QED BY <1>3, <3>1
    <2>2. CASE q # p
      <3>1. image'[q] = image[q] /\ protection_table'[q] = protection_table[q]
        BY <2>2 DEF TablesOK, Field
      <3> QED BY <1>3, <3>1 DEF TablesOK
    <2> QED BY <2>1, <2>2
  <1> QED BY <1>1, <1>2, <1>3 DEF TablesOK

LEMMA TablesUntouched ==
    ASSUME TablesOK, UNCHANGED imageVars,
           boot_pc' = boot_pc \/ boot_pc' \notin {"init_proc", "new SYSTEM", "new IDLE"}
                              \/ boot_pc = "init_proc"
    PROVE  TablesOK'
  <1>1. UNCHANGED <<image, protection_table, shift>>
    BY DEF imageVars
  <1>2. \A b, l : ProtectionTable(b, l)' = ProtectionTable(b, l)
    BY <1>1, SameShift
  <1> QED BY <1>1, <1>2 DEF TablesOK, Field

\* new_proc gives all of memory to a process without an image.
LEMMA TablesOfTasks ==
    ASSUME TablesOK, boot_pc \in {"new SYSTEM", "new IDLE"}, UNCHANGED <<image, shift>>,
           NEW p, NEW t, protection_table' = [protection_table EXCEPT ![p] = t]
    PROVE  TablesOK'
  BY DEF TablesOK, Field

LEMMA TablesExec ==
    ASSUME TablesOK, Field(image), NEW p, NEW n, ExecImage(p, n),
           boot_pc' \notin {"init_proc", "new SYSTEM", "new IDLE"}
    PROVE  TablesOK'
  <1>1. PICK b : /\ image' = [image EXCEPT ![p] = [rbase |-> b, length |-> Rounded(n)]]
                 /\ protection_table' =
                        [protection_table EXCEPT ![p] = ProtectionTable(b, Rounded(n))]
                 /\ UNCHANGED shift
    BY DEF ExecImage
  <1> DEFINE i == [rbase |-> b, length |-> Rounded(n)]
             t == ProtectionTable(b, Rounded(n))
  <1>2. i.length # 0 => t = ProtectionTable(i.rbase, i.length)
    OBVIOUS
  <1>3. image' = [image EXCEPT ![p] = i]
    BY <1>1
  <1>4. protection_table' = [protection_table EXCEPT ![p] = t]
    BY <1>1
  <1> HIDE DEF i, t
  <1> QED BY <1>1, <1>2, <1>3, <1>4, TablesKept

LEMMA TablesFork ==
    ASSUME TablesOK, Field(image), NEW o, NEW p, ForkImage(o, p),
           image[o].length # 0 => Rounded(image[o].length) = image[o].length,
           boot_pc' \notin {"init_proc", "new SYSTEM", "new IDLE"}
    PROVE  TablesOK'
  <1> DEFINE n == image[o].length
  <1>1. PICK b : /\ image' = [image EXCEPT ![p] = [rbase |-> b, length |-> n]]
                 /\ protection_table' =
                        [protection_table EXCEPT ![p] = ProtectionTable(b, Rounded(n))]
                 /\ UNCHANGED shift
    BY DEF ForkImage
  <1> DEFINE i == [rbase |-> b, length |-> n]
             t == ProtectionTable(b, Rounded(n))
  <1>2. i.length # 0 => t = ProtectionTable(i.rbase, i.length)
    OBVIOUS
  <1>3. image' = [image EXCEPT ![p] = i]
    BY <1>1
  <1>4. protection_table' = [protection_table EXCEPT ![p] = t]
    BY <1>1
  <1> HIDE DEF i, t
  <1> QED BY <1>1, <1>2, <1>3, <1>4, TablesKept

\* Exec gives the image back first; the table stays as it was.
LEMMA TablesFreed ==
    ASSUME TablesOK, Field(image), NEW p, image' = [image EXCEPT ![p] = NoImage],
           UNCHANGED <<protection_table, shift>>,
           boot_pc' \notin {"init_proc", "new SYSTEM", "new IDLE"}
    PROVE  TablesOK'
  <1>1. protection_table' = [protection_table EXCEPT ![p] = protection_table[p]]
    BY DEF TablesOK, Field
  <1>2. NoImage.length = 0
    BY DEF NoImage
  <1> QED BY <1>1, <1>2, TablesKept

LEMMA TablesStep ==
    ASSUME TablesOK, ImagesOK, BootOK, OnlyMain, [SessionNext]_sessionVars
    PROVE  TablesOK'
  <1>1. Field(image)
    BY DEF ImagesOK, Field
  <1>2. ASSUME NEW o \in Proc, image[o].length # 0
        PROVE  Rounded(image[o].length) = image[o].length
    BY <1>2 DEF ImagesOK, Owned
  <1>3. CASE Boots
    <2>1. BootNext
      BY <1>3 DEF Boots
    <2>2. CASE init_proc
      BY <2>2, TablesUntouched DEF init_proc, Step, imageVars
    <2>3. CASE NewSystem
      BY <2>3, TablesOfTasks DEF NewSystem, new_proc, Step
    <2>4. CASE NewIdle
      BY <2>4, TablesOfTasks DEF NewIdle, new_proc, Step
    <2>5. CASE NewInit
      BY <1>1, <2>5, TablesExec DEF NewInit, Step
    <2>6. CASE ForkInit
      <3>1. Init_ = 2 /\ 2 \in Proc
        BY <2>6, WhoIsWho, BootConstants DEF ForkInit, Step
      <3> QED BY <1>1, <1>2, <2>6, <3>1, TablesFork DEF ForkInit, Step
    <2>7. CASE FreeCopy
      BY <1>1, <2>7, TablesFreed DEF FreeCopy, Step
    <2>8. CASE NewShell
      BY <1>1, <2>8, TablesExec DEF NewShell, Step
    <2>9. CASE FirstSched
      BY <2>9, TablesUntouched DEF FirstSched, Step, imageVars
    <2> QED BY <2>1, <2>2, <2>3, <2>4, <2>5, <2>6, <2>7, <2>8, <2>9 DEF BootNext
  <1>4. CASE UNCHANGED <<imageVars, boot_pc>>
    BY <1>4, TablesUntouched
  <1>5. ASSUME NEW o \in Proc, Forks(o), boot_pc = "booted" PROVE TablesOK'
    <2>1. UNCHANGED boot_pc
      BY <1>5 DEF Forks
    <2>2. CASE \E q \in Proc : ForkImage(o, q)
      BY <1>1, <1>2, <1>5, <2>1, <2>2, TablesFork
    <2>3. CASE UNCHANGED imageVars
      BY <1>4, <2>1, <2>3
    <2> QED BY <1>5, <2>2, <2>3 DEF Forks, memoryVars
  <1>6. CASE ShellForks
    <2>1. SHELL \in Proc
      BY BootConstants DEF SHELL, BootedKernel!SHELL
    <2> QED BY <1>5, <1>6, <2>1 DEF ShellForks, Serving
  <1>7. CASE SystemLoads
    <2>0. Loads /\ UNCHANGED boot_pc
      BY <1>7 DEF SystemLoads
    <2>a. ld_pc # "idle"
      BY <2>0 DEF Loads, ReadHeader, ReadRecord, ReadEntry, ReadTyped, Replace, Install,
                  NoMemory
    <2>1. Loads /\ UNCHANGED boot_pc /\ boot_pc = "booted"
      BY <2>0, <2>a DEF OnlyMain
    <2>2. CASE UNCHANGED imageVars
      BY <1>4, <2>1, <2>2
    <2>3. CASE Replace
      BY <1>1, <2>1, <2>3, TablesFreed DEF Replace
    <2>4. CASE Install
      BY <1>1, <2>1, <2>4, TablesExec DEF Install
    <2> QED BY <2>1, <2>2, <2>3, <2>4
            DEF Loads, ReadHeader, ReadRecord, ReadEntry, ReadTyped, NoMemory, imageVars
  <1>8. CASE ProgramAsks
    <2>1. PICK p \in Proc :
            \/ Allocates(p)
            \/ \E o \in Proc : HasImage(o) /\ Forks(o)
            \/ \E code \in ExitCodes : Exits(p, code) \/ Faults(p, code)
      BY <1>8 DEF ProgramAsks
    <2>2. CASE Allocates(p)
      BY <1>4, <2>2 DEF Allocates
    <2>3. CASE \E code \in ExitCodes : Exits(p, code) \/ Faults(p, code)
      BY <1>4, <2>3 DEF Exits, Faults
    <2> QED BY <1>5, <1>8, <2>1, <2>2, <2>3 DEF ProgramAsks, Serving
  <1>9. CASE SystemStarts \/ Reads \/ Decodes \/ ShellExits \/ ShellExecs \/ ShellGoesOn
              \/ UNCHANGED sessionVars
    BY <1>4, <1>9 DEF SystemStarts, Reads, Decodes, ShellExits, Exits, ShellExecs,
                      ShellGoesOn, bootVars, sessionVars
  <1> QED BY <1>3, <1>6, <1>7, <1>8, <1>9 DEF SessionNext

LEMMA Grows ==
    ASSUME NEW i \in Int, NEW j \in Int, NEW b \in Nat, i <= j
    PROVE  i * b <= j * b
  <1>1. (j - i) * b >= 0
    OBVIOUS
  <1>2. (j - i) * b = j * b - i * b
    OBVIOUS
  <1>3. i * b \in Int /\ j * b \in Int
    OBVIOUS
  <1> QED BY <1>1, <1>2, <1>3

\* The blocks of an image that starts on a block and is a whole number of them long.
LEMMA WholeBlocks ==
    ASSUME NEW n \in Nat, NEW k \in Nat, NEW b \in Nat \ {0}
    PROVE  {a \div b : a \in n * b .. n * b + (k * b + b) - 1} = n .. n + k
  <1>1. n * b + (k * b + b) = (n + k + 1) * b
    OBVIOUS
  <1> DEFINE low == n * b
             high == (n + k + 1) * b
  <1>2. low \in Nat /\ high \in Nat
    OBVIOUS
  <1>3. ASSUME NEW a \in low .. high - 1 PROVE a \div b \in n .. n + k
    <2> DEFINE q == a \div b
    <2>1. a \in Nat
      BY <1>2
    <2>2. q \in Nat /\ a % b \in 0 .. b - 1 /\ a = q * b + (a % b)
      BY <2>1, Division
    <2> DEFINE r == a % b
               qb == q * b
    <2>3. q * b \in Int
      BY <2>2
    <2> HIDE DEF q
    <2>4. q + 1 <= n => (q + 1) * b <= n * b
      BY <2>2, Grows
    <2>5. (q + 1) * b = q * b + b
      BY <2>2
    <2>6. n + k + 1 <= q => (n + k + 1) * b <= q * b
      BY <2>2, Grows
    <2> HIDE DEF r, qb, low, high
    <2>7. a = qb + r /\ r \in 0 .. b - 1 /\ qb \in Int
      BY <2>2, <2>3 DEF r, qb
    <2>8. q + 1 <= n => qb + b <= low
      BY <2>4, <2>5 DEF qb, low
    <2>9. n + k + 1 <= q => high <= qb
      BY <2>6 DEF qb, high
    <2>10. ~(q + 1 <= n) /\ ~(n + k + 1 <= q)
      BY <1>2, <1>3, <2>1, <2>7, <2>8, <2>9
    <2>11. q \in n .. n + k
      BY <2>2, <2>10
    <2> QED BY <2>11 DEF q
  <1>4. ASSUME NEW i \in n .. n + k PROVE \E a \in low .. high - 1 : i = a \div b
    <2>1. i \in Nat /\ n <= i /\ i + 1 <= n + k + 1
      OBVIOUS
    <2>2. (i * b) \div b = i /\ i * b \in Nat
      BY <2>1, MultipleOf
    <2>3. n * b <= i * b /\ (i + 1) * b <= (n + k + 1) * b
      BY <2>1, Grows
    <2>4. (i + 1) * b = i * b + b
      BY <2>1
    <2> DEFINE ib == i * b
    <2>5. ib \in Nat /\ low <= ib /\ ib + b <= high
      BY <2>2, <2>3, <2>4
    <2> HIDE DEF ib, low, high
    <2>6. ib \in low .. high - 1
      BY <1>2, <2>5
    <2> QED BY <2>2, <2>6 DEF ib
  <1> HIDE DEF low, high
  <1>5. {a \div b : a \in low .. high - 1} = n .. n + k
    BY <1>3, <1>4
  <1>6. n * b .. n * b + (k * b + b) - 1 = low .. high - 1
    BY <1>1 DEF low, high
  <1> QED BY <1>5, <1>6

\* The blocks of one that starts anywhere: those, and perhaps one more.
LEMMA SomeBlocks ==
    ASSUME NEW n \in Nat, NEW k \in Nat, NEW b \in Nat \ {0}, NEW base \in Nat,
           base \div b = n
    PROVE  n .. n + k \subseteq {a \div b : a \in base .. base + (k * b + b) - 1}
  <1> DEFINE r == base % b
             nb == n * b
             kb == k * b
             high == base + (kb + b) - 1
  <1>1. base = nb + r /\ r \in 0 .. b - 1 /\ nb \in Nat /\ kb \in Nat
    <2>1. r \in 0 .. b - 1 /\ base = (base \div b) * b + r
      BY Division
    <2>2. n * b \in Nat /\ k * b \in Nat
      OBVIOUS
    <2> QED BY <2>1, <2>2
  <1>2. ASSUME NEW i \in n .. n + k PROVE \E a \in base .. high : i = a \div b
    <2>1. CASE i = n
      <3> HIDE DEF r, nb, kb, high
      <3>1. base \in base .. high
        BY <1>1 DEF high
      <3> QED BY <2>1, <3>1
    <2>2. CASE i # n
      <3>1. i \in Nat /\ n + 1 <= i /\ i <= n + k
        BY <2>2
      <3>2. (i * b) \div b = i /\ i * b \in Nat
        BY <3>1, MultipleOf
      <3>3. (n + 1) * b <= i * b /\ i * b <= (n + k) * b
        BY <3>1, Grows
      <3>4. (n + 1) * b = n * b + b /\ (n + k) * b = n * b + k * b
        OBVIOUS
      <3> DEFINE ib == i * b
      <3>5. ib \in Nat /\ nb + b <= ib /\ ib <= nb + kb
        BY <3>2, <3>3, <3>4
      <3> HIDE DEF ib, r, nb, kb, high
      <3>6. ib \in base .. high
        BY <1>1, <3>5 DEF high
      <3> QED BY <3>2, <3>6 DEF ib
    <2> QED BY <2>1, <2>2
  <1>3. base + (k * b + b) - 1 = high
    BY DEF high, kb
  <1> HIDE DEF high
  <1> QED BY <1>2, <1>3

\* The bit that is set for a block of the word W, if one is.
LEMMA BitsOf ==
    ASSUME NEW W \in Nat, NEW i \in Nat, i \div WORD_BITS = W
    PROVE  Bit(W, i) \subseteq {i} /\ (i < WORD_BITS => Bit(W, i) = {i})
  <1>0. WORD_BITS \in Nat \ {0}
    BY ImageAssumption
  <1>2. i % WORD_BITS \in 0 .. WORD_BITS - 1 /\ i = W * WORD_BITS + (i % WORD_BITS)
    BY <1>0, Division
  <1>3. CASE i < WORD_BITS
    <2>1. W = 0
      <3> DEFINE wb == W * WORD_BITS
      <3>1. W >= 1 => 1 * WORD_BITS <= W * WORD_BITS
        BY <1>0, Grows
      <3>2. wb \in Int /\ (W >= 1 => WORD_BITS <= wb)
        BY <1>0, <3>1
      <3>3. i = wb + (i % WORD_BITS)
        BY <1>2
      <3> HIDE DEF wb
      <3> QED BY <1>0, <1>2, <1>3, <3>2, <3>3
    <2>2. W * WORD_BITS + i = i
      BY <1>0, <2>1
    <2>3. Bit(W, i) = {i}
      BY <1>3, <2>2 DEF Bit
    <2> QED BY <2>3
  <1>4. CASE ~(i < WORD_BITS)
    <2>1. Bit(W, i) \subseteq {i}
      BY <1>2, <1>4 DEF Bit
    <2> QED BY <1>4, <2>1
  <1> QED BY <1>3, <1>4

\* The table of an image that is whole blocks long and starts in block n, when n .. n + k
\* lie in one word of the table.
LEMMA TableShows ==
    ASSUME KernelIsLow, NEW n \in Nat, NEW k \in Nat, NEW base, NEW len,
           base \div BLOCK = n, len \div BLOCK = k,
           \A a, b \in n .. n + k : a \div WORD_BITS = b \div WORD_BITS
    PROVE  /\ ProtectionTable(base, len) \ {SYS_BSS_START \div BLOCK} \subseteq n .. n + k
           /\ (\A b \in n .. n + k : b < WORD_BITS)
                 => n .. n + k \subseteq ProtectionTable(base, len)
  <1> DEFINE W == n \div WORD_BITS
             bss == SYS_BSS_START \div BLOCK
  <1>0. WORD_BITS \in Nat \ {0} /\ BLOCK \in Nat \ {0} /\ ORIGIN \in Nat
    BY ImageAssumption, MemoryAssumption
  <1>a. n \in n .. n + k
    OBVIOUS
  <1>1. W \in Nat /\ n \in n .. n + k
    <2>1. W \in Nat
      BY <1>0, Division
    <2> QED BY <1>a, <2>1
  <1>2. \A i \in n .. n + k : i \div WORD_BITS = W
    BY <1>1
  <1>3. ProtectionTable(base, len) = (UNION {Bit(W, i) : i \in n .. n + k}) \cup Bit(0, bss)
    BY DEF ProtectionTable
  <1>4. Bit(0, bss) = {bss}
    <2>1. bss \in Nat /\ bss < WORD_BITS
      BY <1>0, Division DEF KernelIsLow, SYS_BSS_START
    <2>2. 0 * WORD_BITS + bss = bss
      BY <1>0, <2>1
    <2> QED BY <2>1, <2>2 DEF Bit
  <1> HIDE DEF W, bss
  <1>5. ASSUME NEW i \in n .. n + k
        PROVE  Bit(W, i) \subseteq {i} /\ (i < WORD_BITS => Bit(W, i) = {i})
    <2>1. i \in Nat /\ i \div WORD_BITS = W
      BY <1>2
    <2> QED BY <1>1, <2>1, BitsOf
  <1> DEFINE B == UNION {Bit(W, i) : i \in n .. n + k}
  <1>6. B \subseteq n .. n + k
    BY <1>5
  <1>7. (\A b \in n .. n + k : b < WORD_BITS) => n .. n + k \subseteq B
    BY <1>5
  <1> HIDE DEF B
  <1>8. ProtectionTable(base, len) = B \cup {bss}
    BY <1>3, <1>4 DEF B
  <1>9. bss = SYS_BSS_START \div BLOCK
    BY DEF bss
  <1> QED BY <1>6, <1>7, <1>8, <1>9

\* For every machine of that kind: a process whose image lies in one word of its table
\* reaches no blocks but those of its image and the bss segment, and all of its image
\* when that starts on a block and is in the first word.
THEOREM ReachIsOwn ==
    ASSUME Fits, KernelIsLow
    PROVE  SessionSpec => []ReachesItsImage
  <1>1. SessionInit => TablesOK
    BY DEF SessionInit, BootInit, TablesOK, Field, NoImage
  <1>2. TablesOK /\ MemInv /\ BootOK /\ OnlyMain /\ [SessionNext]_sessionVars => TablesOK'
    BY TablesStep DEF MemInv
  <1>3. TablesOK /\ MemInv => ReachesItsImage
    <2> SUFFICES ASSUME TablesOK, MemInv, NEW p \in Proc, HasImage(p), InOneWord(OwnBlocks(p))
                 PROVE  /\ Reach(p) \ {SYS_BSS_START \div BLOCK} \subseteq OwnBlocks(p)
                        /\ image[p].rbase % BLOCK = 0 /\ (\A b \in OwnBlocks(p) : b < WORD_BITS)
                                => OwnBlocks(p) \subseteq Reach(p)
      BY DEF ReachesItsImage
    <2> DEFINE base == image[p].rbase
               len == image[p].length
               n == base \div BLOCK
               k == len \div BLOCK
    <2>1. /\ image[p].rbase \in Nat /\ image[p].length \in Nat
          /\ BLOCK \in Nat \ {0} /\ image[p].length # 0
          /\ image[p].length % BLOCK = 0
      <3>1. Rounded(image[p].length) = image[p].length /\ image[p].length # 0
        BY DEF HasImage, MemInv, ImagesOK, Owned
      <3>2. image[p].rbase \in Nat /\ image[p].length \in Nat /\ BLOCK \in Nat \ {0}
        BY ImageTypes, ImageAssumption DEF MemInv
      <3>3. Rounded(image[p].length) % BLOCK = 0
        BY <3>2, RoundedBlocks
      <3> QED BY <3>1, <3>2, <3>3
    <2>2. Reach(p) = ProtectionTable(base, len)
      BY <2>1 DEF TablesOK, Reach
    <2>3. OwnBlocks(p) = {a \div BLOCK : a \in base .. base + (len + BLOCK) - 1}
      BY DEF OwnBlocks, BlocksOf, Words, DEFAULT_STACK_SIZE
    <2>b. base = image[p].rbase
      OBVIOUS
    <2> HIDE DEF base, len
    <2>4. base \in Nat /\ len \in Nat /\ len % BLOCK = 0 /\ BLOCK \in Nat \ {0}
      BY <2>1 DEF base, len
    <2>5. /\ n \in Nat /\ k \in Nat /\ len = k * BLOCK
          /\ base % BLOCK = 0 => base = n * BLOCK
      <3>1. n \in Nat /\ base = n * BLOCK + (base % BLOCK)
        BY <2>4, Division
      <3>2. k \in Nat /\ len = k * BLOCK + (len % BLOCK)
        BY <2>4, Division
      <3> QED BY <2>4, <3>1, <3>2
    <2>6. base \div BLOCK = n /\ len \div BLOCK = k
      BY DEF n, k
    <2> HIDE DEF n, k
    <2>7. n .. n + k \subseteq OwnBlocks(p)
      <3>1. n .. n + k \subseteq {a \div BLOCK : a \in base .. base + (k * BLOCK + BLOCK) - 1}
        <4>1. n \in Nat /\ k \in Nat /\ base \in Nat /\ BLOCK \in Nat \ {0} /\ base \div BLOCK = n
          BY <2>4, <2>5, <2>6
        <4> QED BY ONLY <4>1, SomeBlocks
      <3> QED BY <2>3, <2>5, <3>1
    <2>8. \A a, b \in n .. n + k : a \div WORD_BITS = b \div WORD_BITS
      BY <2>7 DEF InOneWord
    <2>9. /\ ProtectionTable(base, len) \ {SYS_BSS_START \div BLOCK} \subseteq n .. n + k
          /\ (\A b \in n .. n + k : b < WORD_BITS)
                => n .. n + k \subseteq ProtectionTable(base, len)
      BY <2>5, <2>6, <2>8, TableShows
    <2>10. ASSUME image[p].rbase % BLOCK = 0 PROVE OwnBlocks(p) = n .. n + k
      <3>1. {a \div BLOCK : a \in n * BLOCK .. n * BLOCK + (k * BLOCK + BLOCK) - 1} = n .. n + k
        <4>1. n \in Nat /\ k \in Nat /\ BLOCK \in Nat \ {0}
          BY <2>4, <2>5
        <4> QED BY ONLY <4>1, WholeBlocks
      <3>2. base = n * BLOCK
        BY <2>b, <2>5, <2>10
      <3> QED BY <2>3, <2>5, <3>1, <3>2
    <2>11. Reach(p) \ {SYS_BSS_START \div BLOCK} \subseteq OwnBlocks(p)
      BY <2>2, <2>7, <2>9
    <2>12. image[p].rbase % BLOCK = 0 /\ (\A b \in OwnBlocks(p) : b < WORD_BITS)
              => OwnBlocks(p) \subseteq Reach(p)
      BY <2>2, <2>9, <2>10
    <2> QED BY <2>11, <2>12
  <1> QED BY <1>1, <1>2, <1>3, MemoryInvariant, TableInvariant, PTL DEF SessionSpec

-----------------------------------------------------------------------------
(* The lines of a file, as far as there is a number of them. *)

Sequence(s) == \E S : s \in Seq(S)

LEMMA SequenceIs ==
    ASSUME NEW s, NEW n \in Nat, NEW S, s \in [1 .. n -> S]
    PROVE  s \in Seq(S) /\ Sequence(s) /\ Len(s) = n
  <1>1. s \in Seq(S)
    BY SeqDef
  <1> QED BY <1>1, LenProperties DEF Sequence

LEMMA SequenceHas ==
    ASSUME NEW s, Sequence(s)
    PROVE  /\ Len(s) \in Nat
           /\ \E S : s \in Seq(S) /\ s \in [1 .. Len(s) -> S]
  <1>1. PICK S : s \in Seq(S)
    BY DEF Sequence
  <1> QED BY <1>1, LenProperties

LEMMA Joined ==
    ASSUME NEW s, NEW t, Sequence(s), Sequence(t)
    PROVE  Sequence(s \o t) /\ Len(s \o t) = Len(s) + Len(t)
  <1>1. PICK S : s \in Seq(S)
    BY DEF Sequence
  <1>2. PICK T : t \in Seq(T)
    BY DEF Sequence
  <1> DEFINE B == S \cup T
  <1>3. s \in Seq(B) /\ t \in Seq(B)
    <2>1. s \in [1 .. Len(s) -> B] /\ t \in [1 .. Len(t) -> B]
      BY <1>1, <1>2, LenProperties
    <2>2. Len(s) \in Nat /\ Len(t) \in Nat
      BY <1>1, <1>2, LenProperties
    <2> HIDE DEF B
    <2> QED BY <2>1, <2>2, SeqDef
  <1> HIDE DEF B
  <1>4. s \o t \in Seq(B) /\ Len(s \o t) = Len(s) + Len(t)
    BY <1>3
  <1> QED BY <1>4 DEF Sequence

\* A line less.
LEMMA Shortened ==
    ASSUME NEW s, Sequence(s), NEW i \in 1 .. Len(s)
    PROVE  Sequence(RemoveAt(s, i)) /\ Len(RemoveAt(s, i)) = Len(s) - 1
  <1>1. PICK S : s \in Seq(S)
    BY DEF Sequence
  <1> DEFINE a == SubSeq(s, 1, i - 1)
             b == SubSeq(s, i + 1, Len(s))
  <1>2. Len(s) \in Nat
    BY <1>1
  <1>3. a \in Seq(S) /\ Len(a) = i - 1
    <2>1. a = [j \in 1 .. i - 1 |-> s[j]]
      BY <1>1
    <2>2. \A j \in 1 .. i - 1 : s[j] \in S
      BY <1>1
    <2>3. i - 1 \in Nat
      BY <1>2
    <2>4. a \in [1 .. i - 1 -> S]
      BY <2>1, <2>2
    <2> DEFINE n == i - 1
    <2> HIDE DEF a
    <2>5. n \in Nat /\ a \in [1 .. n -> S]
      BY <2>3, <2>4
    <2> HIDE DEF n
    <2>6. a \in Seq(S) /\ Len(a) = n
      BY <2>5, SequenceIs
    <2> QED BY <2>6 DEF n
  <1>4. b \in Seq(S) /\ Len(b) = Len(s) - i
    <2>1. b = [j \in 1 .. Len(s) - i |-> s[j + i]]
      <3>1. b = [j \in 1 .. 1 + Len(s) - (i + 1) |-> s[j + (i + 1) - 1]]
        BY <1>1, <1>2
      <3>2. /\ 1 + Len(s) - (i + 1) = Len(s) - i
            /\ \A j \in Int : j + (i + 1) - 1 = j + i
        BY <1>2
      <3> QED BY <3>1, <3>2
    <2>2. \A j \in 1 .. Len(s) - i : s[j + i] \in S
      BY <1>1, <1>2
    <2>3. Len(s) - i \in Nat
      BY <1>2
    <2>4. b \in [1 .. Len(s) - i -> S]
      BY <2>1, <2>2
    <2> DEFINE n == Len(s) - i
    <2> HIDE DEF b
    <2>5. n \in Nat /\ b \in [1 .. n -> S]
      BY <2>3, <2>4
    <2> HIDE DEF n
    <2>6. b \in Seq(S) /\ Len(b) = n
      BY <2>5, SequenceIs
    <2> QED BY <2>6 DEF n
  <1>5. RemoveAt(s, i) = a \o b
    BY DEF RemoveAt
  <1> HIDE DEF a, b
  <1>6. Sequence(a) /\ Sequence(b)
    BY <1>3, <1>4 DEF Sequence
  <1>7. Sequence(a \o b) /\ Len(a \o b) = Len(a) + Len(b)
    BY <1>6, Joined
  <1> QED BY <1>2, <1>3, <1>4, <1>5, <1>7

\* A line that is another.
With(s, i, x) == [s EXCEPT ![i] = x]
Typed(s, i, x) == [s EXCEPT ![i].type = x]
LEMMA Altered ==
    ASSUME NEW s, Sequence(s), NEW i, NEW x, NEW t, t = With(s, i, x)
    PROVE  Sequence(t) /\ Len(t) = Len(s)
  <1>1. PICK S : s \in [1 .. Len(s) -> S] /\ Len(s) \in Nat
    BY SequenceHas
  <1> DEFINE B == S \cup {x}
             n == Len(s)
  <1>2. t \in [1 .. n -> B] /\ n \in Nat
    BY <1>1 DEF With
  <1> HIDE DEF B, n
  <1>3. Sequence(t) /\ Len(t) = n
    BY <1>2, SequenceIs
  <1> QED BY <1>3 DEF n

LEMMA FileLines ==
    ASSUME NEW prog \in Programs
    PROVE  Sequence(WrittenFile(prog)) /\ Len(WrittenFile(prog)) >= 2
  <1> DEFINE h == WrittenHeader(Len(ProgramWords(prog)))
             n == Len(prog.chunks)
             r == [i \in 1 .. n |-> Record(3, Address(i), FlattenSeq(prog.chunks[i]))]
             e == Record(7, Address(prog.entry), <<>>)
  <1>1. n \in Nat
    BY SessionAssumption
  <1>2. WrittenFile(prog) = <<h>> \o r \o <<e>>
    BY DEF WrittenFile
  <1>3. Sequence(r) /\ Len(r) \in Nat
    <2> DEFINE R == {r[i] : i \in 1 .. n}
    <2>1. r \in [1 .. n -> R]
      OBVIOUS
    <2> HIDE DEF r, n, R
    <2> QED BY <1>1, <2>1, SequenceIs
  <1> HIDE DEF h, r, e, n
  <1>4. ASSUME NEW x PROVE Sequence(<<x>>) /\ Len(<<x>>) = 1
    <2>1. <<x>> \in Seq({x}) /\ Len(<<x>>) = 1
      OBVIOUS
    <2> QED BY <2>1 DEF Sequence
  <1>5. Sequence(<<h>> \o r) /\ Len(<<h>> \o r) = 1 + Len(r)
    BY <1>3, <1>4, Joined
  <1>6. Sequence((<<h>> \o r) \o <<e>>) /\ Len((<<h>> \o r) \o <<e>>) = 1 + Len(r) + 1
    BY <1>4, <1>5, Joined
  <1> QED BY <1>2, <1>3, <1>6

LEMMA DamagedLines ==
    ASSUME NEW s, Sequence(s), Len(s) >= 2, NEW t \in Damages(s)
    PROVE  Sequence(t) /\ Len(t) >= 1
  <1> DEFINE at == 1 .. Len(s)
  <1>1. \/ t \in {RemoveAt(s, i) : i \in at}
        \/ t \in {Typed(s, i, x) : i \in at, x \in 0 .. 9}
        \/ \E i \in at : t \in {Changed(s, i, b, d) : b \in 2 .. Len(s[i].bytes), d \in Deltas}
        \/ t \in {Changed(s, i, 1, BYTE - d) : i \in at, d \in 1 .. 2}
    <2> DEFINE C(i) == {Changed(s, i, b, d) : b \in 2 .. Len(s[i].bytes), d \in Deltas}
               A == {RemoveAt(s, i) : i \in at} \cup {Typed(s, i, x) : i \in at, x \in 0 .. 9}
               B == {Changed(s, i, 1, BYTE - d) : i \in at, d \in 1 .. 2}
    <2>1. Damages(s) = A \cup (UNION {C(i) : i \in at}) \cup B
      BY DEF Damages, Typed
    <2> HIDE DEF C, at
    <2>2. t \in A \cup B \/ \E i \in at : t \in C(i)
      <3> DEFINE U == {C(i) : i \in at}
      <3>1. t \in UNION U => \E X \in U : t \in X
        BY Zenon
      <3>2. (\E X \in U : t \in X) => \E i \in at : t \in C(i)
        BY Zenon
      <3>3. t \in UNION U => \E i \in at : t \in C(i)
        BY <3>1, <3>2, Zenon
      <3> DEFINE Q == \E i \in at : t \in C(i)
      <3>4. t \in A \cup (UNION U) \cup B
        BY <2>1
      <3> HIDE DEF A, B, U, Q
      <3>5. t \in A \cup B \/ Q
        BY <3>3, <3>4 DEF Q
      <3> QED BY <3>5 DEF Q
    <2> QED BY <2>2 DEF C
  <1> HIDE DEF at
  <1>2. Len(s) \in Nat
    BY SequenceHas
  <1>3. ASSUME NEW i \in at, t = RemoveAt(s, i) PROVE Sequence(t) /\ Len(t) >= 1
    BY <1>2, <1>3, Shortened DEF at
  <1>4. ASSUME NEW i, NEW x, t = With(s, i, x) PROVE Sequence(t) /\ Len(t) >= 1
    BY <1>2, <1>4, Altered
  <1>5. ASSUME NEW i, NEW b, NEW d, t = Changed(s, i, b, d) PROVE Sequence(t) /\ Len(t) >= 1
    <2> DEFINE y == [s[i] EXCEPT !.bytes = [s[i].bytes EXCEPT ![b] = (s[i].bytes[b] + d) % BYTE]]
    <2>1. t = With(s, i, y)
      BY <1>5 DEF Changed, With
    <2> HIDE DEF y
    <2> QED BY <1>4, <2>1
  <1>6. CASE t \in {RemoveAt(s, i) : i \in at}
    <2>1. PICK i \in at : t = RemoveAt(s, i)
      BY <1>6
    <2> QED BY <1>3, <2>1
  <1>a. ASSUME NEW i, NEW x, t = Typed(s, i, x) PROVE Sequence(t) /\ Len(t) >= 1
    <2> DEFINE y == [s[i] EXCEPT !.type = x]
    <2>1. t = With(s, i, y)
      BY <1>a DEF Typed, With
    <2> HIDE DEF y
    <2> QED BY <1>4, <2>1
  <1>7. CASE t \in {Typed(s, i, x) : i \in at, x \in 0 .. 9}
    BY <1>a, <1>7
  <1>8. CASE \E i \in at : t \in {Changed(s, i, b, d) : b \in 2 .. Len(s[i].bytes), d \in Deltas}
    BY <1>5, <1>8
  <1>9. CASE t \in {Changed(s, i, 1, BYTE - d) : i \in at, d \in 1 .. 2}
    BY <1>5, <1>9
  <1> QED BY <1>1, <1>6, <1>7, <1>8, <1>9

\* What is left to be delivered is a sequence of lines.
IncomingOK == Sequence(incoming) /\ (ld_pc = "header" => incoming # <<>>)

LEMMA TailLines ==
    ASSUME NEW s, Sequence(s), s # <<>>
    PROVE  Sequence(Tail(s))
  <1>1. PICK S : s \in Seq(S)
    BY DEF Sequence
  <1>2. Tail(s) \in Seq(S)
    BY <1>1
  <1> QED BY <1>2 DEF Sequence

LEMMA EmptyFile == Sequence(<<>>)
  <1>1. <<>> \in Seq({})
    OBVIOUS
  <1> QED BY <1>1 DEF Sequence

LEMMA IncomingStep ==
    ASSUME IncomingOK, [SessionNext]_sessionVars
    PROVE  IncomingOK'
  <1>1. ASSUME incoming' = <<>>, ld_pc' # "header" PROVE IncomingOK'
    BY <1>1, EmptyFile DEF IncomingOK
  <1>2. ASSUME NEW p, NEW prog \in Programs, NEW file,
               file = WrittenFile(prog) \/ file \in Damages(WrittenFile(prog)),
               exec_read_srec(p, prog, file)
        PROVE  IncomingOK'
    <2>1. Sequence(file) /\ Len(file) >= 1
      BY <1>2, FileLines, DamagedLines
    <2>2. file # <<>>
      <3>1. Len(<<>>) = 0
        OBVIOUS
      <3> QED BY <2>1, <3>1
    <2> QED BY <1>2, <2>1, <2>2 DEF exec_read_srec, IncomingOK
  <1>3. CASE ShellExecs
    BY <1>2, <1>3 DEF ShellExecs
  <1>4. CASE SystemLoads
    <2>1. CASE ReadHeader
      BY <2>1, TailLines DEF ReadHeader, Fails, IncomingOK
    <2>2. CASE ReadRecord
      BY <2>2, TailLines DEF ReadRecord, Fails, IncomingOK
    <2>3. CASE ReadEntry
      BY <2>3, TailLines DEF ReadEntry, IncomingOK
    <2>4. CASE ReadTyped \/ Replace
      BY <2>4 DEF ReadTyped, Fails, Replace, IncomingOK
    <2>5. CASE Install
      BY <1>1, <2>5 DEF Install, Idle
    <2>6. CASE NoMemory
      BY <2>6 DEF NoMemory, loadVars, IncomingOK
    <2> QED BY <1>4, <2>1, <2>2, <2>3, <2>4, <2>5, <2>6 DEF SystemLoads, Loads
  <1>5. CASE ShellGoesOn
    BY <1>1, <1>5 DEF ShellGoesOn, Idle
  <1>6. CASE UNCHANGED loadVars
    BY <1>6 DEF loadVars, IncomingOK
  <1>7. CASE Boots \/ SystemStarts \/ Reads \/ Decodes \/ UNCHANGED sessionVars
    BY <1>6, <1>7 DEF Boots, SystemStarts, Reads, Decodes, sessionVars, loaderVars
  <1>8. CASE ShellExits
    BY <1>6, <1>8 DEF ShellExits, Exits
  <1>9. CASE ShellForks
    BY <1>6, <1>9 DEF ShellForks, Forks
  <1>10. CASE ProgramAsks
    <2>1. UNCHANGED loadVars
      BY <1>10 DEF ProgramAsks, Allocates, Forks, Exits, Faults, loaderVars
    <2> QED BY <1>6, <2>1
  <1> QED BY <1>3, <1>4, <1>5, <1>7, <1>8, <1>9, <1>10 DEF SessionNext

LEMMA FilesAreSequences == SessionSpec => []IncomingOK
  <1>1. SessionInit => IncomingOK
    BY EmptyFile DEF SessionInit, LoaderInit, IncomingOK
  <1>2. IncomingOK /\ [SessionNext]_sessionVars => IncomingOK'
    BY IncomingStep
  <1> QED BY <1>1, <1>2, PTL DEF SessionSpec

-----------------------------------------------------------------------------
(* The types of what the shell and the loader keep. *)

ShellTypes ==
    /\ line \in [0 .. BUF_LEN -> Char] /\ pos \in 0 .. BUF_LEN - 1
    /\ pending \in Seq({"S", LF})
    /\ ld_for \in Proc \cup {NULL}
    /\ halted \in {"no", "panic", "wild", "spin"}
    /\ proc_index \in [Proc -> Proc \cup {NULL}]

LEMMA ShellCharacters == {NUL, CR, LF, BS, "S"} \subseteq Char
  BY SessionAssumption DEF Char

LEMMA ReadCharTypes ==
    ASSUME LineOK, NEW c \in Char, ReadChar(c),
           line \in [0 .. BUF_LEN -> Char]
    PROVE  line' \in [0 .. BUF_LEN -> Char] /\ pos' \in 0 .. BUF_LEN - 1
  <1> DEFINE l == [line EXCEPT ![pos] = c]
  <1>1. l \in [0 .. BUF_LEN -> Char] /\ NUL \in Char
    BY ShellCharacters
  <1>2. pos \in 0 .. BUF_LEN - 2
    BY DEF LineOK, ReadChar
  <1> HIDE DEF l
  <1>3. ASSUME NEW i \in 0 .. BUF_LEN - 1, EndOfLine(l, i)
        PROVE  line' \in [0 .. BUF_LEN -> Char] /\ pos' \in 0 .. BUF_LEN - 1
    BY <1>1, <1>3 DEF EndOfLine, Terminated
  <1>4. ASSUME NEW next \in 0 .. BUF_LEN - 1, GoOn(l, next)
        PROVE  line' \in [0 .. BUF_LEN -> Char] /\ pos' \in 0 .. BUF_LEN - 1
    BY <1>1, <1>3, <1>4 DEF GoOn
  <1>5. /\ pos \in 0 .. BUF_LEN - 1 /\ pos + 1 \in 0 .. BUF_LEN - 1 /\ 0 \in 0 .. BUF_LEN - 1
        /\ pos # 0 => pos - 1 \in 0 .. BUF_LEN - 1
    BY <1>2, BufferSize
  <1> QED BY <1>3, <1>4, <1>5 DEF ReadChar, l

LEMMA ShellAtPrompt ==
    ASSUME line \in [0 .. BUF_LEN -> Char], pos \in 0 .. BUF_LEN - 1,
           RunLine \/ CallReturns \/ ShellGone \/ UNCHANGED shellVars
    PROVE  line' \in [0 .. BUF_LEN -> Char] /\ pos' \in 0 .. BUF_LEN - 1
  <1>1. NUL \in Char /\ 0 \in 0 .. BUF_LEN - 1
    BY ShellCharacters, BufferSize
  <1>2. CASE RunLine
    <2>1. line' = Split(line) /\ (pos' = pos \/ pos' = 0)
      BY <1>2 DEF RunLine
    <2>2. Split(line) \in [0 .. BUF_LEN -> Char]
      BY <1>1 DEF Split
    <2> QED BY <1>1, <2>1, <2>2
  <1>3. CASE CallReturns
    BY <1>1, <1>3 DEF CallReturns
  <1>4. CASE ShellGone
    BY <1>1, <1>4 DEF ShellGone
  <1>5. CASE UNCHANGED shellVars
    BY <1>5 DEF shellVars
  <1> QED BY <1>2, <1>3, <1>4, <1>5

LEMMA ShellTypesStep ==
    ASSUME LineOK, ShellTypes, IncomingOK, [SessionNext]_sessionVars
    PROVE  ShellTypes'
  <1> DEFINE Text == line \in [0 .. BUF_LEN -> Char] /\ pos \in 0 .. BUF_LEN - 1
             Rest == /\ ld_for \in Proc \cup {NULL}
                     /\ halted \in {"no", "panic", "wild", "spin"}
                     /\ proc_index \in [Proc -> Proc \cup {NULL}]
  <1>0. Text /\ Rest /\ pending \in Seq({"S", LF}) /\ SHELL \in Proc
    BY BootConstants DEF ShellTypes, SHELL, BootedKernel!SHELL
  <1>1. RunLine \/ CallReturns \/ ShellGone \/ UNCHANGED shellVars => Text'
    BY <1>0, ShellAtPrompt
  <1>2. UNCHANGED <<ld_for, halted, proc_index>> => Rest'
    BY <1>0
  <1> HIDE DEF Text
  <1>3. Text' /\ Rest' /\ pending' \in Seq({"S", LF}) => ShellTypes'
    BY DEF ShellTypes, Text
  <1>4. CASE Reads
    <2>1. /\ UNCHANGED <<ld_for, halted, proc_index>>
          /\ \/ pending # <<>> /\ ReadChar(Head(pending)) /\ pending' = Tail(pending)
             \/ (\E c \in Char : ReadChar(c)) /\ UNCHANGED pending
      BY <1>4 DEF Reads, loaderVars, loadVars, nameVars
    <2>2. pending # <<>> => /\ Head(pending) \in {"S", LF}
                            /\ Tail(pending) \in Seq({"S", LF})
      BY <1>0
    <2>3. \E c \in Char : ReadChar(c)
      BY <2>1, <2>2, ShellCharacters
    <2>4. Text'
      BY <1>0, <2>3, ReadCharTypes DEF Text
    <2> QED BY <1>0, <1>2, <1>3, <2>1, <2>2, <2>4
  <1>5. ASSUME NEW o \in Proc, Forks(o) PROVE Rest'
    <2>1. UNCHANGED ld_for
      BY <1>5 DEF Forks, loadVars
    <2>2. proc_index' \in [Proc -> Proc \cup {NULL}]
      BY <1>0, <1>5 DEF Forks, nameVars
    <2>3. halted' = halted \/ halted' = "panic"
      BY <1>5 DEF Forks
    <2> QED BY <1>0, <2>1, <2>2, <2>3
  <1>6. ASSUME NEW p, NEW code, Exits(p, code) \/ Faults(p, code) PROVE Rest'
    <2>1. UNCHANGED <<ld_for, proc_index>> /\ halted' \in {"no", "spin"}
      BY <1>6 DEF Exits, Faults, EndReport, loadVars, nameVars
    <2> QED BY <1>0, <2>1
  <1>7. CASE ShellExits
    <2>1. /\ ShellGone /\ Rest' /\ pending' = <<>>
      BY <1>6, <1>7 DEF ShellExits
    <2> QED BY <1>1, <1>3, <2>1
  <1>8. CASE ShellForks
    <2>1. CallReturns /\ UNCHANGED pending /\ Rest'
      BY <1>0, <1>5, <1>8 DEF ShellForks
    <2> QED BY <1>0, <1>1, <1>3, <2>1
  <1>9. CASE ShellExecs
    <2>1. /\ UNCHANGED shellVars /\ UNCHANGED <<pending, halted, proc_index>>
          /\ ld_for' = SHELL
      BY <1>9 DEF ShellExecs, exec_read_srec, nameVars
    <2> QED BY <1>0, <1>1, <1>3, <2>1
  <1>10. CASE SystemLoads
    <2>1. /\ ShellGone \/ UNCHANGED shellVars
          /\ UNCHANGED <<pending, proc_index>> /\ Loads
      BY <1>10 DEF SystemLoads, nameVars
    <2>2. ld_for' = ld_for \/ ld_for' = NULL
      BY <2>1 DEF Loads, ReadHeader, ReadRecord, ReadEntry, ReadTyped, Replace, Install,
                  NoMemory, Idle, loadVars
    <2>3. halted' = halted \/ halted' \in {"panic", "wild"}
      BY <2>1 DEF Loads, ReadHeader, ReadRecord, ReadEntry, ReadTyped, Replace, Install,
                  NoMemory, Fails
    <2> QED BY <1>0, <1>1, <1>3, <2>1, <2>2, <2>3
  <1>11. CASE ShellGoesOn
    <2>1. /\ CallReturns /\ ld_for' = NULL /\ UNCHANGED <<halted, proc_index>>
          /\ pending' = [j \in 1 .. 2 * Len(incoming) |-> IF j % 2 = 1 THEN "S" ELSE LF]
      BY <1>11 DEF ShellGoesOn, Idle, nameVars
    <2>2. 2 * Len(incoming) \in Nat
      BY SequenceHas DEF IncomingOK
    <2>3. pending' \in Seq({"S", LF})
      <3> DEFINE n == 2 * Len(incoming)
      <3>1. pending' \in [1 .. n -> {"S", LF}] /\ n \in Nat
        BY <2>1, <2>2
      <3> HIDE DEF n
      <3> QED BY <3>1, SeqDef
    <2> QED BY <1>0, <1>1, <1>3, <2>1, <2>3
  <1>12. CASE ProgramAsks
    <2>1. /\ UNCHANGED <<shellVars, pending>>
          /\ \/ \E p \in Proc : Allocates(p)
             \/ \E o \in Proc : Forks(o)
             \/ \E p \in Proc, code \in ExitCodes : Exits(p, code) \/ Faults(p, code)
      BY <1>12 DEF ProgramAsks
    <2>2. (\E p \in Proc : Allocates(p)) => UNCHANGED <<ld_for, halted, proc_index>>
      BY DEF Allocates, loaderVars, loadVars, nameVars
    <2>3. Rest'
      BY <1>2, <1>5, <1>6, <2>1, <2>2
    <2> QED BY <1>0, <1>1, <1>3, <2>1, <2>3
  <1>13. CASE Boots \/ SystemStarts \/ Decodes \/ UNCHANGED sessionVars
    <2>1. /\ RunLine \/ UNCHANGED shellVars
          /\ UNCHANGED <<pending, ld_for, halted, proc_index>>
      BY <1>13 DEF Boots, SystemStarts, Decodes, sessionVars, loaderVars, loadVars, nameVars
    <2> QED BY <1>0, <1>1, <1>2, <1>3, <2>1
  <1> QED BY <1>4, <1>7, <1>8, <1>9, <1>10, <1>11, <1>12, <1>13 DEF SessionNext

\* Every field of the system keeps its type: the lists and lengths of the allocator,
\* images, the line and its tokens, the loader, and the numbers of processes.
THEOREM SessionTypes ==
    ASSUME Fits
    PROVE  SessionSpec => []SessionTypeOK
  <1>1. SessionInit => ShellTypes
    <2> SUFFICES ASSUME SessionInit PROVE ShellTypes
      OBVIOUS
    <2>1. /\ line = [j \in 0 .. BUF_LEN |-> NUL] /\ pos = 0 /\ pending = <<>>
          /\ ld_for = NULL /\ halted = "no" /\ proc_index = [p \in Proc |-> p]
      BY DEF SessionInit, ShellInit, LoaderInit
    <2> QED BY <2>1, ShellCharacters, BufferSize DEF ShellTypes
  <1>2. LineOK /\ ShellTypes /\ IncomingOK /\ [SessionNext]_sessionVars => ShellTypes'
    BY ShellTypesStep
  <1>3. ShellTypes /\ LineInv /\ MemInv /\ NumberInv => SessionTypeOK
    <2> SUFFICES ASSUME ShellTypes, LineInv, MemInv, NumberInv PROVE SessionTypeOK
      OBVIOUS
    <2>1. TypeOK
      BY HoldsTypes DEF MemInv
    <2>2. argc \in 0 .. BUF_LEN
      BY BufferSize DEF LineInv
    <2>3. wordslength \in Nat
      BY DEF MemInv, LoadOK, LoadFits
    <2> QED BY <2>1, <2>2, <2>3
            DEF ShellTypes, LineInv, MemInv, ImagesOK, NumberInv, States, SessionTypeOK
  <1> QED BY <1>1, <1>2, <1>3, BufferInvariant, FilesAreSequences, MemoryInvariant,
             NumberInvariant, PTL
          DEF SessionSpec
=============================================================================
