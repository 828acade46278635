---------------------------- MODULE KernelProofs ----------------------------
(***************************************************************************)
(* Proofs about Kernel, for every number of processes.  First, for every   *)
(* set of calls the processes may make: its types, and that the scheduler  *)
(* always finds a process to run.  Then, for processes that enter it       *)
(* through the system call library alone: who waits for whom, and that     *)
(* every process is on the one list it belongs to.  Last, on the same      *)
(* terms, that the lists order the processes as Scheduler says.  In these  *)
(* two parts exec and fork_pid are left out, and so is a process that      *)
(* traps by hand: with them the properties fail.                           *)
(***************************************************************************)
EXTENDS Kernel, LinkedListProofs

\* What the argument says of the queues: IDLE is linked nowhere but in its own
\* queue, alone, so no link of another process leads to it or away from it.
ListInv(L) ==
    /\ L \in Stores(Proc, Queue)
    /\ \A q \in Queue : L.head[q] # NULL => L.tail[q] # NULL
    /\ \A q \in Queue : q # IDLE_PRIORITY => L.head[q] # IDLE /\ L.tail[q] # IDLE
    /\ \A p \in Proc : L.next[p] # IDLE
    /\ L.head[IDLE_PRIORITY] = L.tail[IDLE_PRIORITY]
    /\ L.head[IDLE_PRIORITY] \in {IDLE, NULL}

FlagsOK(fl) == fl \in [Proc -> SUBSET {SENDING, RECEIVING}] /\ fl[IDLE] = {}
BufOK(b) == b \in [Proc -> message_t] /\ \A p \in Proc \ {IDLE} : b[p].src # IDLE
LinksOK(f) == f \in [Proc -> Proc \cup {NULL}] /\ \A p \in Proc : f[p] # IDLE

TableOK == /\ state \in [Proc -> proc_state_t]
           /\ priority \in [Proc -> ReadyQueue]
           /\ \A p \in Proc : priority[p] = IDLE_PRIORITY <=> p = IDLE
           /\ quantum \in [Proc -> Nat \ {0}]
           /\ imaged \subseteq Proc \ {IDLE}
IpcOK == /\ FlagsOK(flags) /\ BufOK(buf)
         /\ LinksOK(sender_q) /\ LinksOK(next_sender) /\ LinksOK(message)
         /\ ret \in [Proc -> {-1, 0}]
SchedOK == /\ ListInv(lists)
           /\ ticks_left \in [Proc -> Int]
           /\ \/ /\ status = "running" /\ current_proc \in Proc
                 /\ current_proc = IDLE <=> lists.head[IDLE_PRIORITY] = NULL
              \/ status \in {"panic", "wild"} /\ current_proc = NULL
           /\ IdleLast
SysOK == /\ rx \in BOOLEAN
         /\ sys_pc \in {"receive", "dispatch", "reply", "reply_child"}
         /\ who \in (Proc \cup {NULL}) \ {IDLE}
         /\ response \in Proc \cup {-1}

IInv == TableOK /\ IpcOK /\ SchedOK /\ SysOK
-----------------------------------------------------------------------------
LEMMA Constants ==
    /\ SYSTEM \in Proc /\ IDLE \in Proc /\ INIT \in Proc /\ SHELL \in Proc
    /\ NULL \notin Proc /\ Proc \subseteq Int
    /\ IDLE_PRIORITY \in ReadyQueue /\ ReadyQueue \subseteq Queue
    /\ FREE \in Queue /\ FREE # IDLE_PRIORITY /\ FREE \notin ReadyQueue
  BY SizeAssumption, NullAssumption
     DEF Proc, SYSTEM, IDLE, INIT, SHELL, IDLE_PRIORITY, ReadyQueue, Queue, FREE,
         NUM_QUEUES

LEMMA EnqueueTail ==
    ASSUME NEW L, ListInv(L), NEW q \in Queue, NEW p \in Proc,
           p = IDLE <=> q = IDLE_PRIORITY,
           p = IDLE => L.head[IDLE_PRIORITY] = NULL
    PROVE  /\ ListInv(enqueue_tail(L, q, p))
           /\ enqueue_tail(L, q, p).head[IDLE_PRIORITY] =
                IF p = IDLE THEN IDLE ELSE L.head[IDLE_PRIORITY]
  <1>1. CASE L.head[q] = NULL
    BY <1>1, Constants DEF enqueue_tail, ListInv, Stores
  <1>2. CASE L.head[q] # NULL
    BY <1>2, Constants DEF enqueue_tail, ListInv, Stores
  <1> QED BY <1>1, <1>2

LEMMA EnqueueHead ==
    ASSUME NEW L, ListInv(L), NEW q \in Queue, NEW p \in Proc,
           p = IDLE <=> q = IDLE_PRIORITY,
           p = IDLE => L.head[IDLE_PRIORITY] = NULL
    PROVE  /\ ListInv(enqueue_head(L, q, p))
           /\ enqueue_head(L, q, p).head[IDLE_PRIORITY] =
                IF p = IDLE THEN IDLE ELSE L.head[IDLE_PRIORITY]
  <1>1. CASE L.head[q] = NULL
    BY <1>1, Constants DEF enqueue_head, ListInv, Stores
  <1>2. CASE L.head[q] # NULL
    BY <1>2, Constants DEF enqueue_head, ListInv, Stores
  <1> QED BY <1>1, <1>2

LEMMA Dequeue ==
    ASSUME NEW L, ListInv(L), NEW q \in Queue
    PROVE  /\ ListInv(dequeue(L, q))
           /\ dequeue(L, q).head[IDLE_PRIORITY] =
                IF q = IDLE_PRIORITY THEN NULL ELSE L.head[IDLE_PRIORITY]
  <1>1. CASE L.head[q] = NULL
    BY <1>1, Constants DEF dequeue, ListInv, Stores
  <1>2. CASE L.head[q] # NULL /\ L.head[q] = L.tail[q]
    BY <1>2, Constants DEF dequeue, ListInv, Stores
  <1>3. CASE L.head[q] # NULL /\ L.head[q] # L.tail[q]
    <2>1. L.head[q] \in Proc /\ q # IDLE_PRIORITY
      BY <1>3, Constants DEF ListInv, Stores
    <2> QED BY <1>3, <2>1, Constants DEF dequeue, ListInv, Stores
  <1> QED BY <1>1, <1>2, <1>3

\* The queue sched picks from is the first that is not empty.
LEMMA TopQueueIsFirst ==
    ASSUME NEW L, NonEmpty(L) # {}
    PROVE  /\ TopQueue(L) \in NonEmpty(L)
           /\ \A r \in NonEmpty(L) : TopQueue(L) <= r
  <1>1. \E q \in NonEmpty(L) : \A r \in NonEmpty(L) : q <= r
    <2>1. NonEmpty(L) \subseteq {0, 1, 2, 3, 4}
      BY DEF NonEmpty, ReadyQueue, NUM_QUEUES
    <2> QED BY <2>1
  <1> QED BY <1>1 DEF TopQueue

\* sched() always finds a process: if the one that ran is IDLE it is put back on
\* its queue, and if not, IDLE is still there.
LEMMA Sched ==
    ASSUME TableOK, status = "running", ticks_left \in [Proc -> Int],
           NEW L, ListInv(L), NEW fl, FlagsOK(fl),
           NEW c \in Proc \cup {NULL},
           c = IDLE <=> L.head[IDLE_PRIORITY] = NULL,
           sched(L, fl, c)
    PROVE  SchedOK'
  <1> DEFINE R == Reinserted(L, fl, c)
             q == TopQueue(R)
             p == R.head[q]
  <1>1. c # NULL => /\ priority[c] \in Queue
                    /\ priority[c] = IDLE_PRIORITY <=> c = IDLE
    BY Constants DEF TableOK
  <1>2. ListInv(R) /\ R.head[IDLE_PRIORITY] = IDLE
    <2>1. CASE ~Accounted(L, fl, c)
      <3>1. c # IDLE
        BY <2>1, Constants DEF Accounted, FlagsOK
      <3> QED BY <2>1, <3>1 DEF Reinserted, ListInv
    <2>2. CASE Accounted(L, fl, c)
      <3>1. c \in Proc
        BY <2>2 DEF Accounted
      <3>2. \/ R = enqueue_head(L, priority[c], c)
            \/ R = enqueue_tail(L, priority[c], c)
        BY <2>2 DEF Reinserted
      <3>3. c # IDLE => L.head[IDLE_PRIORITY] = IDLE
        BY DEF ListInv
      <3> QED BY <1>1, <3>1, <3>2, <3>3, EnqueueHead, EnqueueTail, Constants
    <2> QED BY <2>1, <2>2
  <1>3. IDLE_PRIORITY \in NonEmpty(R)
    BY <1>2, Constants DEF NonEmpty
  <1>4. q \in ReadyQueue /\ p # NULL /\ (\A r \in NonEmpty(R) : q <= r)
    BY <1>3, TopQueueIsFirst DEF NonEmpty
  <1>5. p \in Proc /\ (p = IDLE <=> q = IDLE_PRIORITY)
    BY <1>2, <1>4, Constants DEF ListInv, Stores
  <1>6. Charged(L, fl, c) \in [Proc -> Int]
    BY DEF Charged, Accounted
  <1>7. /\ lists' = dequeue(R, q)
        /\ current_proc' = p
        /\ status' = "running"
        /\ ticks_left' = [Charged(L, fl, c) EXCEPT ![p] =
                             IF @ <= 0 THEN quantum[p] ELSE @]
    BY <1>3 DEF sched
  <1>8. /\ ListInv(lists')
        /\ lists'.head[IDLE_PRIORITY] =
             IF q = IDLE_PRIORITY THEN NULL ELSE IDLE
    BY <1>2, <1>4, <1>7, Dequeue, Constants
  <1>9. ticks_left' \in [Proc -> Int]
    BY <1>5, <1>6, <1>7 DEF TableOK
  <1>10. IdleLast'
    <2> SUFFICES ASSUME p = IDLE, NEW r \in ReadyQueue
                 PROVE  lists'.head[r] = NULL
      BY <1>7 DEF IdleLast
    <2>1. q = IDLE_PRIORITY
      BY <1>5
    <2>2. r # IDLE_PRIORITY => R.head[r] = NULL
      BY <1>4, <2>1 DEF NonEmpty, ReadyQueue, NUM_QUEUES, IDLE_PRIORITY
    <2>3. dequeue(R, q).head[r] = IF r = IDLE_PRIORITY THEN NULL ELSE R.head[r]
      BY <1>2, <2>1, <1>8, <1>7, Constants DEF dequeue, ListInv, Stores
    <2> QED BY <1>7, <2>2, <2>3
  <1> HIDE DEF R, q, p
  <1> QED BY <1>5, <1>7, <1>8, <1>9, <1>10, Constants DEF SchedOK

\* Stopping the kernel.
LEMMA StopOK ==
    ASSUME SchedOK, NEW how \in {"panic", "wild"}, Stop(how)
    PROVE  SchedOK'
  BY Constants DEF SchedOK, Stop, IdleLast, ListInv
-----------------------------------------------------------------------------
(* The message routines, run for a process c that is not IDLE. *)

\* A ready process goes to the head of its queue, then the scheduler runs.
LEMMA WakeAndSched ==
    ASSUME TableOK, SchedOK, status = "running",
           NEW c \in Proc, c # IDLE, current_proc = c,
           NEW d \in Proc, d # IDLE,
           NEW fl, FlagsOK(fl),
           sched(enqueue_head(lists, priority[d], d), fl, c)
    PROVE  SchedOK'
  <1> DEFINE L == enqueue_head(lists, priority[d], d)
  <1>1. priority[d] \in Queue /\ priority[d] # IDLE_PRIORITY
    BY Constants DEF TableOK
  <1>2. ListInv(lists) /\ lists.head[IDLE_PRIORITY] # NULL
    BY DEF SchedOK
  <1>3. ListInv(L) /\ L.head[IDLE_PRIORITY] # NULL
    BY <1>1, <1>2, EnqueueHead
  <1> HIDE DEF L
  <1> QED BY <1>3, Sched DEF SchedOK, L

LEMMA SchedOnly ==
    ASSUME TableOK, SchedOK, status = "running",
           NEW c \in Proc, current_proc = c,
           NEW fl, FlagsOK(fl), sched(lists, fl, c)
    PROVE  SchedOK'
  BY Sched DEF SchedOK

LEMMA DeliverOK ==
    ASSUME TableOK, IpcOK, SchedOK, status = "running",
           NEW c \in Proc, c # IDLE, current_proc = c,
           NEW d \in Proc, NEW fl, FlagsOK(fl), RECEIVING \in fl[d],
           NEW b, BufOK(b), LinksOK(message'), Deliver(c, d, fl, b)
    PROVE  /\ FlagsOK(flags') /\ BufOK(buf')
           /\ LinksOK(sender_q') /\ LinksOK(next_sender')
           /\ SchedOK'
  <1>1. d # IDLE
    BY DEF FlagsOK
  <1>2. FlagsOK(flags')
    BY <1>1, Constants DEF Deliver, FlagsOK
  <1>3. BufOK(buf')
    BY <1>1, Constants DEF Deliver, BufOK
  <1>4. sched(enqueue_head(lists, priority[d], d), flags', c)
    BY DEF Deliver
  <1>5. SchedOK'
    BY <1>1, <1>2, <1>4, WakeAndSched
  <1> QED BY <1>2, <1>3, <1>5 DEF Deliver, IpcOK

LEMMA SetLink ==
    ASSUME NEW f, LinksOK(f), NEW c \in Proc, NEW v \in (Proc \cup {NULL}) \ {IDLE}
    PROVE  LinksOK([f EXCEPT ![c] = v])
  BY DEF LinksOK

LEMMA GetProc == \A n : get_proc(n) \in Proc \cup {NULL}
  BY DEF get_proc

LEMMA SendOK ==
    ASSUME TableOK, IpcOK, SchedOK, status = "running",
           NEW c \in Proc, c # IDLE, current_proc = c,
           NEW dest, NEW fl, FlagsOK(fl), NEW b, BufOK(b), wini_send(c, dest, fl, b)
    PROVE  IpcOK' /\ SchedOK'
  <1> DEFINE d == get_proc(dest)
  <1>1. LinksOK(message')
    BY SetLink DEF wini_send, IpcOK
  <1>2. ret' \in [Proc -> {-1, 0}]
    BY DEF wini_send, IpcOK
  <1>3. CASE /\ d = NULL
             /\ buf' = b /\ flags' = fl
             /\ UNCHANGED <<sender_q, next_sender>>
             /\ sched(lists, fl, c)
    BY <1>1, <1>2, <1>3, SchedOnly DEF IpcOK
  <1>4. CASE d # NULL /\ RECEIVING \in fl[d] /\ Deliver(c, d, fl, b)
    <2>1. d \in Proc
      BY <1>4, GetProc
    <2> HIDE DEF d
    <2> QED BY <1>1, <1>2, <1>4, <2>1, DeliverOK DEF IpcOK
  <1>5. CASE /\ d # NULL /\ RECEIVING \notin fl[d]
             /\ flags' = [fl EXCEPT ![c] = @ \cup {SENDING}]
             /\ next_sender' = [next_sender EXCEPT ![c] = sender_q[d]]
             /\ sender_q' = [sender_q EXCEPT ![d] = c]
             /\ buf' = b
             /\ sched(lists, flags', c)
    <2>1. d \in Proc
      BY <1>5, GetProc
    <2>2. FlagsOK(flags')
      BY <1>5 DEF FlagsOK
    <2>3. SchedOK'
      BY <1>5, <2>2, SchedOnly
    <2>4. LinksOK(next_sender')
      BY <1>5, <2>1, Constants DEF IpcOK, LinksOK
    <2>5. LinksOK(sender_q')
      BY <1>5, <2>1, SetLink DEF IpcOK
    <2> QED BY <1>1, <1>2, <1>5, <2>2, <2>3, <2>4, <2>5 DEF IpcOK
  <1> QED BY <1>3, <1>4, <1>5 DEF wini_send

LEMMA ReceiveOK ==
    ASSUME TableOK, IpcOK, SchedOK, status = "running",
           NEW c \in Proc, c # IDLE, current_proc = c,
           NEW b, BufOK(b), wini_receive(c, b)
    PROVE  IpcOK' /\ SchedOK'
  <1> DEFINE p == sender_q[c]
  <1>1. ret' \in [Proc -> {-1, 0}]
    BY DEF wini_receive, IpcOK
  <1>2. CASE /\ p # NULL /\ message[p] # NULL
             /\ sender_q' = [sender_q EXCEPT ![c] = next_sender[p]]
             /\ buf' = [b EXCEPT ![c] = b[message[p]]]
             /\ flags' = [flags EXCEPT ![p] = @ \ {SENDING}]
             /\ UNCHANGED <<next_sender, message>>
             /\ sched(enqueue_head(lists, priority[p], p), flags', c)
    <2>1. p \in Proc /\ p # IDLE
      BY <1>2 DEF IpcOK, LinksOK
    <2>2. FlagsOK(flags')
      BY <1>2, <2>1 DEF IpcOK, FlagsOK
    <2>3. BufOK(buf')
      <3>1. message[p] \in Proc \ {IDLE}
        BY <1>2, <2>1 DEF IpcOK, LinksOK
      <3>2. b[message[p]] \in message_t /\ b[message[p]].src # IDLE
        BY <3>1 DEF BufOK
      <3> QED BY <1>2, <3>2 DEF BufOK
    <2>4. LinksOK(sender_q')
      <3>1. next_sender[p] \in (Proc \cup {NULL}) \ {IDLE}
        BY <2>1 DEF IpcOK, LinksOK
      <3> QED BY <1>2, <3>1, SetLink DEF IpcOK
    <2>5. SchedOK'
      <3> HIDE DEF p
      <3> QED BY <1>2, <2>1, <2>2, WakeAndSched
    <2> QED BY <1>1, <1>2, <2>2, <2>3, <2>4, <2>5 DEF IpcOK
  <1>3. CASE /\ p = NULL
             /\ message' = [message EXCEPT ![c] = c]
             /\ flags' = [flags EXCEPT ![c] = @ \cup {RECEIVING}]
             /\ buf' = b
             /\ UNCHANGED <<sender_q, next_sender>>
             /\ sched(lists, flags', c)
    <2>1. FlagsOK(flags')
      BY <1>3 DEF IpcOK, FlagsOK
    <2>2. LinksOK(message')
      BY <1>3, SetLink DEF IpcOK
    <2>3. SchedOK'
      BY <1>3, <2>1, SchedOnly
    <2> QED BY <1>1, <1>3, <2>1, <2>2, <2>3 DEF IpcOK
  <1>4. CASE /\ p # NULL /\ message[p] = NULL
             /\ buf' = b
             /\ UNCHANGED <<flags, sender_q, next_sender, message>>
             /\ Stop("wild")
    BY <1>1, <1>4, StopOK DEF IpcOK
  <1> QED BY <1>2, <1>3, <1>4 DEF wini_receive

LEMMA SendOnceOK ==
    ASSUME TableOK, IpcOK, SchedOK, status = "running",
           NEW c \in Proc, c # IDLE, current_proc = c,
           NEW dest, NEW b, BufOK(b), wini_sendonce(c, dest, b)
    PROVE  IpcOK' /\ SchedOK'
  <1> DEFINE d == get_proc(dest)
  <1>1. LinksOK(message')
    BY SetLink DEF wini_sendonce, IpcOK
  <1>2. ret' \in [Proc -> {-1, 0}]
    BY DEF wini_sendonce, IpcOK
  <1>3. CASE /\ d = NULL
             /\ buf' = b
             /\ UNCHANGED <<flags, sender_q, next_sender>>
             /\ sched(lists, flags, c)
    BY <1>1, <1>2, <1>3, SchedOnly DEF IpcOK
  <1>4. CASE d # NULL /\ RECEIVING \in flags[d] /\ Deliver(c, d, flags, b)
    <2>1. d \in Proc
      BY <1>4, GetProc
    <2> HIDE DEF d
    <2> QED BY <1>1, <1>2, <1>4, <2>1, DeliverOK DEF IpcOK
  <1>5. CASE /\ d # NULL /\ RECEIVING \notin flags[d]
             /\ buf' = b
             /\ UNCHANGED <<flags, sender_q, next_sender>>
             /\ sched(enqueue_tail(lists, priority[c], c), flags, c)
    <2>1. priority[c] \in Queue /\ priority[c] # IDLE_PRIORITY
      BY Constants DEF TableOK
    <2>2. ListInv(lists) /\ lists.head[IDLE_PRIORITY] # NULL
      BY DEF SchedOK
    <2>3. /\ ListInv(enqueue_tail(lists, priority[c], c))
          /\ enqueue_tail(lists, priority[c], c).head[IDLE_PRIORITY] # NULL
      BY <2>1, <2>2, EnqueueTail
    <2>4. SchedOK'
      BY <1>5, <2>3, Sched DEF SchedOK, IpcOK
    <2> QED BY <1>1, <1>2, <1>5, <2>4 DEF IpcOK
  <1> QED BY <1>3, <1>4, <1>5 DEF wini_sendonce

\* A system call trapped by c, with any operation, destination and message.
LEMMA SyscallOK ==
    ASSUME TableOK, IpcOK, SchedOK,
           NEW c \in Proc, c # IDLE, Running(c),
           NEW op, NEW dest, NEW m \in message_t, syscall_handler(c, op, dest, m)
    PROVE  IpcOK' /\ SchedOK'
  <1> DEFINE b  == [buf EXCEPT ![c] = [m EXCEPT !.src = c]]
             fl == [flags EXCEPT ![c] = @ \cup {RECEIVING}]
  <1>1. BufOK(b)
    <2>1. [m EXCEPT !.src = c] \in message_t /\ [m EXCEPT !.src = c].src = c
      BY DEF message_t
    <2> QED BY <2>1 DEF IpcOK, BufOK
  <1>2. FlagsOK(fl) /\ FlagsOK(flags)
    BY DEF IpcOK, FlagsOK
  <1>3. status = "running" /\ current_proc = c
    BY DEF Running
  <1> HIDE DEF b
  <1>4. CASE wini_send(c, dest, fl, b)
    <2> HIDE DEF fl
    <2> QED BY <1>1, <1>2, <1>3, <1>4, SendOK
  <1>5. CASE wini_send(c, dest, flags, b)
    BY <1>1, <1>2, <1>3, <1>5, SendOK
  <1>6. CASE wini_receive(c, b)
    BY <1>1, <1>3, <1>6, ReceiveOK
  <1>7. CASE wini_sendonce(c, dest, b)
    BY <1>1, <1>3, <1>7, SendOnceOK
  <1>8. CASE /\ ret' = [ret EXCEPT ![c] = -1]
             /\ buf' = b
             /\ UNCHANGED <<flags, sender_q, next_sender, message>>
             /\ sched(lists, flags, c)
    BY <1>1, <1>2, <1>3, <1>8, SchedOnly DEF IpcOK
  <1> QED BY <1>4, <1>5, <1>6, <1>7, <1>8 DEF syscall_handler, b
-----------------------------------------------------------------------------
(* The steps *)

\* Changing the lists under the running system task.
LEMMA RelinkOK ==
    ASSUME SchedOK, Running(SYSTEM), UNCHANGED <<current_proc, status>>,
           ListInv(lists'), lists'.head[IDLE_PRIORITY] = lists.head[IDLE_PRIORITY],
           ticks_left' \in [Proc -> Int]
    PROVE  SchedOK'
  BY Constants DEF SchedOK, Running, IdleLast, SYSTEM, IDLE

LEMMA InitOK == Init => IInv
  <1> SUFFICES ASSUME Init PROVE IInv
    OBVIOUS
  <1>1. TableOK
    BY Constants, QuantumAssumption
       DEF Init, TableOK, proc_state_t, ReadyQueue, NUM_QUEUES, IDLE_PRIORITY,
           USER_PRIORITY, SYSTEM_PRIORITY, SYSTEM, IDLE, INIT, SHELL
  <1>2. IpcOK
    BY Constants DEF Init, IpcOK, FlagsOK, BufOK, LinksOK, NoMessage, message_t,
                     MsgType, MsgValue
  <1>3. SchedOK
    <2>1. ListInv(lists)
      BY SizeAssumption, Constants
         DEF Init, ListInv, Stores, Proc, Queue, FREE, ReadyQueue, NUM_QUEUES,
             USER_PRIORITY, IDLE_PRIORITY, SYSTEM, IDLE, INIT, SHELL
    <2>2. ticks_left \in [Proc -> Int]
      BY QuantumAssumption DEF Init
    <2>3. current_proc = SYSTEM /\ SYSTEM # IDLE /\ status = "running"
      BY DEF Init, SYSTEM, IDLE
    <2>4. lists.head[IDLE_PRIORITY] = IDLE
      BY Constants DEF Init, USER_PRIORITY, IDLE_PRIORITY
    <2> QED BY <2>1, <2>2, <2>3, <2>4, Constants DEF SchedOK, IdleLast
  <1>4. SysOK
    BY Constants DEF Init, SysOK, SYSTEM
  <1> QED BY <1>1, <1>2, <1>3, <1>4 DEF IInv

LEMMA TimerOK == IInv /\ timer_handler => IInv'
  <1> SUFFICES ASSUME IInv, timer_handler PROVE IInv'
    OBVIOUS
  <1>1. current_proc \in Proc /\ status = "running"
    BY DEF IInv, SchedOK, timer_handler
  <1>2. SchedOK'
    BY <1>1, SchedOnly DEF IInv, timer_handler, IpcOK
  <1> QED BY <1>2 DEF IInv, timer_handler, tableVars, ipcVars, sysVars, TableOK,
                      IpcOK, SysOK

LEMMA UserCallOK ==
    ASSUME IInv, NEW c \in Proc \ Tasks, NEW call \in UserCalls, UserCall(c, call)
    PROVE  IInv'
  <1>1. [src |-> c, type |-> call.type, i1 |-> call.i1] \in message_t
    BY CallAssumption DEF Call, message_t
  <1>2. c # IDLE /\ Running(c)
    BY DEF Tasks, UserCall
  <1>3. IpcOK' /\ SchedOK'
    BY <1>1, <1>2, SyscallOK DEF IInv, UserCall
  <1> QED BY <1>3 DEF IInv, UserCall, tableVars, sysVars, TableOK, SysOK

\* The process that faulted goes to the free list; the scheduler runs without it.
LEMMA FaultOK ==
    ASSUME IInv, NEW c \in Proc \ Tasks, fault_handler(c)
    PROVE  IInv'
  <1> DEFINE L == enqueue_tail(lists, FREE, c)
  <1>1. c # IDLE /\ status = "running" /\ current_proc = c
    BY DEF Tasks, fault_handler, Running
  <1>2. ListInv(lists) /\ lists.head[IDLE_PRIORITY] # NULL
    BY <1>1 DEF IInv, SchedOK
  <1>3. ListInv(L) /\ L.head[IDLE_PRIORITY] # NULL
    BY <1>1, <1>2, EnqueueTail, Constants
  <1>4. SchedOK'
    <2>1. sched(L, flags, NULL)
      BY DEF fault_handler
    <2> HIDE DEF L
    <2> QED BY <1>1, <1>3, <2>1, Sched, Constants DEF IInv, SchedOK, IpcOK
  <1>5. TableOK'
    BY DEF IInv, TableOK, fault_handler, proc_state_t
  <1> QED BY <1>4, <1>5 DEF IInv, fault_handler, ipcVars, sysVars, IpcOK, SysOK

LEMMA SerialOK == IInv /\ SerialInput => IInv'
  BY DEF IInv, SerialInput, tableVars, ipcVars, schedVars, sysVars, TableOK, IpcOK,
         SchedOK, SysOK, IdleLast

LEMMA SystemNotIdle == SYSTEM \in Proc /\ SYSTEM # IDLE
  BY Constants DEF SYSTEM, IDLE

LEMMA SystemReceiveOK == IInv /\ SystemReceive => IInv'
  <1> SUFFICES ASSUME IInv, SystemReceive PROVE IInv'
    OBVIOUS
  <1>1. NoMessage(SYSTEM) \in message_t
    BY Constants DEF NoMessage, message_t, MsgType, MsgValue
  <1>2. IpcOK' /\ SchedOK'
    BY <1>1, SystemNotIdle, SyscallOK DEF IInv, SystemReceive
  <1> QED BY <1>2, Constants
          DEF IInv, SystemReceive, tableVars, TableOK, SysOK, SYSTEM

LEMMA SystemReplyOK == IInv /\ SystemReply => IInv'
  <1> SUFFICES ASSUME IInv, SystemReply PROVE IInv'
    OBVIOUS
  <1>1. buf[SYSTEM] \in message_t
    BY Constants DEF IInv, IpcOK, BufOK
  <1>2. IpcOK' /\ SchedOK'
    BY <1>1, SystemNotIdle, SyscallOK DEF IInv, SystemReply
  <1> QED BY <1>2 DEF IInv, SystemReply, tableVars, TableOK, SysOK

LEMMA SystemReplyChildOK == IInv /\ SystemReplyChild => IInv'
  <1> SUFFICES ASSUME IInv, SystemReplyChild PROVE IInv'
    OBVIOUS
  <1>1. [buf[SYSTEM] EXCEPT !.i1 = 0] \in message_t
    <2>1. 0 \in MsgValue
      BY SizeAssumption DEF MsgValue
    <2> QED BY <2>1, Constants DEF IInv, IpcOK, BufOK, message_t
  <1>2. IpcOK' /\ SchedOK'
    BY <1>1, SystemNotIdle, SyscallOK DEF IInv, SystemReplyChild
  <1> QED BY <1>2 DEF IInv, SystemReplyChild, tableVars, TableOK, SysOK

\* The system task takes a request, and its lists and message fields stay put.
LEMMA HandlesWho ==
    ASSUME IInv, NEW types, Handles(types)
    PROVE  /\ who' \in Proc \ {IDLE}
           /\ Running(SYSTEM)
           /\ buf[SYSTEM] \in message_t
  BY SystemNotIdle DEF Handles, IInv, IpcOK, BufOK, message_t

LEMMA SystemBuf ==
    ASSUME BufOK(buf), NEW v \in MsgValue
    PROVE  BufOK([buf EXCEPT ![SYSTEM].i1 = v])
  BY SystemNotIdle DEF BufOK, message_t

LEMMA Values == NULL \in MsgValue /\ -1 \in MsgValue /\ Proc \subseteq MsgValue
  BY SizeAssumption DEF MsgValue, Proc

LEMMA SystemValueOK == IInv /\ (SystemValue \/ SystemGetc \/ SystemNoReply) => IInv'
  <1> SUFFICES ASSUME IInv, SystemValue \/ SystemGetc \/ SystemNoReply PROVE IInv'
    OBVIOUS
  <1>1. who' \in Proc \ {IDLE}
    BY HandlesWho DEF SystemValue, SystemGetc, SystemNoReply
  <1>2. BufOK(buf')
    BY SystemBuf, Values
       DEF SystemValue, SystemGetc, SystemNoReply, IInv, IpcOK, ipcVars
  <1>3. /\ UNCHANGED <<tableVars, flags, sender_q, next_sender, message, ret,
                       schedVars, response>>
        /\ sys_pc' \in {"receive", "reply"}
        /\ rx' \in BOOLEAN
    BY DEF SystemValue, SystemGetc, SystemNoReply, IInv, SysOK, ipcVars
  <1> QED BY <1>1, <1>2, <1>3
          DEF IInv, tableVars, schedVars, TableOK, IpcOK, SchedOK, SysOK, IdleLast

LEMMA SystemEndOK == IInv /\ SystemEnd => IInv'
  <1> SUFFICES ASSUME IInv, SystemEnd PROVE IInv'
    OBVIOUS
  <1>1. who' \in Proc \ {IDLE} /\ Running(SYSTEM)
    BY HandlesWho DEF SystemEnd
  <1>2. SchedOK'
    <2>1. lists' = enqueue_tail(lists, FREE, who')
      BY DEF SystemEnd
    <2>2. /\ ListInv(enqueue_tail(lists, FREE, who'))
          /\ enqueue_tail(lists, FREE, who').head[IDLE_PRIORITY] =
               lists.head[IDLE_PRIORITY]
      BY <1>1, EnqueueTail, Constants DEF IInv, SchedOK
    <2> QED BY <1>1, <2>1, <2>2, RelinkOK DEF SystemEnd, IInv, SchedOK
  <1>3. TableOK'
    BY <1>1 DEF SystemEnd, IInv, TableOK, proc_state_t
  <1> QED BY <1>1, <1>2, <1>3 DEF SystemEnd, IInv, ipcVars, IpcOK, SysOK

LEMMA HaltsOK ==
    ASSUME IInv, NEW how \in {"panic", "wild"}, Halts(how)
    PROVE  TableOK' /\ IpcOK' /\ SchedOK' /\ response' \in Proc \cup {-1} /\ rx' \in BOOLEAN
  BY StopOK DEF IInv, Halts, tableVars, ipcVars, TableOK, IpcOK, SysOK

LEMMA ForkIntoOK ==
    ASSUME IInv, Running(SYSTEM), NEW o \in imaged,
           NEW p, p = lists.head[FREE], p # NULL, ForkInto(o, p)
    PROVE  TableOK' /\ IpcOK' /\ SchedOK' /\ response' \in Proc \cup {-1} /\ rx' \in BOOLEAN
  <1>1. p \in Proc /\ p # IDLE /\ o \in Proc /\ o # IDLE
    BY Constants DEF IInv, SchedOK, ListInv, Stores, TableOK
  <1>2. TableOK'
    BY <1>1, QuantumAssumption, Constants
       DEF ForkInto, ForkFields, Copied, IInv, TableOK, proc_state_t, SYSTEM_PRIORITY,
           IDLE_PRIORITY, ReadyQueue, NUM_QUEUES
  <1>3. FlagsOK(flags') /\ ret' \in [Proc -> {-1, 0}]
    BY <1>1 DEF ForkInto, ForkFields, Copied, IInv, IpcOK, FlagsOK
  <1>4. LinksOK(sender_q') /\ LinksOK(next_sender') /\ LinksOK(message')
    BY <1>1, Constants DEF ForkInto, ForkFields, Copied, IInv, IpcOK, LinksOK
  <1>5. BufOK(buf')
    <2>1. BufOK([buf EXCEPT ![p] = buf[o]])
      BY <1>1 DEF IInv, IpcOK, BufOK
    <2> DEFINE b == [buf EXCEPT ![p] = buf[o]]
    <2>2. buf' = [b EXCEPT ![SYSTEM].i1 = p]
      BY DEF ForkInto, ForkFields
    <2>3. p \in MsgValue
      BY <1>1, Values
    <2> HIDE DEF b
    <2> QED BY <2>1, <2>2, <2>3, SystemNotIdle DEF BufOK, message_t, b
  <1>6. SchedOK'
    <2> DEFINE L == dequeue(lists, FREE)
    <2>1. ListInv(L) /\ L.head[IDLE_PRIORITY] = lists.head[IDLE_PRIORITY]
      BY Dequeue, Constants DEF IInv, SchedOK
    <2>2. lists' = [L EXCEPT !.next = [@ EXCEPT ![p] = NULL]]
      BY DEF ForkInto, ForkFields
    <2> HIDE DEF L
    <2>3. ListInv(lists') /\ lists'.head[IDLE_PRIORITY] = lists.head[IDLE_PRIORITY]
      BY <1>1, <2>1, <2>2, Constants DEF ListInv, Stores
    <2>4. ticks_left' \in [Proc -> Int]
      BY <1>1 DEF ForkInto, ForkFields, Copied, IInv, SchedOK
    <2> QED BY <2>3, <2>4, RelinkOK DEF ForkInto, ForkFields, IInv
  <1> QED BY <1>1, <1>2, <1>3, <1>4, <1>5, <1>6 DEF ForkInto, ForkFields, IpcOK, IInv, SysOK

LEMMA ForkProcOK ==
    ASSUME IInv, Running(SYSTEM), NEW o \in Proc, fork_proc(o)
    PROVE  TableOK' /\ IpcOK' /\ SchedOK' /\ response' \in Proc \cup {-1} /\ rx' \in BOOLEAN
  <1>1. CASE /\ o \notin imaged
             /\ response' = -1
             /\ buf' = [buf EXCEPT ![SYSTEM].i1 = -1]
             /\ UNCHANGED <<tableVars, flags, sender_q, next_sender, message, ret,
                            schedVars, rx>>
    BY <1>1, SystemBuf, Values DEF IInv, tableVars, schedVars, TableOK, IpcOK,
                                   SchedOK, IdleLast, SysOK
  <1>2. CASE /\ o \in imaged
             /\ lists.head[FREE] # NULL /\ TRUE \in AllocOutcomes
             /\ ForkInto(o, lists.head[FREE])
    BY <1>2, ForkIntoOK
  <1>3. CASE Halts("panic")
    BY <1>3, HaltsOK
  <1> QED BY <1>1, <1>2, <1>3 DEF fork_proc

LEMMA SystemForkOK == IInv /\ (SystemFork \/ SystemForkPid) => IInv'
  <1> SUFFICES ASSUME IInv, SystemFork \/ SystemForkPid PROVE IInv'
    OBVIOUS
  <1>1. who' \in Proc \ {IDLE} /\ Running(SYSTEM)
    BY HandlesWho DEF SystemFork, SystemForkPid
  <1>2. sys_pc' = "reply"
    BY DEF SystemFork, SystemForkPid
  <1>3. \/ \E o \in Proc : fork_proc(o)
        \/ Halts("wild")
    BY <1>1, GetProc DEF SystemFork, SystemForkPid
  <1> QED BY <1>1, <1>2, <1>3, ForkProcOK, HaltsOK DEF IInv, SysOK

LEMMA SystemExecOK == IInv /\ SystemExec => IInv'
  <1> SUFFICES ASSUME IInv, SystemExec PROVE IInv'
    OBVIOUS
  <1>1. who' \in Proc \ {IDLE} /\ Running(SYSTEM)
    BY HandlesWho DEF SystemExec
  <1>2. sys_pc' = "receive"
    BY DEF SystemExec
  <1> SUFFICES TableOK' /\ IpcOK' /\ SchedOK' /\ response' \in Proc \cup {-1}
               /\ rx' \in BOOLEAN
    BY <1>1, <1>2 DEF IInv, SysOK
  <1>3. CASE get_proc(who') # NULL /\ ReplaceProcess(get_proc(who'))
    <2> DEFINE p == get_proc(who')
    <2>1. p \in Proc /\ p # IDLE
      BY <1>1, <1>3 DEF get_proc
    <2> HIDE DEF p
    <2>2. ReplaceProcess(p)
      BY <1>3 DEF p
    <2>3. TableOK'
      BY <2>1, <2>2, QuantumAssumption
         DEF ReplaceProcess, IInv, TableOK, proc_state_t, SYSTEM_PRIORITY,
             IDLE_PRIORITY, ReadyQueue, NUM_QUEUES
    <2>4. IpcOK'
      BY <2>1, <2>2, Constants DEF ReplaceProcess, IInv, IpcOK, FlagsOK, LinksOK
    <2>5. SchedOK'
      <3>1. SYSTEM_PRIORITY \in Queue /\ SYSTEM_PRIORITY # IDLE_PRIORITY
        BY DEF SYSTEM_PRIORITY, IDLE_PRIORITY, Queue, ReadyQueue, NUM_QUEUES
      <3> DEFINE L == enqueue_tail(lists, SYSTEM_PRIORITY, p)
      <3>2. ListInv(L) /\ L.head[IDLE_PRIORITY] = lists.head[IDLE_PRIORITY]
        BY <2>1, <3>1, EnqueueTail DEF IInv, SchedOK
      <3>3. lists' = L /\ ticks_left' \in [Proc -> Int]
        BY <2>1, <2>2 DEF ReplaceProcess, IInv, SchedOK
      <3> HIDE DEF L
      <3> QED BY <1>1, <2>2, <3>2, <3>3, RelinkOK DEF ReplaceProcess, IInv
    <2> QED BY <2>2, <2>3, <2>4, <2>5 DEF ReplaceProcess, IInv, SysOK
  <1>4. CASE Halts("panic") \/ Halts("wild")
    BY <1>4, HaltsOK
  <1>5. CASE UNCHANGED <<tableVars, ipcVars, schedVars, response, rx>>
    BY <1>5 DEF IInv, tableVars, ipcVars, schedVars, TableOK, IpcOK, SchedOK,
                IdleLast, SysOK
  <1> QED BY <1>3, <1>4, <1>5 DEF SystemExec
-----------------------------------------------------------------------------
LEMMA StepOK == IInv /\ [Next]_vars => IInv'
  <1> SUFFICES ASSUME IInv, [Next]_vars PROVE IInv'
    OBVIOUS
  <1>1. CASE timer_handler
    BY <1>1, TimerOK
  <1>2. CASE UserStep
    BY <1>2, UserCallOK, FaultOK DEF UserStep
  <1>3. CASE SystemTask
    BY <1>3, SystemReceiveOK, SystemValueOK, SystemEndOK, SystemForkOK,
       SystemExecOK, SystemReplyOK, SystemReplyChildOK DEF SystemTask, SystemWork
  <1>4. CASE SerialInput
    BY <1>4, SerialOK
  <1>5. CASE UNCHANGED vars
    BY <1>5 DEF IInv, vars, tableVars, ipcVars, schedVars, sysVars, TableOK, IpcOK,
                SchedOK, IdleLast, SysOK
  <1> QED BY <1>1, <1>2, <1>3, <1>4, <1>5 DEF Next, Halted

THEOREM Inductive == Spec => []IInv
  BY InitOK, StepOK, PTL DEF Spec

\* Every field of the process table, every list pointer and every message keeps
\* its type, whatever calls processes make.
THEOREM TypeCorrect == Spec => []TypeOK
  <1>1. IInv => TypeOK
    BY Constants DEF IInv, TableOK, IpcOK, SchedOK, SysOK, TypeOK, FlagsOK, BufOK,
                     LinksOK, ListInv
  <1> QED BY <1>1, Inductive, PTL

\* The assertion of sched() never fails, whatever calls processes make.
THEOREM AlwaysAProcess == Spec => []SchedNeverNull
  <1>1. IInv => SchedNeverNull
    BY DEF IInv, SchedOK, SchedNeverNull
  <1> QED BY <1>1, Inductive, PTL

\* IDLE runs only when the ready queues are empty, whatever calls processes make.
THEOREM IdleRunsLast == Spec => []IdleLast
  <1>1. IInv => IdleLast
    BY DEF IInv, SchedOK
  <1> QED BY <1>1, Inductive, PTL

\* No enqueue writes through a null tail, whatever calls processes make.
THEOREM TailsNotNull == Spec => []NoNullTail
  <1>1. IInv => NoNullTail
    BY DEF IInv, SchedOK, ListInv, NoNullTail
  <1> QED BY <1>1, Inductive, PTL
-----------------------------------------------------------------------------
(* Processes that use the library.  exec and fork_pid are left out: with them *)
(* the properties below fail. *)

LibraryTypes == {"UPTIME", "PUTC", "GETC", "EXIT", "FORK"}
LibraryOnly  == UserCalls \subseteq {Request(t) : t \in LibraryTypes}

\* The lists of L hold the processes as "at" says.
KeptAt(L, at) == /\ L \in Stores(Proc, Queue)
                 /\ at \in [Proc -> Queue \cup {NULL}]
                 /\ Keeps(L, Proc, Queue, at)

\* Where a process is queued, NULL for nowhere, when c runs and st, fl and pr are
\* the states, the flags and the priorities.
Placed(c, st, fl, pr) ==
    [p \in Proc |-> IF st[p] = "DEAD" THEN FREE
                    ELSE IF p = c \/ fl[p] # {} THEN NULL ELSE pr[p]]
QueuesOK == status = "running" =>
                KeptAt(lists, Placed(current_proc, state, flags, priority))

\* The system task is alone at the top, and what runs can run; the system task
\* does whenever it does not wait, and it waits in its receive only.
RunsOK ==
    status = "running" =>
        /\ Live(current_proc) /\ flags[current_proc] = {}
        /\ flags[SYSTEM] = {} => current_proc = SYSTEM
        /\ flags[SYSTEM] # {} => sys_pc = "dispatch" /\ message[SYSTEM] = SYSTEM
PrioritiesOK ==
    /\ Live(SYSTEM) /\ Live(IDLE)
    /\ priority[SYSTEM] = SYSTEM_PRIORITY
    /\ \A p \in User : Live(p) => priority[p] = USER_PRIORITY

\* No process is linked to a sender queue, and no reply goes to the buffer of
\* the system task.
LinksFree == /\ \A p \in Proc : SENDING \notin flags[p] /\ sender_q[p] = NULL
             /\ \A p \in User : message[p] # SYSTEM

\* Who waits is known from the point the system task has reached.
Waiting == {p \in User : Live(p) /\ flags[p] # {}}
Served ==
    CASE sys_pc = "dispatch" /\ flags[SYSTEM] = {} ->
             IF buf[SYSTEM].type = "PUTC" THEN {} ELSE {buf[SYSTEM].src}
      [] sys_pc = "reply" ->
             IF buf[SYSTEM].type = "FORK" /\ status = "running"
             THEN {who, response} ELSE {who}
      [] sys_pc = "reply_child" -> {response}
      [] OTHER -> {}
RequestOK ==
    /\ sys_pc = "dispatch" /\ flags[SYSTEM] = {} =>
           /\ buf[SYSTEM].src \in User /\ Live(buf[SYSTEM].src)
           /\ buf[SYSTEM].type \in LibraryTypes
    /\ sys_pc = "reply" =>
           /\ buf[SYSTEM].type \in {"UPTIME", "GETC", "FORK"}
           /\ buf[SYSTEM].type = "FORK" /\ status = "running" => response # who

PInv == /\ PrioritiesOK /\ LinksFree /\ RunsOK
        /\ Waiting = Served /\ RequestOK /\ QueuesOK

\* A user process has an image, and may fork.
ImagesOK == \A p \in User : Live(p) => p \in imaged
-----------------------------------------------------------------------------
LEMMA Priorities ==
    /\ SYSTEM_PRIORITY = 0 /\ USER_PRIORITY = 3 /\ IDLE_PRIORITY = 4
    /\ SYSTEM = 0 /\ IDLE = 1 /\ FREE = 5
    /\ ReadyQueue = 0 .. 4 /\ Queue = 0 .. 5
    /\ NULL \notin Queue
    /\ User \subseteq Proc /\ SYSTEM \notin User /\ IDLE \notin User
    /\ Proc = User \cup {SYSTEM, IDLE}
  BY SizeAssumption, NullAssumption
     DEF SYSTEM_PRIORITY, USER_PRIORITY, IDLE_PRIORITY, SYSTEM, IDLE, FREE,
         ReadyQueue, Queue, NUM_QUEUES, User, Tasks, Proc

LEMMA ProcFinite == IsFiniteSet(Proc) /\ Cardinality(Proc) = NUM_PROCS
  <1>1. 0 \in Int /\ NUM_PROCS - 1 \in Int
    BY SizeAssumption
  <1>2. /\ IsFiniteSet(Proc)
        /\ Cardinality(Proc) =
             IF 0 > NUM_PROCS - 1 THEN 0 ELSE (NUM_PROCS - 1) - 0 + 1
    BY <1>1, FS_Interval DEF Proc
  <1> QED BY <1>2, SizeAssumption

\* A flag set is empty or says that the process waits to receive.
LEMMA FlagValues ==
    ASSUME IInv, LinksFree, NEW p \in Proc
    PROVE  flags[p] = {} \/ flags[p] = {RECEIVING}
  <1>1. flags[p] \in SUBSET {SENDING, RECEIVING} /\ SENDING \notin flags[p]
    BY DEF IInv, IpcOK, FlagsOK, LinksFree
  <1> QED BY <1>1

\* The lemmas about lists, for the lists of the kernel.
LEMMA KeptEnqueue ==
    ASSUME NEW L, NEW at, KeptAt(L, at), NEW q \in Queue, NEW p \in Proc, at[p] = NULL
    PROVE  /\ KeptAt(enqueue_tail(L, q, p), [at EXCEPT ![p] = q])
           /\ KeptAt(enqueue_head(L, q, p), [at EXCEPT ![p] = q])
  <1>1. NULL \notin Proc
    BY Constants
  <1>2. NULL \notin Queue
    BY Priorities
  <1>3. L \in Stores(Proc, Queue)
    BY DEF KeptAt
  <1>4. at \in [Proc -> Queue \cup {NULL}]
    BY DEF KeptAt
  <1>5. Keeps(L, Proc, Queue, at)
    BY DEF KeptAt
  <1>6. /\ Keeps(enqueue_tail(L, q, p), Proc, Queue, [at EXCEPT ![p] = q])
        /\ Keeps(enqueue_head(L, q, p), Proc, Queue, [at EXCEPT ![p] = q])
    BY <1>1, <1>2, <1>3, <1>4, <1>5, EnqueueKeeps
  <1>7. enqueue_head(L, q, p) \in Stores(Proc, Queue)
    BY <1>3 DEF enqueue_head, Stores
  <1>8. enqueue_tail(L, q, p) \in Stores(Proc, Queue)
    BY <1>3 DEF enqueue_tail, Stores
  <1>9. [at EXCEPT ![p] = q] \in [Proc -> Queue \cup {NULL}]
    BY <1>4
  <1> QED BY <1>6, <1>7, <1>8, <1>9 DEF KeptAt

LEMMA KeptHead ==
    ASSUME NEW L, NEW at, KeptAt(L, at), NEW q \in Queue
    PROVE  \/ L.head[q] \in Proc /\ at[L.head[q]] = q
           \/ L.head[q] = NULL /\ \A p \in Proc : at[p] # q
  <1>1. NULL \notin Proc
    BY Constants
  <1>2. L \in Stores(Proc, Queue)
    BY DEF KeptAt
  <1>3. at \in [Proc -> Queue \cup {NULL}]
    BY DEF KeptAt
  <1>4. Keeps(L, Proc, Queue, at)
    BY DEF KeptAt
  <1> QED BY <1>1, <1>2, <1>3, <1>4, HeadKept

LEMMA KeptDequeue ==
    ASSUME NEW L, NEW at, KeptAt(L, at), NEW q \in Queue, L.head[q] # NULL
    PROVE  KeptAt(dequeue(L, q), [at EXCEPT ![L.head[q]] = NULL])
  <1>1. NULL \notin Proc
    BY Constants
  <1>2. NULL \notin Queue
    BY Priorities
  <1>3. L \in Stores(Proc, Queue)
    BY DEF KeptAt
  <1>4. at \in [Proc -> Queue \cup {NULL}]
    BY DEF KeptAt
  <1>5. Keeps(L, Proc, Queue, at)
    BY DEF KeptAt
  <1>6. Keeps(dequeue(L, q), Proc, Queue, [at EXCEPT ![L.head[q]] = NULL])
    BY <1>1, <1>2, <1>3, <1>4, <1>5, DequeueKeeps
  <1>7. dequeue(L, q) \in Stores(Proc, Queue)
    BY <1>3 DEF dequeue, Stores
  <1>8. [at EXCEPT ![L.head[q]] = NULL] \in [Proc -> Queue \cup {NULL}]
    BY <1>4
  <1> QED BY <1>6, <1>7, <1>8 DEF KeptAt

\* sched puts the process that ran back where its priority says ...
LEMMA ReinsertedKeeps ==
    ASSUME TableOK, NEW L, NEW at, KeptAt(L, at), NEW fl,
           NEW c \in Proc \cup {NULL}, c # NULL => at[c] = NULL
    PROVE  KeptAt(Reinserted(L, fl, c),
                  IF Accounted(L, fl, c) THEN [at EXCEPT ![c] = priority[c]] ELSE at)
  <1>1. CASE ~Accounted(L, fl, c)
    BY <1>1 DEF Reinserted
  <1>2. CASE Accounted(L, fl, c)
    <2>1. c \in Proc /\ at[c] = NULL /\ priority[c] \in Queue
      BY <1>2, Constants DEF Accounted, TableOK
    <2>2. \/ Reinserted(L, fl, c) = enqueue_head(L, priority[c], c)
          \/ Reinserted(L, fl, c) = enqueue_tail(L, priority[c], c)
      BY <1>2 DEF Reinserted
    <2>3. /\ KeptAt(enqueue_tail(L, priority[c], c), [at EXCEPT ![c] = priority[c]])
          /\ KeptAt(enqueue_head(L, priority[c], c), [at EXCEPT ![c] = priority[c]])
      BY <2>1, KeptEnqueue
    <2> QED BY <1>2, <2>2, <2>3
  <1> QED BY <1>1, <1>2

\* ... and takes the process to run from the first queue that is not empty.
LEMMA PickKeeps ==
    ASSUME NEW R, NEW b, KeptAt(R, b), NonEmpty(R) # {},
           NEW p, p = R.head[TopQueue(R)]
    PROVE  /\ p \in Proc /\ b[p] \in ReadyQueue
           /\ \A r \in Proc : b[r] \in ReadyQueue => b[p] <= b[r]
           /\ KeptAt(dequeue(R, TopQueue(R)), [b EXCEPT ![p] = NULL])
  <1> DEFINE q == TopQueue(R)
  <1>1. q \in ReadyQueue /\ R.head[q] # NULL /\ (\A r \in NonEmpty(R) : q <= r)
    BY TopQueueIsFirst DEF NonEmpty
  <1>2. q \in Queue
    BY <1>1, Constants
  <1>3. \A z \in Queue : \/ R.head[z] \in Proc /\ b[R.head[z]] = z
                         \/ R.head[z] = NULL /\ \A x \in Proc : b[x] # z
    BY KeptHead
  <1> HIDE DEF q
  <1>4. p \in Proc /\ b[p] = q
    BY <1>1, <1>2, <1>3 DEF q
  <1>5. KeptAt(dequeue(R, q), [b EXCEPT ![R.head[q]] = NULL])
    BY <1>1, <1>2, KeptDequeue
  <1>6. ASSUME NEW r \in Proc, b[r] \in ReadyQueue PROVE q <= b[r]
    <2>1. R.head[b[r]] \in Proc
      BY <1>3, <1>6, Constants
    <2>2. b[r] \in NonEmpty(R)
      BY <1>6, <2>1, Constants DEF NonEmpty
    <2> QED BY <1>1, <2>2
  <1> QED BY <1>1, <1>4, <1>5, <1>6 DEF q

LEMMA SchedKeeps ==
    ASSUME TableOK, status = "running", status' = "running",
           NEW L, NEW at, KeptAt(L, at), NEW fl,
           NEW c \in Proc \cup {NULL}, c # NULL => at[c] = NULL,
           sched(L, fl, c),
           NEW b, b = IF Accounted(L, fl, c) THEN [at EXCEPT ![c] = priority[c]]
                      ELSE at
    PROVE  /\ current_proc' \in Proc /\ b[current_proc'] \in ReadyQueue
           /\ \A p \in Proc : b[p] \in ReadyQueue => b[current_proc'] <= b[p]
           /\ KeptAt(lists', [b EXCEPT ![current_proc'] = NULL])
  <1> DEFINE R == Reinserted(L, fl, c)
             q == TopQueue(R)
             p == R.head[q]
  <1>1. KeptAt(R, b)
    BY ReinsertedKeeps
  <1>2. NonEmpty(R) # {}
    BY DEF sched
  <1>3. lists' = dequeue(R, q) /\ current_proc' = p
    BY <1>2 DEF sched
  <1> HIDE DEF R
  <1> QED BY <1>1, <1>2, <1>3, PickKeeps

\* After a call of the scheduler the queues hold every process that is ready, and
\* the one that runs is ready and of the highest priority there is.
LEMMA Rescheduled ==
    ASSUME TableOK, status = "running", SchedOK', priority' = priority,
           NEW L, NEW c \in Proc \cup {NULL}, c # NULL => state'[c] # "DEAD",
           sched(L, flags', c),
           KeptAt(L, Placed(c, state', flags', priority))
    PROVE  /\ status' = "running" /\ current_proc' \in Proc /\ QueuesOK'
           /\ state'[current_proc'] # "DEAD" /\ flags'[current_proc'] = {}
           /\ \A p \in Proc : state'[p] # "DEAD" /\ flags'[p] = {} =>
                                  priority[current_proc'] <= priority[p]
  <1> DEFINE at == Placed(c, state', flags', priority)
             b  == IF Accounted(L, flags', c) THEN [at EXCEPT ![c] = priority[c]]
                   ELSE at
  <1>1. status' = "running"
    BY DEF sched, SchedOK
  <1>2. c # NULL => at[c] = NULL
    BY DEF Placed
  <1>3. \A p \in Proc : b[p] = IF state'[p] = "DEAD" THEN FREE
                               ELSE IF flags'[p] # {} THEN NULL ELSE priority[p]
    BY Constants DEF Placed, Accounted
  <1>4. /\ current_proc' \in Proc /\ b[current_proc'] \in ReadyQueue
        /\ \A p \in Proc : b[p] \in ReadyQueue => b[current_proc'] <= b[p]
        /\ KeptAt(lists', [b EXCEPT ![current_proc'] = NULL])
    <2>1. KeptAt(L, at)
      OBVIOUS
    <2> HIDE DEF at
    <2> QED BY <1>1, <1>2, <2>1, SchedKeeps
  <1>5. FREE \notin ReadyQueue /\ NULL \notin ReadyQueue
    BY Constants, Priorities
  <1>6. /\ state'[current_proc'] # "DEAD" /\ flags'[current_proc'] = {}
        /\ b[current_proc'] = priority[current_proc']
    BY <1>3, <1>4, <1>5
  <1>7. ASSUME NEW p \in Proc, state'[p] # "DEAD", flags'[p] = {}
        PROVE  priority[current_proc'] <= priority[p]
    <2>1. b[p] = priority[p] /\ priority[p] \in ReadyQueue
      BY <1>3, <1>7 DEF TableOK
    <2> QED BY <1>4, <1>6, <2>1
  <1>8. Placed(current_proc', state', flags', priority)
          = [b EXCEPT ![current_proc'] = NULL]
    <2>1. b \in [Proc -> Queue \cup {NULL}]
      <3>1. at \in [Proc -> Queue \cup {NULL}]
        BY DEF KeptAt
      <3> QED BY <3>1, Constants DEF TableOK
    <2>2. \A p \in Proc : [b EXCEPT ![current_proc'] = NULL][p] =
                              IF p = current_proc' THEN NULL ELSE b[p]
      BY <2>1
    <2> HIDE DEF b
    <2> QED BY <1>3, <1>4, <1>6, <2>1, <2>2 DEF Placed
  <1> QED BY <1>1, <1>4, <1>6, <1>7, <1>8 DEF QueuesOK

\* Hence the system task runs when it can.
LEMMA SchedStep ==
    ASSUME IInv, IInv', status = "running", priority' = priority, PrioritiesOK',
           NEW L, NEW c \in Proc \cup {NULL}, c # NULL => state'[c] # "DEAD",
           sched(L, flags', c),
           KeptAt(L, Placed(c, state', flags', priority)),
           flags'[SYSTEM] # {} => sys_pc' = "dispatch" /\ message'[SYSTEM] = SYSTEM
    PROVE  RunsOK' /\ QueuesOK' /\ status' = "running"
  <1>1. TableOK /\ SchedOK' /\ TableOK'
    BY DEF IInv
  <1>2. /\ status' = "running" /\ current_proc' \in Proc /\ QueuesOK'
        /\ state'[current_proc'] # "DEAD" /\ flags'[current_proc'] = {}
        /\ \A p \in Proc : state'[p] # "DEAD" /\ flags'[p] = {} =>
                               priority[current_proc'] <= priority[p]
    BY <1>1, Rescheduled
  <1>3. ASSUME flags'[SYSTEM] = {} PROVE current_proc' = SYSTEM
    <2>1. priority[current_proc'] <= priority[SYSTEM]
      BY <1>2, <1>3, Constants DEF PrioritiesOK, Live
    <2>2. priority[SYSTEM] = 0 /\ priority[IDLE] = 4
      BY <1>1, Priorities DEF PrioritiesOK, TableOK
    <2>3. \A p \in User : state'[p] # "DEAD" => priority[p] = 3
      BY Priorities DEF PrioritiesOK, Live
    <2> QED BY <1>2, <2>1, <2>2, <2>3, Priorities
  <1> QED BY <1>2, <1>3 DEF RunsOK, Live

\* The timer: nothing but the queues and the running process changes.
LEMMA TimerKeeps == IInv /\ IInv' /\ PInv /\ timer_handler => PInv'
  <1> SUFFICES ASSUME IInv, IInv', PInv, timer_handler PROVE PInv'
    OBVIOUS
  <1>1. /\ status = "running" /\ sched(lists, flags', current_proc)
        /\ UNCHANGED <<state, priority, flags, sender_q, message, buf, sys_pc, who,
                       response>>
    BY DEF timer_handler, tableVars, ipcVars, sysVars
  <1>2. current_proc \in Proc /\ state'[current_proc] # "DEAD"
    BY <1>1 DEF PInv, RunsOK, Live, IInv, SchedOK
  <1>3. PrioritiesOK' /\ LinksFree'
    BY <1>1 DEF PInv, PrioritiesOK, LinksFree, Live
  <1>4. KeptAt(lists, Placed(current_proc, state', flags', priority))
    BY <1>1 DEF PInv, QueuesOK
  <1>5. flags'[SYSTEM] # {} => sys_pc' = "dispatch" /\ message'[SYSTEM] = SYSTEM
    BY <1>1 DEF PInv, RunsOK
  <1>6. RunsOK' /\ QueuesOK' /\ status' = "running"
    BY <1>1, <1>2, <1>3, <1>4, <1>5, SchedStep
  <1>7. Waiting' = Served' /\ RequestOK'
    BY <1>1, <1>6 DEF PInv, Waiting, Served, RequestOK, Live
  <1> QED BY <1>3, <1>6, <1>7 DEF PInv
-----------------------------------------------------------------------------
(* A request, and the answer to it. *)

LEMMA GetLive == \A p \in Proc : Live(p) => get_proc(p) = p
  BY DEF get_proc, Live

\* A process that runs finds the system task waiting: its request is delivered at
\* once, and wakes the system task.
LEMMA RequestEffect ==
    ASSUME IInv, PInv, NEW c \in User, NEW t \in LibraryTypes, UserCall(c, Request(t))
    PROVE  /\ status = "running" /\ current_proc = c
           /\ sys_pc = "dispatch" /\ flags[SYSTEM] = {RECEIVING}
           /\ message' = [message EXCEPT ![c] = c]
           /\ flags' = [flags EXCEPT ![SYSTEM] = {},
                                     ![c] = IF t = "PUTC" THEN {} ELSE {RECEIVING}]
           /\ buf'[SYSTEM] = [src |-> c, type |-> t, i1 |-> NULL]
           /\ UNCHANGED <<sender_q, state, priority, sys_pc, who, response>>
           /\ sched(enqueue_head(lists, priority[SYSTEM], SYSTEM), flags', c)
  <1> DEFINE m  == [src |-> c, type |-> t, i1 |-> NULL]
             b  == [buf EXCEPT ![c] = [m EXCEPT !.src = c]]
             fl == IF t = "PUTC" THEN flags
                   ELSE [flags EXCEPT ![c] = @ \cup {RECEIVING}]
  <1>1. status = "running" /\ current_proc = c /\ c \in Proc /\ c # SYSTEM
    BY Priorities DEF UserCall, Running
  <1>2. flags[c] = {} /\ flags[SYSTEM] # {} /\ sys_pc = "dispatch"
        /\ message[SYSTEM] = SYSTEM
    BY <1>1 DEF PInv, RunsOK
  <1>3. flags[SYSTEM] = {RECEIVING}
    BY <1>2, FlagValues, Constants DEF PInv
  <1>4. get_proc(SYSTEM) = SYSTEM /\ SYSTEM # NULL
    BY GetLive, Constants DEF PInv, PrioritiesOK
  <1>5. wini_send(c, SYSTEM, fl, b)
    BY DEF UserCall, syscall_handler, Request, LibraryTypes
  <1>6. flags \in [Proc -> SUBSET {SENDING, RECEIVING}]
    BY DEF IInv, IpcOK, FlagsOK
  <1>7. /\ fl = [flags EXCEPT ![c] = IF t = "PUTC" THEN {} ELSE {RECEIVING}]
        /\ fl[SYSTEM] = {RECEIVING}
    <2>1. CASE t = "PUTC"
      <3>1. flags = [flags EXCEPT ![c] = {}]
        BY <1>1, <1>2, <1>6
      <3> QED BY <1>3, <2>1, <3>1
    <2>2. CASE t # "PUTC"
      <3>1. flags[c] \cup {RECEIVING} = {RECEIVING}
        BY <1>2
      <3>2. fl = [flags EXCEPT ![c] = flags[c] \cup {RECEIVING}]
        BY <2>2
      <3>3. fl = [flags EXCEPT ![c] = {RECEIVING}]
        BY <3>1, <3>2
      <3> QED BY <1>1, <1>3, <1>6, <2>2, <3>3
    <2> QED BY <2>1, <2>2
  <1> HIDE DEF fl, b
  <1>8. Deliver(c, SYSTEM, fl, b) /\ message' = [message EXCEPT ![c] = c]
    BY <1>4, <1>5, <1>7 DEF wini_send
  <1>9. message'[SYSTEM] = SYSTEM
    BY <1>1, <1>2, <1>8
  <1>10. b = [x \in Proc |-> IF x = c THEN m ELSE buf[x]]
    <2>1. [m EXCEPT !.src = c] = m
      OBVIOUS
    <2>2. b = [buf EXCEPT ![c] = m]
      BY <2>1 DEF b
    <2> HIDE DEF m
    <2> QED BY <1>1, <2>2 DEF IInv, IpcOK, BufOK
  <1>11. buf'[SYSTEM] = m
    BY <1>1, <1>8, <1>9, <1>10, Constants DEF Deliver
  <1>12. flags' = [flags EXCEPT ![SYSTEM] = {},
                                ![c] = IF t = "PUTC" THEN {} ELSE {RECEIVING}]
    <2>1. flags' = [fl EXCEPT ![SYSTEM] = fl[SYSTEM] \ {RECEIVING}]
      BY <1>8 DEF Deliver
    <2>2. fl[SYSTEM] \ {RECEIVING} = {}
      BY <1>7
    <2> DEFINE v == IF t = "PUTC" THEN {} ELSE {RECEIVING}
    <2>3. fl = [flags EXCEPT ![c] = v]
      BY <1>7
    <2> HIDE DEF v
    <2>4. flags' = [flags EXCEPT ![SYSTEM] = {}, ![c] = v]
      BY <1>1, <1>6, <2>1, <2>2, <2>3, Constants
    <2> QED BY <2>4 DEF v
  <1>13. UNCHANGED <<sender_q, state, priority, sys_pc, who, response>>
    BY <1>8 DEF Deliver, UserCall, tableVars, sysVars
  <1> QED BY <1>1, <1>2, <1>3, <1>8, <1>11, <1>12, <1>13 DEF Deliver

LEMMA RequestKeeps ==
    ASSUME IInv, IInv', PInv, NEW c \in User, NEW t \in LibraryTypes,
           UserCall(c, Request(t))
    PROVE  PInv'
  <1> DEFINE at == Placed(c, state, flags, priority)
             L  == enqueue_head(lists, priority[SYSTEM], SYSTEM)
  <1>1. /\ status = "running" /\ current_proc = c
        /\ sys_pc = "dispatch" /\ flags[SYSTEM] = {RECEIVING}
        /\ message' = [message EXCEPT ![c] = c]
        /\ flags' = [flags EXCEPT ![SYSTEM] = {},
                                  ![c] = IF t = "PUTC" THEN {} ELSE {RECEIVING}]
        /\ buf'[SYSTEM] = [src |-> c, type |-> t, i1 |-> NULL]
        /\ UNCHANGED <<sender_q, state, priority, sys_pc, who, response>>
        /\ sched(L, flags', c)
    BY RequestEffect
  <1>2. /\ c \in Proc /\ c # SYSTEM /\ SYSTEM \in Proc
        /\ Live(c) /\ flags[c] = {} /\ Live(SYSTEM)
    BY <1>1, Priorities, Constants DEF PInv, RunsOK, PrioritiesOK
  <1>3. /\ flags \in [Proc -> SUBSET {SENDING, RECEIVING}]
        /\ message \in [Proc -> Proc \cup {NULL}]
    BY DEF IInv, IpcOK, FlagsOK, LinksOK
  <1>4. /\ flags'[SYSTEM] = {}
        /\ flags'[c] = IF t = "PUTC" THEN {} ELSE {RECEIVING}
        /\ \A p \in Proc \ {c, SYSTEM} : flags'[p] = flags[p]
    BY <1>1, <1>2, <1>3
  <1>5. PrioritiesOK'
    BY <1>1 DEF PInv, PrioritiesOK, Live
  <1>6. LinksFree'
    <2>1. \A p \in Proc : SENDING \notin flags'[p]
      BY <1>4 DEF PInv, LinksFree, SENDING, RECEIVING
    <2>2. \A p \in User : message'[p] # SYSTEM
      BY <1>1, <1>2, <1>3, Priorities DEF PInv, LinksFree
    <2> QED BY <1>1, <2>1, <2>2 DEF PInv, LinksFree
  <1>7. KeptAt(L, Placed(c, state', flags', priority))
    <2>1. KeptAt(lists, at)
      BY <1>1 DEF PInv, QueuesOK
    <2>2. at[SYSTEM] = NULL
      BY <1>1, <1>2 DEF Placed, Live
    <2>3. priority[SYSTEM] \in Queue
      BY <1>2, Constants DEF IInv, TableOK
    <2>4. KeptAt(L, [at EXCEPT ![SYSTEM] = priority[SYSTEM]])
      <3> HIDE DEF at
      <3> QED BY <1>2, <2>1, <2>2, <2>3, KeptEnqueue
    <2>5. [at EXCEPT ![SYSTEM] = priority[SYSTEM]]
            = Placed(c, state', flags', priority)
      BY <1>1, <1>2, <1>4 DEF Placed, Live
    <2> QED BY <2>4, <2>5
  <1>8. RunsOK' /\ QueuesOK' /\ status' = "running"
    <2>1. c \in Proc \cup {NULL} /\ (c # NULL => state'[c] # "DEAD")
      BY <1>1, <1>2 DEF Live
    <2>2. priority' = priority
      BY <1>1
    <2>3. flags'[SYSTEM] # {} => sys_pc' = "dispatch" /\ message'[SYSTEM] = SYSTEM
      BY <1>4
    <2> HIDE DEF L
    <2> QED BY <1>1, <1>5, <1>7, <2>1, <2>2, <2>3, SchedStep
  <1>9. Waiting' = Served'
    <2>1. Waiting = {}
      BY <1>1 DEF PInv, Served
    <2>2. \A p \in User : Live(p)' /\ flags'[p] # {} <=> p = c /\ t # "PUTC"
      BY <1>1, <1>2, <1>4, <2>1, Priorities DEF Waiting, Live
    <2>3. Waiting' = IF t = "PUTC" THEN {} ELSE {c}
      BY <2>2 DEF Waiting
    <2>4. Served' = IF t = "PUTC" THEN {} ELSE {c}
      BY <1>1, <1>4 DEF Served
    <2> QED BY <2>3, <2>4
  <1>10. RequestOK'
    BY <1>1, <1>2 DEF RequestOK, Live
  <1> QED BY <1>5, <1>6, <1>8, <1>9, <1>10 DEF PInv

\* The answer to a process that waits is delivered at once: it wakes the process,
\* goes past the buffer of the system task, and the system task runs on.
LEMMA ReplyEffect ==
    ASSUME IInv, PInv, Running(SYSTEM), NEW d \in Waiting, NEW m \in message_t,
           syscall_handler(SYSTEM, "SEND", d, m)
    PROVE  /\ d \in Proc /\ d # SYSTEM /\ Live(d) /\ flags[d] = {RECEIVING}
           /\ flags' = [flags EXCEPT ![d] = {}]
           /\ message' = [message EXCEPT ![SYSTEM] = SYSTEM]
           /\ buf'[SYSTEM] = [m EXCEPT !.src = SYSTEM]
           /\ UNCHANGED sender_q
           /\ sched(enqueue_head(lists, priority[d], d), flags', SYSTEM)
  <1> DEFINE b == [buf EXCEPT ![SYSTEM] = [m EXCEPT !.src = SYSTEM]]
  <1>1. d \in Proc /\ d # SYSTEM /\ Live(d) /\ d \in User /\ SYSTEM \in Proc
    BY Priorities, Constants DEF Waiting
  <1>2. flags[d] = {RECEIVING}
    BY <1>1, FlagValues DEF Waiting, PInv
  <1>3. get_proc(d) = d /\ d # NULL
    BY <1>1, GetLive, Constants
  <1>4. wini_send(SYSTEM, d, flags, b)
    BY DEF syscall_handler
  <1> HIDE DEF b
  <1>5. Deliver(SYSTEM, d, flags, b) /\ message' = [message EXCEPT ![SYSTEM] = SYSTEM]
    BY <1>2, <1>3, <1>4 DEF wini_send
  <1>6. message'[d] # SYSTEM
    BY <1>1, <1>5 DEF PInv, LinksFree
  <1>7. buf'[SYSTEM] = b[SYSTEM]
    BY <1>5, <1>6 DEF Deliver
  <1>8. b[SYSTEM] = [m EXCEPT !.src = SYSTEM]
    BY <1>1 DEF b, IInv, IpcOK, BufOK
  <1>9. flags' = [flags EXCEPT ![d] = {}]
    <2>1. flags' = [flags EXCEPT ![d] = flags[d] \ {RECEIVING}]
      BY <1>5 DEF Deliver
    <2>2. flags[d] \ {RECEIVING} = {}
      BY <1>2
    <2> QED BY <2>1, <2>2
  <1> QED BY <1>1, <1>2, <1>5, <1>7, <1>8, <1>9 DEF Deliver

LEMMA ReplyKeeps ==
    ASSUME IInv, IInv', PInv, Running(SYSTEM), NEW d \in Waiting, NEW m \in message_t,
           syscall_handler(SYSTEM, "SEND", d, m), UNCHANGED <<state, priority>>
    PROVE  /\ PrioritiesOK' /\ LinksFree' /\ RunsOK' /\ QueuesOK'
           /\ status' = "running" /\ flags'[SYSTEM] = {}
           /\ Waiting' = Waiting \ {d}
           /\ buf'[SYSTEM] = [m EXCEPT !.src = SYSTEM]
  <1> DEFINE at == Placed(SYSTEM, state, flags, priority)
             L  == enqueue_head(lists, priority[d], d)
  <1>1. /\ d \in Proc /\ d # SYSTEM /\ Live(d) /\ flags[d] = {RECEIVING}
        /\ flags' = [flags EXCEPT ![d] = {}]
        /\ message' = [message EXCEPT ![SYSTEM] = SYSTEM]
        /\ buf'[SYSTEM] = [m EXCEPT !.src = SYSTEM]
        /\ UNCHANGED sender_q
        /\ sched(L, flags', SYSTEM)
    BY ReplyEffect
  <1>2. /\ status = "running" /\ current_proc = SYSTEM /\ flags[SYSTEM] = {}
        /\ SYSTEM \in Proc /\ Live(SYSTEM)
    BY Constants DEF Running, PInv, RunsOK
  <1>3. /\ flags \in [Proc -> SUBSET {SENDING, RECEIVING}]
        /\ message \in [Proc -> Proc \cup {NULL}]
    BY DEF IInv, IpcOK, FlagsOK, LinksOK
  <1>4. flags'[d] = {} /\ \A p \in Proc \ {d} : flags'[p] = flags[p]
    BY <1>1, <1>3
  <1>5. PrioritiesOK'
    BY DEF PInv, PrioritiesOK, Live
  <1>6. LinksFree'
    <2>1. \A p \in Proc : SENDING \notin flags'[p]
      BY <1>4 DEF PInv, LinksFree
    <2>2. \A p \in User : message'[p] # SYSTEM
      BY <1>1, <1>3, Priorities DEF PInv, LinksFree
    <2> QED BY <1>1, <2>1, <2>2 DEF PInv, LinksFree
  <1>7. KeptAt(L, Placed(SYSTEM, state', flags', priority))
    <2>1. KeptAt(lists, at)
      BY <1>2 DEF PInv, QueuesOK
    <2>2. at[d] = NULL
      BY <1>1 DEF Placed, Live
    <2>3. priority[d] \in Queue
      BY <1>1, Constants DEF IInv, TableOK
    <2>4. KeptAt(L, [at EXCEPT ![d] = priority[d]])
      <3> HIDE DEF at
      <3> QED BY <1>1, <2>1, <2>2, <2>3, KeptEnqueue
    <2>5. [at EXCEPT ![d] = priority[d]] = Placed(SYSTEM, state', flags', priority)
      BY <1>1, <1>4 DEF Placed, Live
    <2> QED BY <2>4, <2>5
  <1>8. flags'[SYSTEM] = {}
    BY <1>1, <1>2, <1>4
  <1>9. RunsOK' /\ QueuesOK' /\ status' = "running"
    <2>1. SYSTEM \in Proc \cup {NULL} /\ (SYSTEM # NULL => state'[SYSTEM] # "DEAD")
      BY <1>2 DEF Live
    <2>2. priority' = priority
      OBVIOUS
    <2>3. flags'[SYSTEM] # {} => sys_pc' = "dispatch" /\ message'[SYSTEM] = SYSTEM
      BY <1>8
    <2> HIDE DEF L
    <2> QED BY <1>1, <1>2, <1>5, <1>7, <2>1, <2>2, <2>3, SchedStep
  <1>10. Waiting' = Waiting \ {d}
    BY <1>1, <1>4, Priorities DEF Waiting, Live
  <1> QED BY <1>1, <1>5, <1>6, <1>8, <1>9, <1>10

LEMMA SystemReplyKeeps == IInv /\ IInv' /\ PInv /\ SystemReply => PInv'
  <1> SUFFICES ASSUME IInv, IInv', PInv, SystemReply PROVE PInv'
    OBVIOUS
  <1>1. /\ Running(SYSTEM) /\ sys_pc = "reply" /\ status = "running"
        /\ syscall_handler(SYSTEM, "SEND", who, buf[SYSTEM])
        /\ UNCHANGED <<state, priority, who, response>>
    BY DEF SystemReply, Running, tableVars
  <1>2. /\ buf[SYSTEM].type \in {"UPTIME", "GETC", "FORK"}
        /\ buf[SYSTEM].type = "FORK" => response # who
        /\ Waiting = IF buf[SYSTEM].type = "FORK" THEN {who, response} ELSE {who}
    BY <1>1 DEF PInv, RequestOK, Served
  <1>3. who \in Waiting
    BY <1>2
  <1>4. buf[SYSTEM] \in message_t
    BY Constants DEF IInv, IpcOK, BufOK
  <1>5. /\ PrioritiesOK' /\ LinksFree' /\ RunsOK' /\ QueuesOK'
        /\ status' = "running" /\ flags'[SYSTEM] = {}
        /\ Waiting' = Waiting \ {who}
    BY <1>1, <1>3, <1>4, ReplyKeeps
  <1>6. sys_pc' = IF buf[SYSTEM].type = "FORK" THEN "reply_child" ELSE "receive"
    BY <1>2 DEF SystemReply
  <1>7. Waiting' = IF buf[SYSTEM].type = "FORK" THEN {response} ELSE {}
    BY <1>2, <1>5
  <1>8. Served' = IF buf[SYSTEM].type = "FORK" THEN {response} ELSE {}
    BY <1>1, <1>6 DEF Served
  <1>9. RequestOK'
    BY <1>6 DEF RequestOK
  <1> QED BY <1>5, <1>7, <1>8, <1>9 DEF PInv

LEMMA SystemReplyChildKeeps == IInv /\ IInv' /\ PInv /\ SystemReplyChild => PInv'
  <1> SUFFICES ASSUME IInv, IInv', PInv, SystemReplyChild PROVE PInv'
    OBVIOUS
  <1> DEFINE m == [buf[SYSTEM] EXCEPT !.i1 = 0]
  <1>1. /\ Running(SYSTEM) /\ sys_pc = "reply_child" /\ status = "running"
        /\ syscall_handler(SYSTEM, "SEND", response, m)
        /\ UNCHANGED <<state, priority, who, response>> /\ sys_pc' = "receive"
    BY DEF SystemReplyChild, Running, tableVars
  <1>2. Waiting = {response} /\ response \in Waiting
    BY <1>1 DEF PInv, Served
  <1>3. m \in message_t
    <2>1. 0 \in MsgValue
      BY SizeAssumption DEF MsgValue
    <2> QED BY <2>1, Constants DEF IInv, IpcOK, BufOK, message_t
  <1> HIDE DEF m
  <1>4. /\ PrioritiesOK' /\ LinksFree' /\ RunsOK' /\ QueuesOK'
        /\ status' = "running" /\ flags'[SYSTEM] = {}
        /\ Waiting' = Waiting \ {response}
    BY <1>1, <1>2, <1>3, ReplyKeeps
  <1>5. Waiting' = {} /\ Served' = {}
    BY <1>1, <1>2, <1>4 DEF Served
  <1>6. RequestOK'
    BY <1>1 DEF RequestOK
  <1> QED BY <1>4, <1>5, <1>6 DEF PInv

\* Nobody is linked to the system task: its receive blocks it.
LEMMA SystemReceiveKeeps == IInv /\ IInv' /\ PInv /\ SystemReceive => PInv'
  <1> SUFFICES ASSUME IInv, IInv', PInv, SystemReceive PROVE PInv'
    OBVIOUS
  <1> DEFINE b == [buf EXCEPT ![SYSTEM] = [NoMessage(SYSTEM) EXCEPT !.src = SYSTEM]]
  <1>1. /\ status = "running" /\ current_proc = SYSTEM /\ flags[SYSTEM] = {}
        /\ SYSTEM \in Proc /\ Live(SYSTEM) /\ sys_pc = "receive"
        /\ sys_pc' = "dispatch" /\ UNCHANGED <<state, priority>>
    BY Constants DEF SystemReceive, Running, PInv, RunsOK, tableVars
  <1>2. /\ wini_receive(SYSTEM, b)
        /\ sender_q[SYSTEM] = NULL
    BY <1>1 DEF SystemReceive, syscall_handler, PInv, LinksFree
  <1> HIDE DEF b
  <1>3. /\ message' = [message EXCEPT ![SYSTEM] = SYSTEM]
        /\ flags' = [flags EXCEPT ![SYSTEM] = flags[SYSTEM] \cup {RECEIVING}]
        /\ sender_q' = sender_q
        /\ sched(lists, flags', SYSTEM)
    BY <1>2 DEF wini_receive
  <1>4. /\ flags \in [Proc -> SUBSET {SENDING, RECEIVING}]
        /\ message \in [Proc -> Proc \cup {NULL}]
    BY DEF IInv, IpcOK, FlagsOK, LinksOK
  <1>5. /\ flags'[SYSTEM] = {RECEIVING} /\ message'[SYSTEM] = SYSTEM
        /\ \A p \in Proc \ {SYSTEM} : flags'[p] = flags[p] /\ message'[p] = message[p]
    BY <1>1, <1>3, <1>4
  <1>6. PrioritiesOK'
    BY <1>1 DEF PInv, PrioritiesOK, Live
  <1>7. LinksFree'
    <2>1. \A p \in Proc : SENDING \notin flags'[p]
      BY <1>5 DEF PInv, LinksFree, SENDING, RECEIVING
    <2>2. \A p \in User : message'[p] # SYSTEM
      BY <1>5, Priorities DEF PInv, LinksFree
    <2> QED BY <1>3, <2>1, <2>2 DEF PInv, LinksFree
  <1>8. KeptAt(lists, Placed(SYSTEM, state', flags', priority))
    <2>1. KeptAt(lists, Placed(SYSTEM, state, flags, priority))
      BY <1>1 DEF PInv, QueuesOK
    <2>2. Placed(SYSTEM, state', flags', priority)
            = Placed(SYSTEM, state, flags, priority)
      BY <1>1, <1>5 DEF Placed
    <2> QED BY <2>1, <2>2
  <1>9. RunsOK' /\ QueuesOK' /\ status' = "running"
    <2>1. SYSTEM \in Proc \cup {NULL} /\ (SYSTEM # NULL => state'[SYSTEM] # "DEAD")
      BY <1>1 DEF Live
    <2>2. priority' = priority
      BY <1>1
    <2>3. flags'[SYSTEM] # {} => sys_pc' = "dispatch" /\ message'[SYSTEM] = SYSTEM
      BY <1>1, <1>5
    <2> QED BY <1>1, <1>3, <1>6, <1>8, <2>1, <2>2, <2>3, SchedStep
  <1>10. Waiting' = Served' /\ RequestOK'
    <2>1. Waiting = {}
      BY <1>1 DEF PInv, Served
    <2>2. Waiting' = {}
      BY <1>1, <1>5, <2>1, Priorities DEF Waiting, Live
    <2>3. Served' = {} /\ RequestOK'
      BY <1>1, <1>5 DEF Served, RequestOK
    <2> QED BY <2>2, <2>3
  <1> QED BY <1>6, <1>7, <1>9, <1>10 DEF PInv
\* A fault kills the process that runs, which is on no list, waits for nobody and
\* is waited for by nobody.
LEMMA FaultKeeps ==
    ASSUME IInv, IInv', PInv, NEW c \in User, fault_handler(c)
    PROVE  PInv'
  <1> DEFINE L == enqueue_tail(lists, FREE, c)
             at == Placed(c, state, flags, priority)
  <1>1. /\ status = "running" /\ current_proc = c
        /\ state' = [state EXCEPT ![c] = "DEAD"]
        /\ sched(L, flags', NULL)
        /\ UNCHANGED <<priority, flags, sender_q, message, buf, sys_pc, who, response>>
    BY DEF fault_handler, Running, ipcVars, sysVars
  <1>2. /\ c \in Proc /\ c # SYSTEM /\ c # IDLE /\ SYSTEM \in Proc /\ IDLE \in Proc
        /\ Live(c) /\ flags[c] = {} /\ flags[SYSTEM] # {}
    BY <1>1, Priorities, Constants DEF PInv, RunsOK
  <1>3. state'[c] = "DEAD" /\ \A p \in Proc \ {c} : state'[p] = state[p]
    BY <1>1, <1>2 DEF IInv, TableOK
  <1>4. PrioritiesOK'
    BY <1>1, <1>2, <1>3, Priorities DEF PInv, PrioritiesOK, Live
  <1>5. LinksFree'
    BY <1>1 DEF PInv, LinksFree
  <1>6. KeptAt(L, Placed(NULL, state', flags', priority))
    <2>1. KeptAt(lists, at)
      BY <1>1 DEF PInv, QueuesOK
    <2>2. at[c] = NULL
      BY <1>2 DEF Placed, Live
    <2>3. KeptAt(L, [at EXCEPT ![c] = FREE])
      <3> HIDE DEF at
      <3> QED BY <1>2, <2>1, <2>2, KeptEnqueue, Constants
    <2>4. [at EXCEPT ![c] = FREE] = Placed(NULL, state', flags', priority)
      BY <1>1, <1>2, <1>3, Constants DEF Placed, Live
    <2> QED BY <2>3, <2>4
  <1>7. RunsOK' /\ QueuesOK' /\ status' = "running"
    <2>1. priority' = priority
      BY <1>1
    <2>2. flags'[SYSTEM] # {} => sys_pc' = "dispatch" /\ message'[SYSTEM] = SYSTEM
      BY <1>1, <1>2 DEF PInv, RunsOK
    <2>3. NULL \in Proc \cup {NULL} /\ (NULL # NULL => state'[NULL] # "DEAD")
      OBVIOUS
    <2> HIDE DEF L
    <2> QED BY <1>1, <1>4, <1>6, <2>1, <2>2, <2>3, SchedStep
  <1>8. Waiting' = Served' /\ RequestOK'
    <2>1. sys_pc = "dispatch"
      BY <1>1, <1>2 DEF PInv, RunsOK
    <2>2. Waiting = {}
      BY <1>2, <2>1 DEF PInv, Served
    <2>3. Waiting' = {}
      BY <1>1, <1>3, <2>2, Priorities DEF Waiting, Live
    <2>4. Served' = {} /\ RequestOK'
      BY <1>1, <1>2, <2>1 DEF Served, RequestOK
    <2> QED BY <2>3, <2>4
  <1> QED BY <1>4, <1>5, <1>7, <1>8 DEF PInv
-----------------------------------------------------------------------------
(* What the system task does between two calls of the kernel. *)

\* The request being served comes from a process that waits for the answer, if the
\* request has one.
LEMMA Handling ==
    ASSUME IInv, PInv, NEW types, Handles(types)
    PROVE  /\ status = "running" /\ current_proc = SYSTEM /\ flags[SYSTEM] = {}
           /\ sys_pc = "dispatch" /\ who' = buf[SYSTEM].src
           /\ buf[SYSTEM].type \in types \cap LibraryTypes
           /\ who' \in User /\ Live(who')
           /\ Waiting = IF buf[SYSTEM].type = "PUTC" THEN {} ELSE {who'}
  BY DEF Handles, Running, PInv, RunsOK, RequestOK, Served

\* A step that leaves the processes and the lists alone.
LEMMA SameProcesses ==
    ASSUME PInv, UNCHANGED <<state, priority, flags, sender_q, message, lists,
                             current_proc, status>>
    PROVE  PrioritiesOK' /\ LinksFree' /\ QueuesOK' /\ Waiting' = Waiting
  BY DEF PInv, PrioritiesOK, LinksFree, QueuesOK, Waiting, Live

LEMMA ValueKeeps ==
    IInv /\ PInv /\ (SystemValue \/ SystemGetc \/ SystemNoReply) => PInv'
  <1> SUFFICES ASSUME IInv, PInv, SystemValue \/ SystemGetc \/ SystemNoReply
               PROVE  PInv'
    OBVIOUS
  <1>1. UNCHANGED <<state, priority, flags, sender_q, message, lists, current_proc,
                    status>>
    BY DEF SystemValue, SystemGetc, SystemNoReply, tableVars, ipcVars, schedVars
  <1>2. PrioritiesOK' /\ LinksFree' /\ QueuesOK' /\ Waiting' = Waiting
    BY <1>1, SameProcesses
  <1>3. CASE SystemNoReply
    <2>1. Handles({"PUTC"}) /\ sys_pc' = "receive" /\ UNCHANGED buf
      BY <1>3 DEF SystemNoReply, ipcVars
    <2>2. /\ flags[SYSTEM] = {} /\ current_proc = SYSTEM /\ Waiting = {}
      BY <2>1, Handling
    <2>3. RunsOK' /\ Served' = {} /\ RequestOK'
      BY <1>1, <2>1, <2>2 DEF PInv, RunsOK, Served, RequestOK, Live
    <2> QED BY <1>2, <2>2, <2>3 DEF PInv
  <1>4. CASE SystemValue \/ SystemGetc
    <2>1. /\ Handles({"UPTIME"}) \/ Handles({"GETC"})
          /\ sys_pc' = "reply" /\ buf' = [buf EXCEPT ![SYSTEM].i1 = NULL]
      BY <1>4 DEF SystemValue, SystemGetc
    <2>2. /\ flags[SYSTEM] = {} /\ current_proc = SYSTEM /\ Waiting = {who'}
          /\ buf[SYSTEM].type \in {"UPTIME", "GETC"}
      BY <2>1, Handling
    <2>3. buf'[SYSTEM].type = buf[SYSTEM].type
      BY <2>1, Constants DEF IInv, IpcOK, BufOK, message_t
    <2>4. RunsOK' /\ Served' = {who'} /\ RequestOK'
      BY <1>1, <2>1, <2>2, <2>3 DEF PInv, RunsOK, Served, RequestOK, Live
    <2> QED BY <1>2, <2>2, <2>4 DEF PInv
  <1> QED BY <1>3, <1>4

\* exit: the process that ends waits in its sendrec, so it is on no list.
LEMMA EndKeeps == IInv /\ PInv /\ SystemEnd => PInv'
  <1> SUFFICES ASSUME IInv, PInv, SystemEnd PROVE PInv'
    OBVIOUS
  <1> DEFINE at == Placed(SYSTEM, state, flags, priority)
  <1>1. /\ Handles({"EXIT", "UNKNOWN", "NONE"}) /\ sys_pc' = "receive"
        /\ state' = [state EXCEPT ![who'] = "DEAD"]
        /\ lists' = enqueue_tail(lists, FREE, who')
        /\ UNCHANGED <<priority, flags, sender_q, message, buf, current_proc, status>>
    BY DEF SystemEnd, ipcVars
  <1>2. PICK p \in User : p = who'
    BY <1>1, Handling
  <1>3. /\ status = "running" /\ current_proc = SYSTEM /\ flags[SYSTEM] = {}
        /\ Live(p) /\ Waiting = {p} /\ flags[p] # {}
        /\ p \in Proc /\ p # SYSTEM /\ p # IDLE /\ SYSTEM \in Proc /\ IDLE \in Proc
    <2>1. buf[SYSTEM].type # "PUTC"
      BY <1>1, Handling
    <2>2. /\ status = "running" /\ current_proc = SYSTEM /\ flags[SYSTEM] = {}
          /\ Live(p) /\ Waiting = {p}
      BY <1>1, <1>2, <2>1, Handling
    <2>3. p \in Waiting
      BY <2>2
    <2> QED BY <2>2, <2>3, Priorities, Constants DEF Waiting
  <1>4. state'[p] = "DEAD" /\ \A r \in Proc \ {p} : state'[r] = state[r]
    BY <1>1, <1>2, <1>3 DEF IInv, TableOK
  <1>5. PrioritiesOK'
    BY <1>1, <1>3, <1>4, Priorities DEF PInv, PrioritiesOK, Live
  <1>6. LinksFree'
    BY <1>1 DEF PInv, LinksFree
  <1>7. RunsOK'
    BY <1>1, <1>3, <1>4 DEF PInv, RunsOK, Live
  <1>8. KeptAt(lists', Placed(current_proc', state', flags', priority'))
    <2>1. KeptAt(lists, at)
      BY <1>3 DEF PInv, QueuesOK
    <2>2. at[p] = NULL
      BY <1>3 DEF Placed, Live
    <2>3. KeptAt(enqueue_tail(lists, FREE, p), [at EXCEPT ![p] = FREE])
      <3> HIDE DEF at
      <3> QED BY <1>3, <2>1, <2>2, KeptEnqueue, Constants
    <2>4. [at EXCEPT ![p] = FREE]
            = Placed(current_proc', state', flags', priority')
      BY <1>1, <1>3, <1>4 DEF Placed
    <2> QED BY <1>1, <1>2, <2>3, <2>4
  <1>9. Waiting' = {}
    BY <1>1, <1>3, <1>4, Priorities DEF Waiting, Live
  <1>10. Served' = {} /\ RequestOK'
    BY <1>1 DEF Served, RequestOK
  <1> QED BY <1>5, <1>6, <1>7, <1>8, <1>9, <1>10 DEF PInv, QueuesOK

\* fork clears the link of the slot it takes, which dequeue has cleared already.
LEMMA DequeuedLink ==
    ASSUME NEW L \in Stores(Proc, Queue), NEW q \in Queue, L.head[q] \in Proc
    PROVE  [dequeue(L, q) EXCEPT !.next = [@ EXCEPT ![L.head[q]] = NULL]]
             = dequeue(L, q)
  <1> DEFINE D == dequeue(L, q)
             p == L.head[q]
  <1>1. D \in Stores(Proc, Queue) /\ D.next[p] = NULL
    BY Constants DEF dequeue, Stores
  <1> HIDE DEF D
  <1>2. [D.next EXCEPT ![p] = NULL] = D.next
    BY <1>1 DEF Stores
  <1>3. [D EXCEPT !.next = [@ EXCEPT ![p] = NULL]] = [D EXCEPT !.next = D.next]
    BY <1>2
  <1>4. [D EXCEPT !.next = D.next] = D
    BY <1>1 DEF Stores
  <1> QED BY <1>3, <1>4 DEF D

\* fork: the child is a free slot, so it is neither the parent, which waits, nor a
\* process anyone knows of.  It waits with its parent, and is on no list.
LEMMA ForkIntoKeeps ==
    ASSUME IInv, PInv, Handles({"FORK"}), sys_pc' = "reply",
           NEW p, p = lists.head[FREE], p # NULL, ForkInto(who', p)
    PROVE  PInv'
  <1> DEFINE at == Placed(SYSTEM, state, flags, priority)
  <1>1. PICK o \in User : o = who'
    BY Handling
  <1>2. /\ status = "running" /\ current_proc = SYSTEM /\ flags[SYSTEM] = {}
        /\ buf[SYSTEM].type = "FORK" /\ Waiting = {o} /\ Live(o) /\ Live(SYSTEM)
    BY <1>1, Handling DEF PInv, PrioritiesOK
  <1>3. o \in Proc /\ o # SYSTEM /\ SYSTEM \in Proc /\ IDLE \in Proc /\ o \in Waiting
    BY <1>2, Priorities, Constants
  <1>4. flags[o] = {RECEIVING}
    BY <1>3, FlagValues DEF PInv, Waiting
  <1>5. KeptAt(lists, at)
    BY <1>2 DEF PInv, QueuesOK
  <1>6. p \in Proc /\ state[p] = "DEAD"
    <2>1. p \in Proc /\ at[p] = FREE
      <3> HIDE DEF at
      <3> QED BY <1>5, KeptHead, Constants
    <2>2. NULL # FREE /\ priority[p] # FREE
      BY <2>1, Constants, Priorities DEF IInv, TableOK
    <2> QED BY <2>1, <2>2 DEF Placed
  <1>7. p \in User /\ p # o /\ p # SYSTEM /\ p # IDLE
    BY <1>2, <1>6, Priorities DEF PInv, PrioritiesOK, Live
  <1>8. /\ state' = [state EXCEPT ![p] = "RUNNABLE"]
        /\ flags' = [flags EXCEPT ![p] = flags[o]]
        /\ priority' = [priority EXCEPT ![p] = priority[o]]
        /\ sender_q' = [sender_q EXCEPT ![p] = sender_q[o]]
        /\ message' = [message EXCEPT ![p] = message[o]]
        /\ buf' = [buf EXCEPT ![p] = buf[o], ![SYSTEM].i1 = p]
        /\ response' = p /\ UNCHANGED <<current_proc, status>>
    BY <1>1, <1>7 DEF ForkInto, ForkFields, Copied
  <1>9. /\ state'[p] = "RUNNABLE" /\ flags'[p] = {RECEIVING}
        /\ priority'[p] = priority[o] /\ sender_q'[p] = sender_q[o]
        /\ message'[p] = message[o]
        /\ \A r \in Proc \ {p} :
             /\ state'[r] = state[r] /\ flags'[r] = flags[r]
             /\ priority'[r] = priority[r] /\ sender_q'[r] = sender_q[r]
             /\ message'[r] = message[r]
    BY <1>4, <1>6, <1>8
       DEF IInv, TableOK, IpcOK, FlagsOK, LinksOK
  <1>10. PrioritiesOK'
    BY <1>2, <1>3, <1>7, <1>9, Priorities DEF PInv, PrioritiesOK, Live
  <1>11. LinksFree'
    <2>1. ASSUME NEW r \in Proc PROVE SENDING \notin flags'[r] /\ sender_q'[r] = NULL
      BY <1>3, <1>9 DEF PInv, LinksFree, SENDING, RECEIVING
    <2>2. \A r \in User : message'[r] # SYSTEM
      BY <1>1, <1>9, Priorities DEF PInv, LinksFree
    <2> QED BY <2>1, <2>2 DEF LinksFree
  <1>12. RunsOK'
    BY <1>2, <1>3, <1>7, <1>8, <1>9 DEF RunsOK, Live
  <1>13. KeptAt(lists', Placed(current_proc', state', flags', priority'))
    <2>1. KeptAt(dequeue(lists, FREE), [at EXCEPT ![p] = NULL])
      <3> HIDE DEF at
      <3> QED BY <1>5, KeptDequeue, Constants
    <2>2. lists' = dequeue(lists, FREE)
      BY <1>6, DequeuedLink, Constants DEF ForkInto, IInv, SchedOK, ListInv
    <2>3. [at EXCEPT ![p] = NULL]
            = Placed(current_proc', state', flags', priority')
      BY <1>2, <1>6, <1>8, <1>9, ZenonT(60) DEF Placed
    <2> QED BY <2>1, <2>2, <2>3
  <1>14. Waiting' = {o, p}
    <2>1. \A r \in User : Live(r) /\ flags[r] # {} <=> r = o
      BY <1>2 DEF Waiting
    <2>2. \A r \in User : state'[r] # "DEAD" /\ flags'[r] # {} <=> r = o \/ r = p
      BY <1>7, <1>9, <2>1, Priorities DEF Live
    <2> QED BY <1>7, <2>2 DEF Waiting, Live
  <1>15. buf'[SYSTEM].type = "FORK"
    BY <1>2, <1>3, <1>6, <1>7, <1>8 DEF IInv, IpcOK, BufOK, message_t
  <1>16. Served' = {o, p} /\ RequestOK'
    BY <1>1, <1>2, <1>7, <1>8, <1>15 DEF Served, RequestOK
  <1> QED BY <1>10, <1>11, <1>12, <1>13, <1>14, <1>16 DEF PInv, QueuesOK

\* A fork that finds no slot or no memory stops the kernel.
LEMMA ForkKeeps == IInv /\ PInv /\ ImagesOK /\ SystemFork => PInv'
  <1> SUFFICES ASSUME IInv, PInv, ImagesOK, SystemFork PROVE PInv'
    OBVIOUS
  <1>1. Handles({"FORK"}) /\ fork_proc(who') /\ sys_pc' = "reply"
    BY DEF SystemFork
  <1>2. who' \in User /\ who' \in imaged /\ Waiting = {who'}
        /\ buf[SYSTEM].type = "FORK"
    BY <1>1, Handling DEF ImagesOK, Waiting
  <1>3. CASE lists.head[FREE] # NULL /\ ForkInto(who', lists.head[FREE])
    BY <1>1, <1>3, ForkIntoKeeps
  <1>4. CASE Halts("panic")
    <2>1. /\ status' = "panic"
          /\ UNCHANGED <<state, priority, flags, sender_q, message, buf>>
      BY <1>4 DEF Halts, Stop, tableVars, ipcVars
    <2>2. PrioritiesOK' /\ LinksFree' /\ Waiting' = Waiting
      BY <2>1 DEF PInv, PrioritiesOK, LinksFree, Waiting, Live
    <2>3. RunsOK' /\ QueuesOK' /\ Served' = {who'} /\ RequestOK'
      BY <1>1, <1>2, <2>1 DEF RunsOK, QueuesOK, Served, RequestOK
    <2> QED BY <1>2, <2>2, <2>3 DEF PInv
  <1> QED BY <1>1, <1>2, <1>3, <1>4 DEF fork_proc

\* fork_pid and exec are asked for by no process.
LEMMA NotAsked == IInv /\ PInv => ~SystemForkPid /\ ~SystemExec
  BY Handling DEF SystemForkPid, SystemExec, LibraryTypes

LEMMA SystemTaskKeeps == IInv /\ IInv' /\ PInv /\ ImagesOK /\ SystemTask => PInv'
  BY SystemReceiveKeeps, ValueKeeps, EndKeeps, ForkKeeps, NotAsked, SystemReplyKeeps,
     SystemReplyChildKeeps DEF SystemTask, SystemWork

\* An interrupt of the serial port, and a kernel that has stopped, change nothing
\* that matters here.
LEMMA IdleKeeps == PInv /\ (SerialInput \/ UNCHANGED vars) => PInv'
  <1> SUFFICES ASSUME PInv, SerialInput \/ UNCHANGED vars PROVE PInv'
    OBVIOUS
  <1>1. UNCHANGED <<state, priority, flags, sender_q, message, lists, current_proc,
                    status, buf, sys_pc, who, response>>
    BY DEF SerialInput, vars, tableVars, ipcVars, schedVars, sysVars
  <1>2. RunsOK' /\ Served' = Served /\ RequestOK'
    BY <1>1 DEF PInv, RunsOK, Served, RequestOK, Live
  <1> QED BY <1>1, <1>2, SameProcesses DEF PInv

LEMMA StepKeeps ==
    ASSUME LibraryOnly
    PROVE  IInv /\ IInv' /\ PInv /\ ImagesOK /\ [Next]_vars => PInv'
  <1> SUFFICES ASSUME IInv, IInv', PInv, ImagesOK, [Next]_vars PROVE PInv'
    OBVIOUS
  <1>1. CASE UserStep
    <2>1. PICK c \in User : \/ \E call \in UserCalls : UserCall(c, call)
                            \/ fault_handler(c)
      BY <1>1 DEF UserStep, User
    <2>2. ASSUME NEW call \in UserCalls, UserCall(c, call) PROVE PInv'
      <3>1. PICK t \in LibraryTypes : call = Request(t)
        BY DEF LibraryOnly
      <3>2. UserCall(c, Request(t))
        BY <2>2, <3>1
      <3> QED BY <3>2, RequestKeeps
    <2> QED BY <2>1, <2>2, FaultKeeps
  <1> QED BY <1>1, TimerKeeps, SystemTaskKeeps, IdleKeeps DEF Next, Halted

\* The slot a fork takes is not the one it copies.
LEMMA FreeSlotDead ==
    ASSUME IInv, PInv, status = "running", lists.head[FREE] # NULL
    PROVE  lists.head[FREE] \in Proc /\ state[lists.head[FREE]] = "DEAD"
  <1> DEFINE at == Placed(current_proc, state, flags, priority)
             p == lists.head[FREE]
  <1>1. p \in Proc /\ at[p] = FREE
    <2>1. KeptAt(lists, at)
      BY DEF PInv, QueuesOK
    <2> HIDE DEF at
    <2> QED BY <2>1, KeptHead, Constants
  <1>2. NULL # FREE /\ priority[p] # FREE
    BY <1>1, Constants, Priorities DEF IInv, TableOK
  <1> QED BY <1>1, <1>2 DEF Placed

LEMMA ImagesInit == Init => ImagesOK
  BY Constants, Priorities DEF Init, ImagesOK, Live, Booted

LEMMA ImagesKept ==
    ASSUME LibraryOnly
    PROVE  IInv /\ PInv /\ ImagesOK /\ [Next]_vars => ImagesOK'
  <1> SUFFICES ASSUME IInv, PInv, ImagesOK, [Next]_vars PROVE ImagesOK'
    OBVIOUS
  <1>0. /\ state \in [Proc -> proc_state_t]
        /\ UNCHANGED <<state, imaged>> => ImagesOK'
    BY DEF IInv, TableOK, ImagesOK, Live
  <1>1. CASE timer_handler \/ SerialInput \/ Halted \/ UNCHANGED vars
    BY <1>0, <1>1 DEF timer_handler, SerialInput, Halted, vars, tableVars
  <1>2. CASE SystemReceive \/ SystemReply \/ SystemReplyChild \/ SystemValue
             \/ SystemGetc \/ SystemNoReply
    BY <1>0, <1>2 DEF SystemReceive, SystemReply, SystemReplyChild, SystemValue,
                      SystemGetc, SystemNoReply, tableVars
  <1>3. CASE UserStep \/ SystemEnd
    <2>1. \/ UNCHANGED <<state, imaged>>
          \/ \E c : UNCHANGED imaged /\ state' = [state EXCEPT ![c] = "DEAD"]
      BY <1>3 DEF UserStep, UserCall, fault_handler, SystemEnd, tableVars
    <2> QED BY <1>0, <2>1, Priorities DEF ImagesOK, Live
  <1>4. CASE SystemFork
    <2>1. Handles({"FORK"}) /\ fork_proc(who')
      BY <1>4 DEF SystemFork
    <2>2. who' \in User /\ Live(who') /\ status = "running"
      BY <2>1, Handling DEF Waiting
    <2>3. CASE Halts("panic")
      BY <1>0, <2>3 DEF Halts, tableVars
    <2>4. CASE lists.head[FREE] # NULL /\ ForkInto(who', lists.head[FREE])
      <3> DEFINE p == lists.head[FREE]
      <3>1. p \in Proc /\ p # who'
        BY <2>2, <2>4, FreeSlotDead DEF Live
      <3>2. /\ state' = [state EXCEPT ![p] = "RUNNABLE"]
            /\ imaged' = imaged \cup {p}
        BY <2>4, <3>1 DEF ForkInto, ForkFields
      <3> HIDE DEF p
      <3> QED BY <1>0, <3>1, <3>2, Priorities DEF ImagesOK, Live
    <2> QED BY <2>1, <2>2, <2>3, <2>4 DEF fork_proc, ImagesOK
  <1> QED BY <1>1, <1>2, <1>3, <1>4, NotAsked DEF Next, SystemTask, SystemWork

-----------------------------------------------------------------------------
\* main() leaves INIT and SHELL on the queue of user processes, IDLE on its own,
\* and the slots that are free in their order on the free list.
FreeSlots == [i \in 1 .. NUM_PROCS - 4 |-> i + 3]
InitialQueues == [q \in Queue |-> CASE q = USER_PRIORITY -> <<INIT, SHELL>>
                                     [] q = IDLE_PRIORITY -> <<IDLE>>
                                     [] q = FREE -> FreeSlots
                                     [] OTHER -> <<>>]

LEMMA InitLists ==
    ASSUME Init
    PROVE  /\ KeptAt(lists, Placed(SYSTEM, state, flags, priority))
           /\ InitialQueues \in [Queue -> Seq(Proc)]
           /\ Spelt(lists, Proc, Queue, Placed(SYSTEM, state, flags, priority),
                    InitialQueues)
  <1> DEFINE at == Placed(SYSTEM, state, flags, priority)
             free == FreeSlots
             s == InitialQueues
  <1>1. /\ Queue = 0 .. 5 /\ ReadyQueue = 0 .. 4 /\ NULL \notin Queue
        /\ SYSTEM = 0 /\ IDLE = 1 /\ INIT = 2 /\ SHELL = 3
        /\ SYSTEM_PRIORITY = 0 /\ USER_PRIORITY = 3 /\ IDLE_PRIORITY = 4 /\ FREE = 5
        /\ Proc = 0 .. NUM_PROCS - 1 /\ NUM_PROCS \in Nat /\ NUM_PROCS >= 4
        /\ \A x \in Proc : x # NULL
    BY Priorities, Constants, SizeAssumption DEF INIT, SHELL, Proc
  <1>2. lists \in Stores(Proc, Queue)
    BY InitOK DEF IInv, SchedOK, ListInv
  <1>3. \A x \in Proc : at[x] = IF x > 3 THEN 5 ELSE IF x = 0 THEN NULL
                                ELSE IF x = 1 THEN 4 ELSE 3
    BY <1>1 DEF Init, Placed, Booted
  <1>4. at \in [Proc -> Queue \cup {NULL}]
    BY <1>1, <1>3 DEF Placed
  <1>5. /\ lists.head[3] = 2 /\ lists.tail[3] = 3 /\ lists.next[2] = 3
        /\ lists.next[3] = NULL
        /\ lists.head[4] = 1 /\ lists.tail[4] = 1 /\ lists.next[1] = NULL
        /\ lists.head[5] = IF NUM_PROCS > 4 THEN 4 ELSE NULL
        /\ lists.tail[5] = IF NUM_PROCS > 4 THEN NUM_PROCS - 1 ELSE NULL
        /\ \A q \in 0 .. 2 : lists.head[q] = NULL /\ lists.tail[q] = NULL
        /\ \A x \in 4 .. NUM_PROCS - 2 : lists.next[x] = x + 1
        /\ NUM_PROCS > 4 => lists.next[NUM_PROCS - 1] = NULL
    BY <1>1 DEF Init
  <1>6. /\ free \in Seq(Proc) /\ Len(free) = NUM_PROCS - 4
        /\ \A i \in 1 .. NUM_PROCS - 4 : free[i] = i + 3
        /\ free = <<>> <=> NUM_PROCS = 4
    BY <1>1 DEF FreeSlots
  <1> HIDE DEF at
  <1>7. /\ s[3] = <<2, 3>> /\ s[4] = <<1>> /\ s[5] = free
        /\ \A q \in 0 .. 2 : s[q] = <<>>
    BY <1>1 DEF InitialQueues
  <1>8. s \in [Queue -> Seq(Proc)]
    <2>1. /\ <<INIT, SHELL>> \in Seq(Proc) /\ <<IDLE>> \in Seq(Proc)
          /\ <<>> \in Seq(Proc)
      BY Constants
    <2> QED BY <1>6, <2>1 DEF InitialQueues
  <1> HIDE DEF s, free
  <1>9. ASSUME NEW q \in Queue
        PROVE  /\ Spells(lists, q, s[q]) /\ Distinct(s[q])
               /\ \A x \in Proc : On(s[q], x) <=> at[x] = q
    <2>1. CASE q = 3
      <3>1. Spells(lists, 3, <<2, 3>>) /\ Distinct(<<2, 3>>)
        BY <1>5 DEF Spells, Distinct
      <3>2. \A x \in Proc : On(<<2, 3>>, x) <=> x = 2 \/ x = 3
        BY DEF On
      <3> QED BY <1>1, <1>3, <1>7, <2>1, <3>1, <3>2
    <2>2. CASE q = 4
      <3>1. Spells(lists, 4, <<1>>) /\ Distinct(<<1>>)
        BY <1>5 DEF Spells, Distinct
      <3>2. \A x \in Proc : On(<<1>>, x) <=> x = 1
        BY DEF On
      <3> QED BY <1>1, <1>3, <1>7, <2>2, <3>1, <3>2
    <2>3. CASE q = 5
      <3>1. Spells(lists, 5, free)
        <4>1. CASE NUM_PROCS = 4
          BY <1>5, <1>6, <4>1 DEF Spells
        <4>2. CASE NUM_PROCS > 4
          <5> DEFINE n == Len(free)
          <5>1. /\ n = NUM_PROCS - 4 /\ n \in Nat /\ n >= 1 /\ free # <<>>
                /\ free[1] = 4 /\ free[n] = NUM_PROCS - 1
            BY <1>1, <1>6, <4>2
          <5>2. ASSUME NEW i \in 1 .. n - 1
                PROVE  lists.next[free[i]] = free[i + 1]
            <6>1. free[i] = i + 3 /\ free[i + 1] = i + 4
              BY <1>6, <5>1
            <6>2. i + 3 \in 4 .. NUM_PROCS - 2
              BY <1>1, <5>1
            <6> QED BY <1>5, <6>1, <6>2
          <5> QED BY <1>5, <4>2, <5>1, <5>2 DEF Spells
        <4> QED BY <1>1, <4>1, <4>2
      <3>2. Distinct(free)
        BY <1>1, <1>6 DEF Distinct
      <3>3. ASSUME NEW x \in Proc PROVE On(free, x) <=> x > 3
        <4>1. CASE x > 3
          <5>1. x - 3 \in 1 .. NUM_PROCS - 4 /\ free[x - 3] = x
            BY <1>1, <1>6, <4>1
          <5> QED BY <1>6, <4>1, <5>1 DEF On
        <4>2. CASE ~(x > 3)
          BY <1>1, <1>6, <4>2 DEF On
        <4> QED BY <4>1, <4>2
      <3> QED BY <1>1, <1>3, <1>7, <2>3, <3>1, <3>2, <3>3
    <2>4. CASE q \in 0 .. 2
      BY <1>1, <1>3, <1>5, <1>7, <2>4 DEF Spells, Distinct, On
    <2> QED BY <1>1, <2>1, <2>2, <2>3, <2>4
  <1>10. Spelt(lists, Proc, Queue, at, s)
    BY <1>9 DEF Spelt
  <1>11. Keeps(lists, Proc, Queue, at)
    BY <1>8, <1>10 DEF Keeps
  <1> QED BY <1>2, <1>4, <1>8, <1>10, <1>11 DEF KeptAt, at, s

LEMMA InitKeeps == Init => PInv
  <1> SUFFICES ASSUME Init PROVE PInv
    OBVIOUS
  <1>1. PrioritiesOK /\ LinksFree
    BY Constants, Priorities
       DEF Init, PrioritiesOK, LinksFree, Live, Booted, User, Tasks, INIT, SHELL
  <1>2. RunsOK /\ RequestOK
    BY Constants DEF Init, RunsOK, RequestOK, Live, Booted
  <1>3. Waiting = {} /\ Served = {}
    BY Priorities DEF Init, Waiting, Served
  <1>4. QueuesOK
    BY InitLists DEF QueuesOK, Init
  <1> QED BY <1>1, <1>2, <1>3, <1>4 DEF PInv

LEMMA Protocol ==
    ASSUME LibraryOnly
    PROVE  Spec => [](IInv /\ PInv /\ ImagesOK)
  <1>1. Init => IInv /\ PInv /\ ImagesOK
    BY InitOK, InitKeeps, ImagesInit
  <1>2. IInv /\ PInv /\ ImagesOK /\ [Next]_vars => (IInv /\ PInv /\ ImagesOK)'
    BY StepOK, StepKeeps, ImagesKept
  <1> QED BY <1>1, <1>2, PTL DEF Spec

-----------------------------------------------------------------------------
(* What follows from the invariant. *)

\* Read off the lists, every process is where it should be.
LEMMA Placement ==
    ASSUME IInv, PInv
    PROVE  ReadyExactlyOnce
  <1> SUFFICES ASSUME status = "running"
               PROVE  /\ \A q \in Queue : Proper(lists, q, NUM_PROCS)
                      /\ LET on == [q \in Queue |-> Members(lists, q, NUM_PROCS)]
                         IN  \A p \in Proc : {q \in Queue : p \in on[q]} = Place(p)
    BY DEF ReadyExactlyOnce
  <1> DEFINE at == Placed(current_proc, state, flags, priority)
             on == [q \in Queue |-> Members(lists, q, NUM_PROCS)]
  <1>1. /\ lists \in Stores(Proc, Queue) /\ at \in [Proc -> Queue \cup {NULL}]
        /\ Keeps(lists, Proc, Queue, at)
    BY DEF PInv, QueuesOK, KeptAt
  <1>2. \A p \in Proc : Place(p) = IF at[p] = NULL THEN {} ELSE {at[p]}
    <2>1. ASSUME NEW p \in Proc PROVE priority[p] # NULL /\ FREE # NULL
      BY Constants, Priorities DEF IInv, TableOK
    <2> QED BY <2>1 DEF Place, Placed, Live
  <1> HIDE DEF at
  <1>3. ASSUME NEW q \in Queue
        PROVE  /\ Members(lists, q, NUM_PROCS) = {p \in Proc : at[p] = q}
               /\ Proper(lists, q, NUM_PROCS)
    <2>1. NULL \notin Proc /\ IsFiniteSet(Proc)
      BY Constants, ProcFinite
    <2>2. NUM_PROCS \in Nat /\ Cardinality(Proc) <= NUM_PROCS
      BY ProcFinite, SizeAssumption
    <2> QED BY <1>1, <2>1, <2>2, KeptMembers
  <1>4. ASSUME NEW p \in Proc PROVE {q \in Queue : p \in on[q]} = Place(p)
    <2>1. \A q \in Queue : p \in on[q] <=> at[p] = q
      BY <1>3
    <2>2. at[p] \in Queue \cup {NULL} /\ NULL \notin Queue
      BY <1>1, Priorities
    <2> HIDE DEF on
    <2> QED BY <1>2, <2>1, <2>2
  <1> QED BY <1>3, <1>4

\* A queue that is not empty holds a process that is ready, of that priority.
LEMMA QueuedReady ==
    ASSUME IInv, PInv, status = "running", NEW q \in ReadyQueue, lists.head[q] # NULL
    PROVE  \E p \in Proc : Live(p) /\ flags[p] = {} /\ priority[p] = q
                           /\ p # current_proc
  <1> DEFINE at == Placed(current_proc, state, flags, priority)
  <1>1. KeptAt(lists, at) /\ q \in Queue
    BY Constants DEF PInv, QueuesOK
  <1>2. lists.head[q] \in Proc /\ at[lists.head[q]] = q
    <2> HIDE DEF at
    <2> QED BY <1>1, KeptHead
  <1>3. q # NULL /\ q # FREE
    BY Constants, Priorities
  <1> QED BY <1>2, <1>3 DEF Placed, Live

LEMMA NoneAbove ==
    ASSUME IInv, PInv
    PROVE  PriorityOrder
  <1> SUFFICES ASSUME status = "running", NEW q \in ReadyQueue,
                      q < priority[current_proc], lists.head[q] # NULL
               PROVE  FALSE
    BY DEF PriorityOrder
  <1>1. PICK p \in Proc : /\ Live(p) /\ flags[p] = {} /\ priority[p] = q
                          /\ p # current_proc
    BY QueuedReady
  <1>2. /\ current_proc \in Proc /\ Live(current_proc)
        /\ flags[SYSTEM] = {} => current_proc = SYSTEM
        /\ current_proc # IDLE
    BY DEF PInv, RunsOK, IInv, SchedOK, IdleLast
  <1>3. /\ priority[SYSTEM] = 0 /\ priority[IDLE] = 4
        /\ \A x \in User : Live(x) => priority[x] = 3
    BY Priorities DEF PInv, PrioritiesOK, IInv, TableOK
  <1>4. CASE current_proc = SYSTEM
    BY <1>3, <1>4, Priorities
  <1>5. CASE current_proc \in User
    <2>1. priority[current_proc] = 3 /\ current_proc # SYSTEM
      BY <1>2, <1>3, <1>5, Priorities
    <2>2. p # SYSTEM
      BY <1>1, <1>2, <2>1
    <2> QED BY <1>1, <1>3, <2>1, <2>2, Priorities
  <1> QED BY <1>2, <1>4, <1>5, Priorities

\* While the system task runs nothing is queued beside it, and the free list holds
\* dead slots.
LEMMA SystemAlone ==
    ASSUME IInv, PInv, status = "running", current_proc = SYSTEM
    PROVE  /\ lists.head[SYSTEM_PRIORITY] = NULL
           /\ lists.head[FREE] # NULL => ~Live(lists.head[FREE])
           /\ lists.tail[FREE] # NULL => ~Live(lists.tail[FREE])
  <1> DEFINE at == Placed(SYSTEM, state, flags, priority)
  <1>1. KeptAt(lists, at)
    BY DEF PInv, QueuesOK
  <1>2. \A p \in Proc : at[p] = FREE => ~Live(p)
    BY Priorities, Constants DEF Placed, Live, IInv, TableOK
  <1>3. lists.head[SYSTEM_PRIORITY] = NULL
    <2>1. SYSTEM_PRIORITY \in ReadyQueue /\ 0 \in ReadyQueue
      BY Priorities
    <2>2. \A p \in Proc : Live(p) /\ p # SYSTEM => priority[p] # SYSTEM_PRIORITY
      BY Priorities DEF PInv, PrioritiesOK, IInv, TableOK
    <2> QED BY <2>1, <2>2, QueuedReady
  <1> HIDE DEF at
  <1>4. lists.head[FREE] # NULL => ~Live(lists.head[FREE])
    BY <1>1, <1>2, KeptHead, Constants
  <1>5. ASSUME lists.tail[FREE] # NULL PROVE ~Live(lists.tail[FREE])
    <2>1. /\ lists \in Stores(Proc, Queue) /\ at \in [Proc -> Queue \cup {NULL}]
          /\ Keeps(lists, Proc, Queue, at)
      BY <1>1 DEF KeptAt
    <2>2. NULL \notin Proc /\ FREE \in Queue
      BY Constants
    <2>3. lists.tail[FREE] \in Proc /\ at[lists.tail[FREE]] = FREE
      BY <1>5, <2>1, <2>2, TailKept
    <2> QED BY <1>2, <2>3
  <1> QED BY <1>3, <1>4, <1>5

\* The system task looks at who has sent a request only once it serves it.
LEMMA WhoUnset ==
    ASSUME [Next]_vars, sys_pc = "dispatch" => who = NULL
    PROVE  sys_pc' = "dispatch" => who' = NULL
  <1>1. CASE SystemTask
    BY <1>1 DEF SystemTask, SystemWork, SystemReceive, SystemValue, SystemGetc,
                SystemNoReply, SystemEnd, SystemFork, SystemForkPid, SystemExec,
                SystemReply, SystemReplyChild
  <1>2. CASE timer_handler \/ UserStep \/ SerialInput \/ Halted \/ UNCHANGED vars
    BY <1>2 DEF timer_handler, UserStep, UserCall, fault_handler, SerialInput, Halted,
                vars, sysVars
  <1> QED BY <1>1, <1>2 DEF Next

\* A process that waits resumes by the reply of the system task to it, whatever
\* step is taken.
LEMMA Woken ==
    ASSUME LibraryOnly, IInv, PInv, ImagesOK, [Next]_vars,
           NEW p \in User, Live(p), flags[p] = {RECEIVING}, flags'[p] = {}
    PROVE  current_proc = SYSTEM /\ p = Addressee
  <1>1. flags \in [Proc -> SUBSET {SENDING, RECEIVING}] /\ p \in Proc /\ p # SYSTEM
    BY Priorities DEF IInv, IpcOK, FlagsOK
  <1>2. flags[p] # {} /\ flags' # flags
    OBVIOUS
  <1>3. ASSUME NEW c \in User, NEW t \in LibraryTypes, UserCall(c, Request(t))
        PROVE  FALSE
    <2>1. /\ current_proc = c
          /\ flags' = [flags EXCEPT ![SYSTEM] = {},
                                    ![c] = IF t = "PUTC" THEN {} ELSE {RECEIVING}]
          /\ status = "running"
      BY <1>3, RequestEffect
    <2>2. flags[c] = {}
      BY <2>1 DEF PInv, RunsOK
    <2> QED BY <1>1, <2>1, <2>2
  <1>4. CASE SystemReceive
    <2>1. wini_receive(SYSTEM, [buf EXCEPT ![SYSTEM] = [NoMessage(SYSTEM)
                                                          EXCEPT !.src = SYSTEM]])
      BY <1>4 DEF SystemReceive, syscall_handler
    <2>2. sender_q[SYSTEM] = NULL
      BY Constants DEF PInv, LinksFree
    <2> QED BY <1>1, <2>1, <2>2 DEF wini_receive
  <1>5. CASE SystemFork
    <2>1. Handles({"FORK"}) /\ fork_proc(who')
      BY <1>5 DEF SystemFork
    <2>2. who' \in imaged
      BY <2>1, Handling DEF ImagesOK, Waiting
    <2>3. ForkInto(who', lists.head[FREE]) /\ lists.head[FREE] # NULL
      BY <1>2, <2>1, <2>2 DEF fork_proc, Halts, ipcVars
    <2>4. /\ status = "running"
          /\ KeptAt(lists, Placed(current_proc, state, flags, priority))
      BY <2>1, Handling DEF PInv, QueuesOK
    <2>5. Placed(current_proc, state, flags, priority)[lists.head[FREE]] = FREE
      BY <2>3, <2>4, KeptHead, Constants
    <2>6. lists.head[FREE] # p
      <3>1. Placed(current_proc, state, flags, priority)[p] = NULL
        BY <1>1, <1>2 DEF Placed, Live
      <3> QED BY <2>5, <3>1, Constants, Priorities
    <2>7. flags'[p] = flags[p]
      BY <1>1, <2>3, <2>6 DEF ForkInto, ForkFields, Copied
    <2> QED BY <2>7
  <1>6. CASE SystemReply
    <2>1. Running(SYSTEM) /\ sys_pc = "reply" /\ status = "running"
          /\ syscall_handler(SYSTEM, "SEND", who, buf[SYSTEM])
      BY <1>6 DEF SystemReply, Running
    <2>2. who \in Waiting /\ buf[SYSTEM] \in message_t
      BY <2>1, Constants DEF PInv, Served, IInv, IpcOK, BufOK
    <2>3. flags' = [flags EXCEPT ![who] = {}]
      BY <2>1, <2>2, ReplyEffect
    <2> QED BY <1>1, <2>1, <2>3 DEF Running, Addressee
  <1>7. CASE SystemReplyChild
    <2>1. /\ Running(SYSTEM) /\ sys_pc = "reply_child" /\ status = "running"
          /\ syscall_handler(SYSTEM, "SEND", response, [buf[SYSTEM] EXCEPT !.i1 = 0])
      BY <1>7 DEF SystemReplyChild, Running
    <2>2. response \in Waiting
      BY <2>1 DEF PInv, Served
    <2>3. [buf[SYSTEM] EXCEPT !.i1 = 0] \in message_t
      <3>1. 0 \in MsgValue
        BY SizeAssumption DEF MsgValue
      <3> QED BY <3>1, Constants DEF IInv, IpcOK, BufOK, message_t
    <2>4. flags' = [flags EXCEPT ![response] = {}]
      BY <2>1, <2>2, <2>3, ReplyEffect
    <2> QED BY <1>1, <2>1, <2>4 DEF Running, Addressee
  <1>8. CASE \/ timer_handler \/ SerialInput \/ UNCHANGED vars
             \/ SystemValue \/ SystemGetc \/ SystemNoReply \/ SystemEnd
             \/ \E c \in User : fault_handler(c)
    <2>1. flags' = flags
      BY <1>8 DEF timer_handler, SerialInput, vars, ipcVars, SystemValue, SystemGetc,
                  SystemNoReply, SystemEnd, fault_handler
    <2> QED BY <1>2, <2>1
  <1>9. UserStep => \/ \E c \in User, t \in LibraryTypes : UserCall(c, Request(t))
                    \/ \E c \in User : fault_handler(c)
    BY DEF UserStep, LibraryOnly, User
  <1> QED BY <1>3, <1>4, <1>5, <1>6, <1>7, <1>8, <1>9, NotAsked
          DEF Next, Halted, SystemTask, SystemWork
-----------------------------------------------------------------------------
\* Every process is on the one list it belongs to and nowhere else: a dead one on
\* free_proc, a ready one on the queue of its priority, once, the running and the
\* waiting ones on none; the lists of proc.c are proper lists throughout.
THEOREM OnTheRightList ==
    ASSUME LibraryOnly
    PROVE  Spec => []ReadyExactlyOnce
  BY Placement, Protocol, PTL

\* No process of the library blocks in wini_send, so sender queues stay empty.
THEOREM SendersNeverQueue ==
    ASSUME LibraryOnly
    PROVE  Spec => []SendsNeverBlock
  <1>1. PInv => SendsNeverBlock
    BY DEF PInv, LinksFree, SendsNeverBlock
  <1> QED BY <1>1, Protocol, PTL

\* The process the system task is about to answer is alive and waits for it.
THEOREM RepliesArrive ==
    ASSUME LibraryOnly
    PROVE  Spec => []ReplyReaches
  <1>1. IInv /\ PInv => ReplyReaches
    <2> SUFFICES ASSUME IInv, PInv, status = "running", Addressee # NULL
                 PROVE  Live(Addressee) /\ flags[Addressee] = {RECEIVING}
      BY DEF ReplyReaches
    <2>1. Addressee \in Waiting
      BY DEF Addressee, PInv, Served
    <2>2. Addressee \in Proc /\ Live(Addressee) /\ flags[Addressee] # {}
      BY <2>1, Priorities DEF Waiting
    <2> QED BY <2>2, FlagValues DEF PInv
  <1> QED BY <1>1, Protocol, PTL

\* The system task serves one request at a time.
THEOREM ServesOne ==
    ASSUME LibraryOnly
    PROVE  Spec => []OneAtATime
  <1>1. PInv => OneAtATime
    <2> SUFFICES ASSUME PInv, NEW p \in User, Live(p), flags[p] # {}
                 PROVE  \/ p = Requester
                        \/ sys_pc \in {"reply", "reply_child"} /\ p = response
      BY DEF OneAtATime
    <2>1. p \in Served
      BY DEF PInv, Waiting
    <2> QED BY <2>1 DEF Served, Requester
  <1> QED BY <1>1, Protocol, PTL

\* No process runs while one of higher priority is queued.
THEOREM RunsByPriority ==
    ASSUME LibraryOnly
    PROVE  Spec => []PriorityOrder
  BY NoneAbove, Protocol, PTL

\* From the call that wakes the system task to its next receive, whatever the
\* timer does, nothing else runs.
THEOREM SystemUndisturbed ==
    ASSUME LibraryOnly
    PROVE  Spec => []ServesUndisturbed
  <1>1. PInv => ServesUndisturbed
    BY DEF PInv, RunsOK, ServesUndisturbed
  <1> QED BY <1>1, Protocol, PTL

\* Nothing but the system task's reply to it resumes a process that waits.
THEOREM WokenByReply ==
    ASSUME LibraryOnly
    PROVE  Spec => OnlyReplyWakes
  <1>1. IInv /\ PInv /\ ImagesOK /\ [Next]_vars =>
            [\A p \in User : Live(p) /\ flags[p] = {RECEIVING} /\ flags'[p] = {} =>
                 current_proc = SYSTEM /\ p = Addressee]_vars
    BY Woken
  <1> QED BY <1>1, Protocol, PTL DEF OnlyReplyWakes, Spec

\* sched() and the calls stop the kernel at most for want of a process or at a null
\* pointer: the failed assertions are those of fork and exec.
LEMMA SchedGoesOn ==
    ASSUME status = "running", NEW L, NEW fl, NEW c, sched(L, fl, c)
    PROVE  status' # "panic"
  BY DEF sched

LEMMA CallGoesOn ==
    ASSUME status = "running", NEW c, NEW op, NEW dest, NEW m,
           syscall_handler(c, op, dest, m)
    PROVE  status' # "panic"
  <1> DEFINE b == [buf EXCEPT ![c] = [m EXCEPT !.src = c]]
  <1>1. \A f : wini_send(c, dest, f, b) => status' # "panic"
    BY SchedGoesOn DEF wini_send, Deliver
  <1>2. wini_receive(c, b) => status' # "panic"
    BY SchedGoesOn DEF wini_receive, Stop
  <1>3. wini_sendonce(c, dest, b) => status' # "panic"
    BY SchedGoesOn DEF wini_sendonce, Deliver
  <1> QED BY <1>1, <1>2, <1>3, SchedGoesOn DEF syscall_handler

\* A dead process is on the free list, so a free list that is empty means that all
\* entries are in use.
LEMMA EmptyMeansFull ==
    ASSUME IInv, PInv, status = "running", lists.head[FREE] = NULL
    PROVE  \A p \in Proc : Live(p)
  <1> DEFINE at == Placed(current_proc, state, flags, priority)
  <1>1. KeptAt(lists, at)
    BY DEF PInv, QueuesOK
  <1>2. \A p \in Proc : at[p] # FREE
    <2> HIDE DEF at
    <2> QED BY <1>1, KeptHead, Constants
  <1> QED BY <1>2 DEF Placed, Live

\* The kernel panics only for want of a slot or of memory.
THEOREM PanicsForWant ==
    ASSUME LibraryOnly
    PROVE  Spec => []PanicsWhenFull
  <1>1. Init => PanicsWhenFull
    BY DEF Init, PanicsWhenFull
  <1>2. IInv /\ PInv /\ ImagesOK /\ PanicsWhenFull /\ [Next]_vars => PanicsWhenFull'
    <2> SUFFICES ASSUME IInv, PInv, ImagesOK, PanicsWhenFull, [Next]_vars
                 PROVE  PanicsWhenFull'
      OBVIOUS
    <2>1. CASE status # "running"
      <3>1. UNCHANGED <<state, status>>
        BY <2>1 DEF Next, timer_handler, UserStep, UserCall, fault_handler, SystemTask,
             SystemWork, SystemReceive, SystemValue, SystemGetc, SystemNoReply, SystemEnd,
             SystemFork, SystemForkPid, SystemExec, SystemReply, SystemReplyChild,
             SerialInput, Halted, Handles, Running, vars, tableVars, schedVars
      <3> QED BY <3>1 DEF PanicsWhenFull, Live
    <2>2. CASE status = "running" /\ SystemFork
      <3>1. fork_proc(who') /\ who' \in imaged
        BY <2>2, Handling DEF SystemFork, ImagesOK, Waiting
      <3>2. CASE lists.head[FREE] = NULL \/ FALSE \in AllocOutcomes
        <4>1. CASE Halts("panic")
          BY <2>2, <3>2, <4>1, EmptyMeansFull DEF Halts, tableVars, PanicsWhenFull, Live
        <4>2. CASE status' = status
          BY <2>2, <4>2 DEF PanicsWhenFull
        <4> QED BY <3>1, <4>1, <4>2 DEF fork_proc, ForkInto
      <3>3. CASE lists.head[FREE] # NULL /\ FALSE \notin AllocOutcomes
        BY <2>2, <3>1, <3>3 DEF fork_proc, ForkInto, PanicsWhenFull
      <3> QED BY <3>2, <3>3
    <2>3. CASE status = "running" /\ ~SystemFork
      <3>1. status' # "panic"
        <4>1. CASE timer_handler \/ UserStep
          BY <2>3, <4>1, SchedGoesOn, CallGoesOn
             DEF timer_handler, UserStep, UserCall, fault_handler
        <4>2. CASE SystemReceive \/ SystemReply \/ SystemReplyChild
          BY <2>3, <4>2, CallGoesOn DEF SystemReceive, SystemReply, SystemReplyChild
        <4>3. CASE SystemWork \/ SerialInput \/ Halted \/ UNCHANGED vars
          BY <2>3, <4>3, NotAsked
             DEF SystemWork, SystemValue, SystemGetc, SystemNoReply, SystemEnd,
                 SerialInput, Halted, vars, schedVars
        <4> QED BY <4>1, <4>2, <4>3 DEF Next, SystemTask
      <3> QED BY <3>1 DEF PanicsWhenFull
    <2> QED BY <2>1, <2>2, <2>3
  <1> QED BY <1>1, <1>2, Protocol, PTL DEF Spec

\* A process that is not dead is runnable: no slot is left half made.
LEMMA StatesKept ==
    ASSUME IInv, IInv', \A p \in Proc : state[p] \in {"DEAD", "RUNNABLE"}, [Next]_vars
    PROVE  \A p \in Proc : state'[p] \in {"DEAD", "RUNNABLE"}
  <1> DEFINE Stays == \A p \in Proc : state'[p] \in {"DEAD", "RUNNABLE"}
  <1>0. state \in [Proc -> proc_state_t]
    BY DEF IInv, TableOK
  <1>1. UNCHANGED state => Stays
    OBVIOUS
  <1> HIDE DEF Stays
  <1>2. CASE timer_handler \/ SerialInput \/ Halted \/ UNCHANGED vars
    BY <1>1, <1>2 DEF timer_handler, SerialInput, Halted, vars, tableVars
  <1>3. CASE UserStep
    <2>1. PICK c \in Proc : \/ UNCHANGED state
                           \/ state' = [state EXCEPT ![c] = "DEAD"]
      BY <1>3 DEF UserStep, UserCall, fault_handler, tableVars
    <2> QED BY <2>1, <1>0 DEF Stays
  <1>4. CASE SystemReceive \/ SystemReply \/ SystemReplyChild
    BY <1>1, <1>4 DEF SystemReceive, SystemReply, SystemReplyChild, tableVars
  <1>5. CASE SystemValue \/ SystemGetc \/ SystemNoReply \/ SystemEnd
    <2>1. UNCHANGED state \/ state' = [state EXCEPT ![who'] = "DEAD"]
      BY <1>5 DEF SystemValue, SystemGetc, SystemNoReply, SystemEnd, tableVars
    <2> QED BY <2>1, <1>0 DEF Stays
  <1>6. CASE SystemFork \/ SystemForkPid
    <2>1. UNCHANGED state \/ state' = [state EXCEPT ![lists.head[FREE]] = "RUNNABLE"]
      BY <1>6 DEF SystemFork, SystemForkPid, fork_proc, ForkInto, ForkFields, Halts,
                  tableVars
    <2> QED BY <2>1, <1>0 DEF Stays
  <1>7. CASE SystemExec
    <2>1. \/ UNCHANGED state
          \/ state' = [state EXCEPT ![get_proc(who')] = "RUNNABLE"]
      BY <1>7 DEF SystemExec, ReplaceProcess, Halts, tableVars
    <2> QED BY <2>1, <1>0 DEF Stays
  <1> QED
    BY <1>2, <1>3, <1>4, <1>5, <1>6, <1>7 DEF Next, SystemTask, SystemWork, Stays

\* What the scheduler picks can run: it is neither dead nor blocked.  (exec_requeue
\* shows that exec makes this false.)
THEOREM PicksRunnable ==
    ASSUME LibraryOnly
    PROVE  Spec => []PickedIsRunnable
  <1> DEFINE StatesOK == \A p \in Proc : state[p] \in {"DEAD", "RUNNABLE"}
  <1>1. Init => StatesOK
    BY DEF Init
  <1>2. IInv /\ IInv' /\ StatesOK /\ [Next]_vars => StatesOK'
    BY StatesKept
  <1>3. IInv /\ PInv /\ StatesOK => PickedIsRunnable
    BY DEF IInv, SchedOK, PInv, RunsOK, Live, PickedIsRunnable
  <1> HIDE DEF StatesOK
  <1> QED BY <1>1, <1>2, <1>3, Protocol, PTL DEF Spec

-----------------------------------------------------------------------------
(* The kernel implements Scheduler.  The lists, which the invariant says spell *)
(* sequences, are these sequences; each routine on lists does to them what its *)
(* name says, and every handler is a step of Scheduler, or none.               *)

\* What each queue of L holds, in order.
Order(L) == [q \in Queue |-> Spelling(L, q, NUM_PROCS)]

LEMMA OrderIs ==
    ASSUME NEW L, NEW at, NEW s \in [Queue -> Seq(Proc)], Spelt(L, Proc, Queue, at, s)
    PROVE  Order(L) = s
  <1>1. ASSUME NEW q \in Queue PROVE Spelling(L, q, NUM_PROCS) = s[q]
    <2>1. s[q] \in Seq(Proc) /\ Spells(L, q, s[q]) /\ Distinct(s[q])
      BY DEF Spelt
    <2>2. NULL \notin Proc /\ NUM_PROCS \in Nat
      BY Constants, SizeAssumption
    <2>3. IsFiniteSet(Proc) /\ Cardinality(Proc) <= NUM_PROCS
      BY ProcFinite, <2>2
    <2> QED BY <2>1, <2>2, <2>3, MembersSpelt
  <1> QED BY <1>1 DEF Order

LEMMA OrderSpelt ==
    ASSUME NEW L, NEW at, KeptAt(L, at)
    PROVE  Order(L) \in [Queue -> Seq(Proc)] /\ Spelt(L, Proc, Queue, at, Order(L))
  <1>1. PICK s \in [Queue -> Seq(Proc)] : Spelt(L, Proc, Queue, at, s)
    BY DEF KeptAt, Keeps
  <1>2. Order(L) = s
    BY <1>1, OrderIs
  <1> QED BY <1>1, <1>2

LEMMA OrderEnqueue ==
    ASSUME NEW L, NEW at, KeptAt(L, at), NEW q \in Queue, NEW p \in Proc, at[p] = NULL
    PROVE  /\ Order(enqueue_tail(L, q, p)) = [Order(L) EXCEPT ![q] = Append(@, p)]
           /\ Order(enqueue_head(L, q, p)) = [Order(L) EXCEPT ![q] = <<p>> \o @]
  <1> DEFINE s == Order(L)
  <1>1. s \in [Queue -> Seq(Proc)] /\ Spelt(L, Proc, Queue, at, s)
    BY OrderSpelt
  <1>2. /\ NULL \notin Proc /\ NULL \notin Queue /\ L \in Stores(Proc, Queue)
        /\ at \in [Proc -> Queue \cup {NULL}]
    BY Constants, Priorities DEF KeptAt
  <1> HIDE DEF s
  <1>3. /\ [s EXCEPT ![q] = Append(@, p)] \in [Queue -> Seq(Proc)]
        /\ Spelt(enqueue_tail(L, q, p), Proc, Queue, [at EXCEPT ![p] = q],
                 [s EXCEPT ![q] = Append(@, p)])
        /\ [s EXCEPT ![q] = <<p>> \o @] \in [Queue -> Seq(Proc)]
        /\ Spelt(enqueue_head(L, q, p), Proc, Queue, [at EXCEPT ![p] = q],
                 [s EXCEPT ![q] = <<p>> \o @])
    BY <1>1, <1>2, EnqueueSpelt
  <1> QED BY <1>3, OrderIs DEF s

LEMMA OrderEmpty ==
    ASSUME NEW L, NEW at, KeptAt(L, at), NEW q \in Queue
    PROVE  L.head[q] = NULL <=> Order(L)[q] = <<>>
  <1> DEFINE s == Order(L)
  <1>1. s[q] \in Seq(Proc) /\ Spells(L, q, s[q])
    BY OrderSpelt DEF Spelt
  <1> HIDE DEF s
  <1>2. ASSUME s[q] # <<>> PROVE L.head[q] # NULL
    <2>1. s[q][1] \in Proc /\ L.head[q] = s[q][1]
      BY <1>1, <1>2 DEF Spells
    <2> QED BY <2>1, Constants
  <1> QED BY <1>1, <1>2 DEF Spells, s

LEMMA OrderDequeue ==
    ASSUME NEW L, NEW at, KeptAt(L, at), NEW q \in Queue, L.head[q] # NULL
    PROVE  /\ Order(dequeue(L, q)) = [Order(L) EXCEPT ![q] = Tail(@)]
           /\ Head(Order(L)[q]) = L.head[q]
  <1> DEFINE s == Order(L)
  <1>1. s \in [Queue -> Seq(Proc)] /\ Spelt(L, Proc, Queue, at, s)
    BY OrderSpelt
  <1>2. /\ NULL \notin Proc /\ NULL \notin Queue /\ L \in Stores(Proc, Queue)
        /\ at \in [Proc -> Queue \cup {NULL}]
    BY Constants, Priorities DEF KeptAt
  <1>3. s[q] # <<>>
    BY OrderEmpty
  <1> HIDE DEF s
  <1>4. /\ [s EXCEPT ![q] = Tail(@)] \in [Queue -> Seq(Proc)]
        /\ Spelt(dequeue(L, q), Proc, Queue, [at EXCEPT ![L.head[q]] = NULL],
                 [s EXCEPT ![q] = Tail(@)])
    BY <1>1, <1>2, DequeueSpelt
  <1>5. L.head[q] = s[q][1]
    BY <1>1, <1>3 DEF Spelt, Spells
  <1>6. Head(s[q]) = s[q][1]
    BY <1>1, <1>3
  <1> QED BY <1>4, <1>5, <1>6, OrderIs DEF s

\* A process that is neither running nor placed on a list waits.
LEMMA OrderWaits ==
    ASSUME NEW at, KeptAt(lists, at), NEW p \in Proc, at[p] = NULL, p # current_proc
    PROVE  Scheduling!Waits(p)
  <1> SUFFICES ASSUME NEW q \in ReadyQueue \cup {FREE},
                      NEW i \in 1 .. Len(Order(lists)[q])
               PROVE  Order(lists)[q][i] # p
    BY DEF Scheduling!Waits, Queues, Order
  <1>1. q \in Queue /\ q # NULL
    BY Priorities, Constants
  <1>2. On(Order(lists)[q], p) <=> at[p] = q
    BY <1>1, OrderSpelt DEF Spelt
  <1> QED BY <1>1, <1>2 DEF On

LEMMA Homes ==
    ASSUME IInv, PrioritiesOK, NEW p \in Proc, Live(p)
    PROVE  priority[p] = Scheduling!Home(p) /\ priority[p] \in Queue
  <1>1. priority[p] \in Queue /\ (p = IDLE => priority[p] = IDLE_PRIORITY)
    BY Constants DEF IInv, TableOK
  <1>2. SYSTEM # IDLE
    BY Priorities
  <1> QED BY <1>1, <1>2, Priorities DEF PrioritiesOK, Scheduling!Home
-----------------------------------------------------------------------------
\* A process that runs has time left.
TimeOK == /\ ticks_left \in [Proc -> Nat]
          /\ status = "running" => ticks_left[current_proc] > 0

LEMMA SchedDispatches ==
    ASSUME TableOK, status = "running", status' = "running",
           NEW L, NEW at, KeptAt(L, at), NEW fl,
           NEW c \in Proc \cup {NULL}, c # NULL => at[c] = NULL,
           TimeOK, c # NULL => c = current_proc,
           sched(L, fl, c)
    PROVE  /\ Scheduling!Dispatch(Order(Reinserted(L, fl, c)), Charged(L, fl, c))
           /\ TimeOK'
  <1> DEFINE R == Reinserted(L, fl, c)
             T == Charged(L, fl, c)
             q == TopQueue(R)
             b == IF Accounted(L, fl, c) THEN [at EXCEPT ![c] = priority[c]] ELSE at
             p == R.head[q]
  <1>1. KeptAt(R, b)
    BY ReinsertedKeeps
  <1>2. NonEmpty(R) # {}
    BY DEF sched
  <1>3. /\ lists' = dequeue(R, q) /\ current_proc' = p
        /\ ticks_left' = [T EXCEPT ![p] = IF T[p] <= 0 THEN quantum[p] ELSE T[p]]
    BY <1>2 DEF sched
  <1>4. T \in [Proc -> Nat]
    <2>1. CASE Accounted(L, fl, c)
      <3>1. c \in Proc /\ ticks_left[c] \in Nat /\ ticks_left[c] > 0
        BY <2>1 DEF Accounted, TimeOK
      <3>2. ticks_left[c] - 1 \in Nat
        BY <3>1
      <3> QED BY <2>1, <3>1, <3>2 DEF Charged, TimeOK
    <2>2. CASE ~Accounted(L, fl, c)
      BY <2>2 DEF Charged, TimeOK
    <2> QED BY <2>1, <2>2
  <1>5. quantum \in [Proc -> Nat \ {0}]
    BY DEF TableOK
  <1> HIDE DEF R, T, b
  <1>6. p \in Proc
    BY <1>1, <1>2, PickKeeps
  <1>7. q \in ReadyQueue /\ R.head[q] # NULL /\ \A r \in NonEmpty(R) : q <= r
    BY <1>2, TopQueueIsFirst DEF NonEmpty
  <1> HIDE DEF q
  <1>8. q \in Queue /\ ReadyQueue \subseteq Queue /\ ReadyQueue \subseteq Int
    BY <1>7, Constants DEF ReadyQueue
  <1>9. /\ Order(dequeue(R, q)) = [Order(R) EXCEPT ![q] = Tail(@)]
        /\ Head(Order(R)[q]) = p
    BY <1>1, <1>7, <1>8, OrderDequeue
  <1>10. Order(R)[q] # <<>>
    BY <1>1, <1>7, <1>8, OrderEmpty
  <1>11. ASSUME NEW r \in ReadyQueue, r < q PROVE Order(R)[r] = <<>>
    <2>1. r \notin NonEmpty(R)
      BY <1>7, <1>8, <1>11
    <2>2. R.head[r] = NULL /\ r \in Queue
      BY <1>8, <2>1 DEF NonEmpty
    <2> QED BY <1>1, <2>2, OrderEmpty
  <1>12. ticks_left' = [T EXCEPT ![p] = IF T[p] = 0 THEN quantum[p] ELSE T[p]]
    <2>1. T[p] \in Nat
      BY <1>4, <1>6
    <2>2. T[p] <= 0 <=> T[p] = 0
      BY <2>1
    <2> QED BY <1>3, <2>2
  <1>13. Queues' = [r \in DOMAIN Order(R) |->
                       IF r = q THEN Tail(Order(R)[r]) ELSE Order(R)[r]]
    <2>1. Queues' = Order(lists')
      BY DEF Queues, Order
    <2>2. Order(R) \in [Queue -> Seq(Proc)]
      BY <1>1, OrderSpelt
    <2> QED BY <1>3, <1>8, <1>9, <2>1, <2>2
  <1>14. Scheduling!Dispatch(Order(R), T)
    BY <1>3, <1>7, <1>9, <1>10, <1>11, <1>12, <1>13 DEF Scheduling!Dispatch
  <1>15. TimeOK'
    <2>1. T[p] \in Nat /\ quantum[p] \in Nat /\ quantum[p] > 0
      BY <1>4, <1>5, <1>6
    <2>2. (IF T[p] = 0 THEN quantum[p] ELSE T[p]) \in Nat
          /\ (IF T[p] = 0 THEN quantum[p] ELSE T[p]) > 0
      BY <2>1
    <2>3. ticks_left' \in [Proc -> Nat] /\ ticks_left'[p] > 0
      BY <1>4, <1>6, <1>12, <2>2
    <2> QED BY <1>3, <2>3 DEF TimeOK
  <1> QED BY <1>14, <1>15 DEF R, T

\* The process that ran, when it is not blocked, goes back before or behind its
\* equals ...
LEMMA Yields ==
    ASSUME IInv, PrioritiesOK, TimeOK, status = "running", status' = "running",
           Live(current_proc),
           NEW L, NEW at, KeptAt(L, at), at[current_proc] = NULL,
           NEW fl, fl[current_proc] = {}, sched(L, fl, current_proc)
    PROVE  Scheduling!Yield(Order(L)) /\ TimeOK'
  <1> DEFINE c == current_proc
             t == ticks_left[c]
  <1>1. c \in Proc /\ c # NULL
    BY Constants DEF IInv, SchedOK
  <1>2. priority[c] = Scheduling!Home(c) /\ priority[c] \in Queue
    BY <1>1, Homes
  <1>3. t \in Nat /\ (t - 1 = 0 <=> t = 1)
    BY <1>1 DEF TimeOK
  <1>4. /\ Order(enqueue_tail(L, priority[c], c)) = Scheduling!Last(Order(L), c)
        /\ Order(enqueue_head(L, priority[c], c)) = Scheduling!First(Order(L), c)
    BY <1>1, <1>2, OrderEnqueue DEF Scheduling!First, Scheduling!Last
  <1>5. Accounted(L, fl, c)
    BY <1>1 DEF Accounted
  <1>6. Order(Reinserted(L, fl, c)) = IF t = 1 THEN Scheduling!Last(Order(L), c)
                                      ELSE Scheduling!First(Order(L), c)
    BY <1>3, <1>4, <1>5 DEF Reinserted
  <1>7. Charged(L, fl, c) = [ticks_left EXCEPT ![c] = @ - 1]
    BY <1>5 DEF Charged
  <1>8. Scheduling!Dispatch(Order(Reinserted(L, fl, c)), Charged(L, fl, c)) /\ TimeOK'
    BY <1>1, SchedDispatches DEF IInv
  <1> QED BY <1>6, <1>7, <1>8 DEF Scheduling!Yield

\* ... and otherwise does not.
LEMMA Blocks ==
    ASSUME IInv, TimeOK, status = "running", status' = "running",
           NEW L, NEW at, KeptAt(L, at), NEW fl, NEW c \in {current_proc, NULL},
           c # NULL => at[c] = NULL /\ fl[c] # {}, sched(L, fl, c)
    PROVE  Scheduling!Block(Order(L)) /\ TimeOK'
  <1>1. c \in Proc \cup {NULL}
    BY DEF IInv, SchedOK
  <1>2. ~Accounted(L, fl, c)
    BY DEF Accounted
  <1>3. Reinserted(L, fl, c) = L /\ Charged(L, fl, c) = ticks_left
    BY <1>2 DEF Reinserted, Charged
  <1>4. Scheduling!Dispatch(Order(Reinserted(L, fl, c)), Charged(L, fl, c)) /\ TimeOK'
    BY <1>1, SchedDispatches DEF IInv
  <1> QED BY <1>3, <1>4 DEF Scheduling!Block

-----------------------------------------------------------------------------
(* The steps of Kernel as steps of Scheduler. *)

LEMMA StillRunning ==
    ASSUME IInv', status = "running", NEW L, NEW fl, NEW c, sched(L, fl, c)
    PROVE  status' = "running"
  BY DEF sched, IInv, SchedOK

LEMMA TimerTicks ==
    ASSUME IInv, IInv', PInv, TimeOK, timer_handler
    PROVE  Scheduling!Tick /\ TimeOK'
  <1> DEFINE at == Placed(current_proc, state, flags, priority)
  <1>1. /\ status = "running" /\ sched(lists, flags, current_proc)
        /\ UNCHANGED quantum
    BY DEF timer_handler, tableVars
  <1>2. /\ status' = "running" /\ current_proc \in Proc
        /\ Live(current_proc) /\ flags[current_proc] = {}
        /\ KeptAt(lists, at) /\ PrioritiesOK
    BY <1>1, StillRunning DEF PInv, RunsOK, QueuesOK, IInv, SchedOK
  <1>3. at[current_proc] = NULL
    BY <1>2 DEF Placed, Live
  <1> HIDE DEF at
  <1>4. Scheduling!Yield(Order(lists)) /\ TimeOK'
    BY <1>1, <1>2, <1>3, Yields
  <1> QED BY <1>1, <1>4 DEF Scheduling!Tick, Order, Queues

\* c wakes the waiting process d, which comes before its equals.
LEMMA Wakes ==
    ASSUME IInv, PInv, status = "running", NEW d \in Proc, Live(d), flags[d] # {},
           NEW L, L = enqueue_head(lists, priority[d], d)
    PROVE  /\ d # current_proc /\ Scheduling!Waits(d)
           /\ Order(L) = Scheduling!First(Queues, d)
           /\ \E at : KeptAt(L, at) /\ at[current_proc] = NULL
  <1> DEFINE at == Placed(current_proc, state, flags, priority)
             b  == [at EXCEPT ![d] = priority[d]]
  <1>1. /\ current_proc \in Proc /\ KeptAt(lists, at) /\ PrioritiesOK
        /\ Live(current_proc) /\ flags[current_proc] = {} /\ d # current_proc
    BY DEF PInv, RunsOK, QueuesOK, IInv, SchedOK
  <1>2. at[d] = NULL /\ at[current_proc] = NULL
    BY <1>1 DEF Placed, Live
  <1>3. at \in [Proc -> Queue \cup {NULL}]
    BY <1>1 DEF KeptAt
  <1> HIDE DEF at
  <1>4. priority[d] = Scheduling!Home(d) /\ priority[d] \in Queue
    BY <1>1, Homes
  <1>5. Order(L) = [Order(lists) EXCEPT ![priority[d]] = <<d>> \o @] /\ KeptAt(L, b)
    BY <1>1, <1>2, <1>4, OrderEnqueue, KeptEnqueue
  <1>6. b[current_proc] = NULL
    BY <1>1, <1>2, <1>3
  <1>7. Scheduling!Waits(d)
    BY <1>1, <1>2, OrderWaits
  <1>8. Order(lists) = Queues
    BY DEF Order, Queues
  <1> QED BY <1>1, <1>4, <1>5, <1>6, <1>7, <1>8 DEF Scheduling!First

LEMMA CallRequests ==
    ASSUME IInv, IInv', PInv, TimeOK, NEW c \in User, NEW t \in LibraryTypes,
           UserCall(c, Request(t))
    PROVE  Scheduling!Request /\ TimeOK'
  <1> DEFINE L == enqueue_head(lists, priority[SYSTEM], SYSTEM)
  <1>1. /\ status = "running" /\ current_proc = c /\ flags[SYSTEM] = {RECEIVING}
        /\ flags' = [flags EXCEPT ![SYSTEM] = {},
                                  ![c] = IF t = "PUTC" THEN {} ELSE {RECEIVING}]
        /\ sched(L, flags', c)
    BY RequestEffect
  <1>2. /\ SYSTEM \in Proc /\ Live(SYSTEM) /\ PrioritiesOK /\ Live(c)
        /\ c \in Proc /\ c \notin {SYSTEM, IDLE}
    BY <1>1, Priorities, Constants DEF PInv, PrioritiesOK, RunsOK
  <1>3. flags'[c] = IF t = "PUTC" THEN {} ELSE {RECEIVING}
    BY <1>1, <1>2 DEF IInv, IpcOK, FlagsOK
  <1>4. status' = "running"
    BY <1>1, StillRunning
  <1>5. UNCHANGED quantum
    BY DEF UserCall, tableVars
  <1> HIDE DEF L
  <1>6. /\ Scheduling!Waits(SYSTEM) /\ Order(L) = Scheduling!First(Queues, SYSTEM)
        /\ \E at : KeptAt(L, at) /\ at[current_proc] = NULL
    BY <1>1, <1>2, Wakes DEF L
  <1>7. PICK at : KeptAt(L, at) /\ at[current_proc] = NULL
    BY <1>6
  <1>8. CASE t = "PUTC"
    <2>1. Scheduling!Yield(Order(L)) /\ TimeOK'
      BY <1>1, <1>2, <1>3, <1>4, <1>7, <1>8, Yields
    <2> QED BY <1>1, <1>2, <1>5, <1>6, <2>1 DEF Scheduling!Request
  <1>9. CASE t # "PUTC"
    <2>1. Scheduling!Block(Order(L)) /\ TimeOK'
      BY <1>1, <1>2, <1>3, <1>4, <1>7, <1>9, Blocks
    <2> QED BY <1>1, <1>2, <1>5, <1>6, <2>1 DEF Scheduling!Request
  <1> QED BY <1>8, <1>9

LEMMA SendReplies ==
    ASSUME IInv, IInv', PInv, TimeOK, Running(SYSTEM), NEW d \in Waiting,
           NEW m \in message_t, syscall_handler(SYSTEM, "SEND", d, m),
           UNCHANGED quantum
    PROVE  Scheduling!Reply /\ TimeOK'
  <1> DEFINE L == enqueue_head(lists, priority[d], d)
  <1>1. /\ d \in Proc /\ d # SYSTEM /\ Live(d) /\ flags[d] = {RECEIVING}
        /\ flags' = [flags EXCEPT ![d] = {}]
        /\ sched(L, flags', SYSTEM)
    BY ReplyEffect
  <1>2. /\ status = "running" /\ current_proc = SYSTEM /\ flags[SYSTEM] = {}
        /\ Live(SYSTEM) /\ PrioritiesOK /\ SYSTEM \in Proc /\ d # IDLE
    BY Constants, Priorities DEF Running, PInv, RunsOK, PrioritiesOK, Waiting
  <1>3. flags'[SYSTEM] = {}
    BY <1>1, <1>2 DEF IInv, IpcOK, FlagsOK
  <1>4. status' = "running"
    BY <1>1, <1>2, StillRunning
  <1> HIDE DEF L
  <1>5. /\ Scheduling!Waits(d) /\ Order(L) = Scheduling!First(Queues, d)
        /\ \E at : KeptAt(L, at) /\ at[current_proc] = NULL
    BY <1>1, <1>2, Wakes DEF L
  <1>6. PICK at : KeptAt(L, at) /\ at[current_proc] = NULL
    BY <1>5
  <1>7. Scheduling!Yield(Order(L)) /\ TimeOK'
    BY <1>1, <1>2, <1>3, <1>4, <1>6, Yields
  <1> QED BY <1>1, <1>2, <1>5, <1>7 DEF Scheduling!Reply

LEMMA ReceiveBlocks ==
    ASSUME IInv, IInv', PInv, TimeOK, SystemReceive
    PROVE  Scheduling!Receive /\ TimeOK'
  <1> DEFINE b  == [buf EXCEPT ![SYSTEM] = [NoMessage(SYSTEM) EXCEPT !.src = SYSTEM]]
             at == Placed(current_proc, state, flags, priority)
  <1>1. /\ status = "running" /\ current_proc = SYSTEM /\ SYSTEM \in Proc
        /\ sender_q[SYSTEM] = NULL /\ wini_receive(SYSTEM, b) /\ UNCHANGED quantum
        /\ KeptAt(lists, at)
    BY Constants DEF SystemReceive, syscall_handler, Running, PInv, LinksFree,
                     QueuesOK, tableVars
  <1> HIDE DEF b
  <1>2. /\ flags' = [flags EXCEPT ![SYSTEM] = @ \cup {RECEIVING}]
        /\ sched(lists, flags', SYSTEM)
    BY <1>1 DEF wini_receive
  <1>3. flags'[SYSTEM] # {}
    BY <1>1, <1>2 DEF IInv, IpcOK, FlagsOK
  <1>4. status' = "running"
    BY <1>1, <1>2, StillRunning
  <1>5. at[SYSTEM] = NULL
    BY <1>1 DEF PInv, PrioritiesOK, Placed, Live
  <1> HIDE DEF at
  <1>6. Scheduling!Block(Order(lists)) /\ TimeOK'
    BY <1>1, <1>2, <1>3, <1>4, <1>5, Blocks
  <1> QED BY <1>1, <1>6 DEF Scheduling!Receive, Order, Queues

LEMMA OrderFreed ==
    ASSUME NEW L, NEW at, KeptAt(L, at), NEW p \in Proc, at[p] = NULL
    PROVE  Order(enqueue_tail(L, FREE, p)) = Scheduling!Freed(Order(L), p)
  <1>1. FREE \in Queue
    BY DEF Queue
  <1>2. /\ Order(enqueue_tail(L, FREE, p)) = [Order(L) EXCEPT ![FREE] = Append(@, p)]
        /\ Order(enqueue_head(L, FREE, p)) = [Order(L) EXCEPT ![FREE] = <<p>> \o @]
    BY <1>1, OrderEnqueue
  <1> QED BY <1>2 DEF Scheduling!Freed

LEMMA FaultKills ==
    ASSUME IInv, IInv', PInv, TimeOK, NEW c \in User, fault_handler(c)
    PROVE  Scheduling!Kill /\ TimeOK'
  <1> DEFINE at == Placed(current_proc, state, flags, priority)
             L  == enqueue_tail(lists, FREE, c)
             b  == [at EXCEPT ![c] = FREE]
  <1>1. /\ status = "running" /\ current_proc = c /\ UNCHANGED <<quantum, flags>>
        /\ sched(L, flags, NULL) /\ KeptAt(lists, at)
        /\ Live(c) /\ c \in Proc /\ c \notin {SYSTEM, IDLE}
    BY Priorities DEF fault_handler, Running, PInv, RunsOK, QueuesOK, ipcVars
  <1>2. at[c] = NULL
    BY <1>1 DEF Placed, Live
  <1>3. status' = "running"
    BY <1>1, StillRunning
  <1> HIDE DEF at
  <1>4. Order(L) = Scheduling!Freed(Order(lists), c) /\ KeptAt(L, b)
    <2>1. FREE \in Queue
      BY DEF Queue
    <2>2. Order(L) = Scheduling!Freed(Order(lists), c)
      BY <1>1, <1>2, OrderFreed
    <2>3. KeptAt(L, b)
      BY <1>1, <1>2, <2>1, KeptEnqueue
    <2> QED BY <2>2, <2>3
  <1> HIDE DEF L, b
  <1>5. Scheduling!Block(Order(L)) /\ TimeOK'
    BY <1>1, <1>3, <1>4, Blocks
  <1>6. Order(L) = Scheduling!Freed(Queues, c)
    BY <1>4 DEF Order, Queues
  <1> QED BY <1>1, <1>5, <1>6 DEF Scheduling!Kill

LEMMA ExitEnds ==
    ASSUME IInv, PInv, TimeOK, SystemEnd
    PROVE  Scheduling!End /\ TimeOK'
  <1> DEFINE at == Placed(current_proc, state, flags, priority)
  <1>1. /\ Handles({"EXIT", "UNKNOWN", "NONE"})
        /\ lists' = enqueue_tail(lists, FREE, who')
        /\ UNCHANGED <<quantum, current_proc, ticks_left, status>>
    BY DEF SystemEnd
  <1>2. PICK p \in User : p = who'
    BY <1>1, Handling
  <1>3. /\ status = "running" /\ current_proc = SYSTEM /\ Waiting = {p}
        /\ p \in Proc /\ p \notin {SYSTEM, IDLE}
    BY <1>1, <1>2, Handling, Priorities
  <1>4. Live(p) /\ flags[p] # {} /\ KeptAt(lists, at)
    BY <1>3 DEF Waiting, PInv, QueuesOK
  <1>5. at[p] = NULL
    BY <1>3, <1>4 DEF Placed, Live
  <1> HIDE DEF at
  <1>6. Scheduling!Waits(p)
    BY <1>3, <1>4, <1>5, OrderWaits
  <1>7. Order(lists') = Scheduling!Freed(Order(lists), p)
    BY <1>1, <1>2, <1>3, <1>4, <1>5, OrderFreed
  <1>8. Queues' = Scheduling!Freed(Queues, p)
    BY <1>7 DEF Order, Queues
  <1>9. TimeOK'
    BY <1>1 DEF TimeOK
  <1> QED BY <1>1, <1>3, <1>6, <1>8, <1>9 DEF Scheduling!End

LEMMA ForkCreates ==
    ASSUME IInv, PInv, ImagesOK, TimeOK, SystemFork
    PROVE  (Scheduling!Create \/ Scheduling!Halt) /\ TimeOK'
  <1> DEFINE at == Placed(current_proc, state, flags, priority)
             p  == lists.head[FREE]
  <1>1. Handles({"FORK"}) /\ fork_proc(who')
    BY DEF SystemFork
  <1>2. PICK o \in User : o = who'
    BY <1>1, Handling
  <1>3. /\ status = "running" /\ current_proc = SYSTEM /\ Waiting = {o}
        /\ o \in Proc /\ o \notin {SYSTEM, IDLE} /\ o \in imaged
    BY <1>1, <1>2, Handling, Priorities DEF ImagesOK, Waiting
  <1>4. Live(o) /\ flags[o] # {} /\ KeptAt(lists, at)
    BY <1>3 DEF Waiting, PInv, QueuesOK
  <1>5. at[o] = NULL
    BY <1>3, <1>4 DEF Placed, Live
  <1>6. CASE Halts("panic")
    BY <1>3, <1>6 DEF Halts, Stop, tableVars, Scheduling!Halt, Queues, TimeOK
  <1>7. CASE p # NULL /\ ForkInto(o, p)
    <2>1. p \in Proc /\ state[p] = "DEAD"
      BY <1>3, <1>7, FreeSlotDead
    <2>2. p # o /\ p # SYSTEM
      BY <1>4, <2>1 DEF Live, PInv, PrioritiesOK
    <2> HIDE DEF at, p
    <2>3. /\ lists' = dequeue(lists, FREE)
          /\ ticks_left' = [ticks_left EXCEPT ![p] = ticks_left[o]]
          /\ quantum' = [quantum EXCEPT ![p] = quantum[o]]
          /\ UNCHANGED <<current_proc, status>>
      BY <1>7, <2>1, <2>2, DequeuedLink, Constants
         DEF ForkInto, ForkFields, Copied, IInv, SchedOK, ListInv, p
    <2>4. /\ Order(lists') = [Order(lists) EXCEPT ![FREE] = Tail(@)]
          /\ Head(Order(lists)[FREE]) = p /\ Order(lists)[FREE] # <<>>
      BY <1>4, <1>7, <2>3, Constants, OrderDequeue, OrderEmpty DEF p
    <2>5. Scheduling!Waits(o)
      BY <1>3, <1>4, <1>5, OrderWaits
    <2>6. Queues = Order(lists) /\ Queues' = Order(lists')
      BY DEF Queues, Order
    <2>7. Scheduling!Create
      BY <1>3, <2>3, <2>4, <2>5, <2>6 DEF Scheduling!Create
    <2>8. TimeOK'
      <3>1. ticks_left[o] \in Nat
        BY <1>3 DEF TimeOK
      <3>2. ticks_left' \in [Proc -> Nat] /\ ticks_left'[SYSTEM] = ticks_left[SYSTEM]
        BY <2>1, <2>2, <2>3, <3>1 DEF TimeOK
      <3> QED BY <1>3, <2>3, <3>2 DEF TimeOK
    <2> QED BY <2>7, <2>8
  <1> QED BY <1>1, <1>2, <1>3, <1>6, <1>7 DEF fork_proc

\* What the system task does for a request without touching a process, and an
\* interrupt of the serial port, schedule nobody.
LEMMA OthersStutter ==
    ASSUME TimeOK,
           SystemValue \/ SystemGetc \/ SystemNoReply \/ SerialInput \/ UNCHANGED vars
    PROVE  UNCHANGED Scheduling!vars /\ TimeOK'
  <1>1. UNCHANGED <<lists, current_proc, ticks_left, status, quantum>>
    BY DEF SystemValue, SystemGetc, SystemNoReply, SerialInput, vars, tableVars,
           schedVars
  <1> QED BY <1>1 DEF Scheduling!vars, Queues, TimeOK

LEMMA SchedulerStep ==
    ASSUME LibraryOnly
    PROVE  IInv /\ IInv' /\ PInv /\ ImagesOK /\ TimeOK /\ [Next]_vars =>
               [Scheduling!Next]_Scheduling!vars /\ TimeOK'
  <1> SUFFICES ASSUME IInv, IInv', PInv, ImagesOK, TimeOK, [Next]_vars
               PROVE  [Scheduling!Next]_Scheduling!vars /\ TimeOK'
    OBVIOUS
  <1>1. status = "running" => current_proc # NULL
    BY Constants DEF IInv, SchedOK
  <1>2. CASE timer_handler
    <2>1. Scheduling!Tick /\ TimeOK'
      BY <1>2, TimerTicks
    <2> QED BY <1>1, <1>2, <2>1 DEF Scheduling!Next, timer_handler
  <1>3. CASE UserStep
    <2>1. PICK c \in User : \/ \E call \in UserCalls : UserCall(c, call)
                            \/ fault_handler(c)
      BY <1>3 DEF UserStep, User
    <2>2. status = "running"
      BY <2>1 DEF UserCall, fault_handler, Running
    <2>3. CASE fault_handler(c)
      <3>1. Scheduling!Kill /\ TimeOK'
        BY <2>3, FaultKills
      <3> QED BY <1>1, <2>2, <3>1 DEF Scheduling!Next
    <2>4. ASSUME NEW call \in UserCalls, UserCall(c, call)
          PROVE  Scheduling!Request /\ TimeOK'
      <3>1. PICK t \in LibraryTypes : call = Request(t)
        BY DEF LibraryOnly
      <3>2. UserCall(c, Request(t))
        BY <2>4, <3>1
      <3> QED BY <3>2, CallRequests
    <2> QED BY <1>1, <2>1, <2>2, <2>3, <2>4 DEF Scheduling!Next
  <1>4. CASE SystemReceive
    <2>1. Scheduling!Receive /\ TimeOK'
      BY <1>4, ReceiveBlocks
    <2> QED BY <1>1, <1>4, <2>1 DEF Scheduling!Next, SystemReceive, Running
  <1>5. CASE SystemReply
    <2>1. /\ Running(SYSTEM) /\ sys_pc = "reply" /\ UNCHANGED quantum
          /\ syscall_handler(SYSTEM, "SEND", who, buf[SYSTEM])
      BY <1>5 DEF SystemReply, tableVars
    <2>2. who \in Waiting
      BY <2>1 DEF PInv, Served, Running
    <2>3. buf[SYSTEM] \in message_t
      BY Constants DEF IInv, IpcOK, BufOK
    <2>4. Scheduling!Reply /\ TimeOK'
      BY <2>1, <2>2, <2>3, SendReplies
    <2> QED BY <1>1, <2>1, <2>4 DEF Scheduling!Next, Running
  <1>6. CASE SystemReplyChild
    <2> DEFINE m == [buf[SYSTEM] EXCEPT !.i1 = 0]
    <2>1. /\ Running(SYSTEM) /\ sys_pc = "reply_child" /\ UNCHANGED quantum
          /\ syscall_handler(SYSTEM, "SEND", response, m)
      BY <1>6 DEF SystemReplyChild, tableVars
    <2>2. response \in Waiting
      BY <2>1 DEF PInv, Served
    <2>3. m \in message_t
      <3>1. 0 \in MsgValue
        BY SizeAssumption DEF MsgValue
      <3> QED BY <3>1, Constants DEF IInv, IpcOK, BufOK, message_t
    <2> HIDE DEF m
    <2>4. Scheduling!Reply /\ TimeOK'
      BY <2>1, <2>2, <2>3, SendReplies
    <2> QED BY <1>1, <2>1, <2>4 DEF Scheduling!Next, Running
  <1>7. CASE SystemEnd
    <2>1. Scheduling!End /\ TimeOK'
      BY <1>7, ExitEnds
    <2> QED BY <1>1, <1>7, <2>1 DEF Scheduling!Next, SystemEnd, Handles, Running
  <1>8. CASE SystemFork
    <2>1. (Scheduling!Create \/ Scheduling!Halt) /\ TimeOK'
      BY <1>8, ForkCreates
    <2> QED BY <1>1, <1>8, <2>1 DEF Scheduling!Next, SystemFork, Handles, Running
  <1>9. CASE SystemValue \/ SystemGetc \/ SystemNoReply \/ SerialInput \/ UNCHANGED vars
    BY <1>9, OthersStutter
  <1>10. ~SystemForkPid /\ ~SystemExec
    BY NotAsked
  <1> QED BY <1>2, <1>3, <1>4, <1>5, <1>6, <1>7, <1>8, <1>9, <1>10
          DEF Next, Halted, SystemTask, SystemWork

LEMMA SchedulerInit == Init => Scheduling!Init /\ TimeOK
  <1> SUFFICES ASSUME Init PROVE Scheduling!Init /\ TimeOK
    OBVIOUS
  <1>1. Queues = InitialQueues
    <2>1. Order(lists) = InitialQueues
      BY InitLists, OrderIs
    <2> QED BY <2>1 DEF Order, Queues
  <1>2. /\ quantum \in [Proc -> Nat \ {0}]
        /\ quantum[SYSTEM] = SYSTEM_QUANTUM /\ SYSTEM_QUANTUM \in Nat \ {0}
    <2>1. IInv
      BY InitOK
    <2>2. quantum \in [Proc -> Nat \ {0}]
      BY <2>1 DEF IInv, TableOK
    <2>3. quantum[SYSTEM] = SYSTEM_QUANTUM
      <3>1. quantum = [p \in Proc |-> CASE p = SYSTEM -> SYSTEM_QUANTUM
                                        [] p = INIT -> INIT_QUANTUM
                                        [] p = SHELL -> SHELL_QUANTUM
                                        [] OTHER -> DEFAULT_QUANTUM]
        BY DEF Init
      <3>2. SYSTEM \in Proc /\ SYSTEM # INIT /\ SYSTEM # SHELL
        BY Constants DEF SYSTEM, INIT, SHELL
      <3> QED BY <3>1, <3>2
    <2> QED BY <2>2, <2>3, QuantumAssumption
  <1>3. ticks_left = [p \in Proc |-> IF p = SYSTEM THEN quantum[p] ELSE 0]
    BY <1>2 DEF Init
  <1>4. Scheduling!Init
    BY <1>1, <1>2, <1>3 DEF Scheduling!Init, Init, InitialQueues, FreeSlots, Queue
  <1>5. TimeOK
    BY <1>2, <1>3, Constants DEF TimeOK, Init
  <1> QED BY <1>4, <1>5

\* The kernel's linked lists, its messages and the interleaving of its handlers
\* with the system task implement Scheduler: the processor goes to the process
\* that has waited longest among those of the highest priority, a process keeps
\* it for its quantum unless it waits, and free slots are reused in order.
THEOREM SchedulesInOrder ==
    ASSUME LibraryOnly
    PROVE  Spec => ImplementsScheduler
  <1>1. Init => Scheduling!Init /\ TimeOK
    BY SchedulerInit
  <1>2. IInv /\ IInv' /\ PInv /\ ImagesOK /\ TimeOK /\ [Next]_vars =>
            [Scheduling!Next]_Scheduling!vars /\ TimeOK'
    BY SchedulerStep
  <1>3. Spec => [](IInv /\ PInv /\ ImagesOK)
    BY Protocol
  <1> QED BY <1>1, <1>2, <1>3, PTL DEF Spec, ImplementsScheduler, Scheduling!Spec
================================================================================
