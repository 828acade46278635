-------------------------- MODULE InterruptedProofs --------------------------
(***************************************************************************)
(* Proof that InterruptedKernel implements Kernel, for every number of     *)
(* processes, when these use the library's calls (exec and fork_pid left   *)
(* out): timer ticks in the middle of end_process and of get_free_proc do  *)
(* no harm.                                                                *)
(*                                                                         *)
(* A is Kernel, with all that is proved about it, of the lists as they     *)
(* were before the operation that is going on (AtomicLists).  Its          *)
(* invariants hold of these, and what is left to show of the lists as they *)
(* are is how far the operation has got (Midway).                          *)
(***************************************************************************)
EXTENDS InterruptedKernel, KernelProofs

A == INSTANCE KernelProofs WITH lists <- AtomicLists, state <- AtomicState,
                                who <- AtomicWho

-----------------------------------------------------------------------------
(* While the system task is in no list operation A is Kernel. *)

Same == /\ AtomicLists = lists /\ AtomicLists' = lists'
        /\ AtomicState = state /\ AtomicState' = state'
        /\ AtomicWho = who /\ AtomicWho' = who'

\* The constants and the operators on lists are those of Kernel.
LEMMA SameConst ==
    /\ A!Proc = Proc /\ A!Tasks = Tasks /\ A!SYSTEM = SYSTEM /\ A!FREE = FREE
    /\ A!SENDING = SENDING /\ A!RECEIVING = RECEIVING
    /\ A!SYSTEM_PRIORITY = SYSTEM_PRIORITY
  BY DEF A!Proc, Proc, A!Tasks, Tasks, A!SYSTEM, SYSTEM, A!IDLE, IDLE, A!FREE, FREE,
         A!NUM_QUEUES, NUM_QUEUES, A!SENDING, SENDING, A!RECEIVING, RECEIVING,
         A!SYSTEM_PRIORITY, SYSTEM_PRIORITY

\* So what Kernel assumes of its constants holds of them there.
LEMMA SameCalls == UserCalls \subseteq A!Call
  BY CallAssumption DEF Call, A!Call, A!Operation, Operation, A!MsgType, MsgType,
                        MsgValue, A!MsgValue

LEMMA SameOps ==
    ASSUME NEW L, NEW q, NEW x
    PROVE  /\ A!enqueue_head(L, q, x) = enqueue_head(L, q, x)
           /\ A!enqueue_tail(L, q, x) = enqueue_tail(L, q, x)
           /\ A!dequeue(L, q) = dequeue(L, q)
  BY SMTT(60) DEF A!enqueue_head, enqueue_head, A!enqueue_tail, enqueue_tail,
                  A!dequeue, dequeue

LEMMA SameSched ==
    ASSUME Same, NEW L, NEW fl, NEW c, sched(L, fl, c)
    PROVE  A!sched(L, fl, c)
  BY DEF sched, A!sched, Same, A!Reinserted, Reinserted, A!Charged, Charged,
         A!Accounted, Accounted, A!TopQueue, TopQueue, A!NonEmpty, NonEmpty,
         A!ReadyQueue, ReadyQueue, A!NUM_QUEUES, NUM_QUEUES, A!enqueue_head,
         enqueue_head, A!enqueue_tail, enqueue_tail, A!dequeue, dequeue

LEMMA SameGet ==
    ASSUME Same, NEW n
    PROVE  A!get_proc(n) = get_proc(n)
  BY SameConst DEF get_proc, A!get_proc, Same

\* So is each handler, when the system task is in no list operation.
LEMMA SameTimer ==
    ASSUME Same, timer_handler PROVE A!timer_handler
  BY SameSched DEF timer_handler, A!timer_handler, tableVars, ipcVars, sysVars,
                   A!tableVars, A!ipcVars, A!sysVars, Same

LEMMA SameReceive ==
    ASSUME Same, NEW c, NEW b, wini_receive(c, b) PROVE A!wini_receive(c, b)
  <1> DEFINE p == sender_q[c]
  <1>1. CASE p # NULL /\ message[p] # NULL
    <2>1. sched(enqueue_head(lists, priority[p], p), flags', c)
      BY <1>1 DEF wini_receive
    <2>2. A!sched(A!enqueue_head(AtomicLists, priority[p], p), flags', c)
      BY <2>1, SameSched, SameOps DEF Same
    <2> QED BY <1>1, <2>2, SameConst DEF wini_receive, A!wini_receive
  <1>2. CASE p = NULL
    <2>1. sched(lists, flags', c)
      BY <1>2 DEF wini_receive
    <2>2. A!sched(AtomicLists, flags', c)
      BY <2>1, SameSched DEF Same
    <2> QED BY <1>2, <2>2, SameConst DEF wini_receive, A!wini_receive
  <1>3. CASE p # NULL /\ message[p] = NULL
    BY <1>3 DEF wini_receive, A!wini_receive, Stop, A!Stop, Same
  <1> QED BY <1>1, <1>2, <1>3

LEMMA SameDeliver ==
    ASSUME Same, NEW c, NEW d, NEW fl, NEW b, Deliver(c, d, fl, b)
    PROVE  A!Deliver(c, d, fl, b)
  <1>1. sched(enqueue_head(lists, priority[d], d), flags', c)
    BY DEF Deliver
  <1>2. A!sched(A!enqueue_head(AtomicLists, priority[d], d), flags', c)
    BY <1>1, SameSched, SameOps DEF Same
  <1> QED BY <1>2, SameConst DEF Deliver, A!Deliver

LEMMA SameSend ==
    ASSUME Same, NEW c, NEW dest, NEW fl, NEW b, wini_send(c, dest, fl, b)
    PROVE  A!wini_send(c, dest, fl, b)
  <1> DEFINE d == get_proc(dest)
  <1>0. d = A!get_proc(dest)
    BY SameGet
  <1> HIDE DEF d
  <1>1. CASE d = NULL
    <2>1. sched(lists, fl, c)
      BY <1>1 DEF wini_send, d
    <2>2. A!sched(AtomicLists, fl, c)
      BY <2>1, SameSched DEF Same
    <2> QED BY <1>0, <1>1, <2>2 DEF wini_send, A!wini_send, d
  <1>2. CASE d # NULL /\ RECEIVING \in fl[d]
    <2>1. Deliver(c, d, fl, b)
      BY <1>2 DEF wini_send, d
    <2>2. A!Deliver(c, d, fl, b)
      BY <2>1, SameDeliver
    <2> QED BY <1>0, <1>2, <2>2, SameConst DEF wini_send, A!wini_send, d
  <1>3. CASE d # NULL /\ RECEIVING \notin fl[d]
    <2>1. sched(lists, flags', c)
      BY <1>3 DEF wini_send, d
    <2>2. A!sched(AtomicLists, flags', c)
      BY <2>1, SameSched DEF Same
    <2> QED BY <1>0, <1>3, <2>2, SameConst DEF wini_send, A!wini_send, d
  <1> QED BY <1>1, <1>2, <1>3

LEMMA SameSendonce ==
    ASSUME Same, NEW c, NEW dest, NEW b, wini_sendonce(c, dest, b)
    PROVE  A!wini_sendonce(c, dest, b)
  <1> DEFINE d == get_proc(dest)
  <1>0. d = A!get_proc(dest)
    BY SameGet
  <1> HIDE DEF d
  <1>1. CASE d = NULL
    <2>1. sched(lists, flags, c)
      BY <1>1 DEF wini_sendonce, d
    <2>2. A!sched(AtomicLists, flags, c)
      BY <2>1, SameSched DEF Same
    <2> QED BY <1>0, <1>1, <2>2 DEF wini_sendonce, A!wini_sendonce, d
  <1>2. CASE d # NULL /\ RECEIVING \in flags[d]
    <2>1. Deliver(c, d, flags, b)
      BY <1>2 DEF wini_sendonce, d
    <2>2. A!Deliver(c, d, flags, b)
      BY <2>1, SameDeliver
    <2> QED BY <1>0, <1>2, <2>2, SameConst DEF wini_sendonce, A!wini_sendonce, d
  <1>3. CASE d # NULL /\ RECEIVING \notin flags[d]
    <2>1. sched(enqueue_tail(lists, priority[c], c), flags, c)
      BY <1>3 DEF wini_sendonce, d
    <2>2. A!sched(A!enqueue_tail(AtomicLists, priority[c], c), flags, c)
      BY <2>1, SameSched, SameOps DEF Same
    <2> QED BY <1>0, <1>3, <2>2, SameConst DEF wini_sendonce, A!wini_sendonce, d
  <1> QED BY <1>1, <1>2, <1>3

LEMMA SameCall ==
    ASSUME Same, NEW c, NEW op, NEW dest, NEW m, syscall_handler(c, op, dest, m)
    PROVE  A!syscall_handler(c, op, dest, m)
  <1> DEFINE b == [buf EXCEPT ![c] = [m EXCEPT !.src = c]]
             f == [flags EXCEPT ![c] = flags[c] \cup {RECEIVING}]
  <1>1. CASE op = "SENDREC" /\ wini_send(c, dest, f, b)
    <2>1. A!wini_send(c, dest, f, b)
      BY <1>1, SameSend
    <2> QED BY <1>1, <2>1, SameConst DEF A!syscall_handler
  <1>2. CASE op = "SEND" /\ wini_send(c, dest, flags, b)
    <2>1. A!wini_send(c, dest, flags, b)
      BY <1>2, SameSend
    <2> QED BY <1>2, <2>1 DEF A!syscall_handler
  <1>3. CASE op = "RECEIVE" /\ wini_receive(c, b)
    <2>1. A!wini_receive(c, b)
      BY <1>3, SameReceive
    <2> QED BY <1>3, <2>1 DEF A!syscall_handler
  <1>4. CASE op = "SENDONCE" /\ wini_sendonce(c, dest, b)
    <2>1. A!wini_sendonce(c, dest, b)
      BY <1>4, SameSendonce
    <2> QED BY <1>4, <2>1 DEF A!syscall_handler
  <1>5. CASE op = "OTHER" /\ sched(lists, flags, c) /\ ret' = [ret EXCEPT ![c] = -1]
             /\ buf' = b /\ UNCHANGED <<flags, sender_q, next_sender, message>>
    <2>1. A!sched(AtomicLists, flags, c)
      BY <1>5, SameSched DEF Same
    <2> QED BY <1>5, <2>1 DEF A!syscall_handler
  <1> QED BY <1>1, <1>2, <1>3, <1>4, <1>5 DEF syscall_handler

LEMMA SameUser ==
    ASSUME Same, UserStep PROVE A!UserStep
  <1>1. PICK c \in Proc \ Tasks : \/ \E call \in UserCalls : UserCall(c, call)
                                  \/ fault_handler(c)
    BY DEF UserStep
  <1>2. Running(c) => A!Running(c)
    BY DEF Running, A!Running
  <1>3. ASSUME NEW call \in UserCalls, UserCall(c, call) PROVE A!UserCall(c, call)
    <2>1. A!syscall_handler(c, call.op, call.dest,
                            [src |-> c, type |-> call.type, i1 |-> call.i1])
      BY <1>3, SameCall DEF UserCall
    <2> QED BY <1>2, <1>3, <2>1 DEF UserCall, A!UserCall, tableVars, sysVars,
                                    A!tableVars, A!sysVars, Same
  <1>4. ASSUME fault_handler(c) PROVE A!fault_handler(c)
    <2>1. sched(enqueue_tail(lists, FREE, c), flags, NULL)
      BY <1>4 DEF fault_handler
    <2>2. A!sched(A!enqueue_tail(AtomicLists, A!FREE, c), flags, NULL)
      BY <2>1, SameSched, SameOps, SameConst DEF Same
    <2> QED BY <1>2, <1>4, <2>2 DEF fault_handler, A!fault_handler, ipcVars, sysVars,
                                    A!ipcVars, A!sysVars, Same
  <1> QED BY <1>1, <1>3, <1>4, SameConst DEF A!UserStep

LEMMA SameHandles ==
    ASSUME Same, NEW types PROVE Handles(types) <=> A!Handles(types)
  BY SameConst DEF Handles, A!Handles, Running, A!Running, Same

LEMMA SameSimple ==
    ASSUME Same,
           \/ SystemValue \/ SystemGetc \/ SystemNoReply \/ SystemEnd
           \/ SerialInput \/ Halted
    PROVE  \/ A!SystemValue \/ A!SystemGetc \/ A!SystemNoReply \/ A!SystemEnd
           \/ A!SerialInput \/ A!Halted
  <1> USE SameHandles, SameConst, SameOps
      DEF Same, tableVars, ipcVars, schedVars, sysVars, vars, A!tableVars, A!ipcVars,
          A!schedVars, A!sysVars, A!vars
  <1>1. CASE SystemValue
    BY <1>1 DEF SystemValue, A!SystemValue
  <1>2. CASE SystemGetc
    BY <1>2 DEF SystemGetc, A!SystemGetc
  <1>3. CASE SystemNoReply
    BY <1>3 DEF SystemNoReply, A!SystemNoReply
  <1>4. CASE SystemEnd
    BY <1>4 DEF SystemEnd, A!SystemEnd
  <1>5. CASE SerialInput
    BY <1>5 DEF SerialInput, A!SerialInput
  <1>6. CASE Halted
    BY <1>6 DEF Halted, A!Halted
  <1> QED BY <1>1, <1>2, <1>3, <1>4, <1>5, <1>6

LEMMA SameHalts ==
    ASSUME Same, NEW how, Halts(how) PROVE A!Halts(how)
  BY DEF Halts, A!Halts, Stop, A!Stop, Same, tableVars, ipcVars, A!tableVars, A!ipcVars

LEMMA SameForkProc ==
    ASSUME Same, NEW o, fork_proc(o) PROVE A!fork_proc(o)
  <1> DEFINE p == lists.head[FREE]
  <1>1. CASE o \notin imaged /\ response' = -1 /\ buf' = [buf EXCEPT ![SYSTEM].i1 = -1]
             /\ UNCHANGED <<tableVars, flags, sender_q, next_sender, message, ret,
                            schedVars, rx>>
    BY <1>1, SameConst DEF A!fork_proc, Same, tableVars, schedVars, A!tableVars,
                           A!schedVars
  <1>2. CASE o \in imaged /\ p # NULL /\ TRUE \in AllocOutcomes /\ ForkInto(o, p)
    <2>1. A!ForkFields(o, p)
      BY <1>2, SameConst DEF ForkInto, ForkFields, A!ForkFields, Copied, A!Copied, Same
    <2>2. A!ForkInto(o, p)
      BY <1>2, <2>1, SameConst, SameOps DEF ForkInto, A!ForkInto, Same
    <2>3. p = AtomicLists.head[A!FREE]
      BY SameConst DEF Same
    <2> HIDE DEF p
    <2> QED BY <1>2, <2>2, <2>3, SameConst DEF A!fork_proc
  <1>3. CASE o \in imaged /\ (p = NULL \/ FALSE \in AllocOutcomes) /\ Halts("panic")
    <2>1. A!Halts("panic")
      BY <1>3, SameHalts
    <2> QED BY <1>3, <2>1, SameConst DEF A!fork_proc, Same
  <1> QED BY <1>1, <1>2, <1>3 DEF fork_proc

LEMMA SameFork == ASSUME Same, SystemFork PROVE A!SystemFork
  <1>1. A!fork_proc(who')
    BY SameForkProc DEF SystemFork
  <1>2. Handles({"FORK"}) /\ sys_pc' = "reply" /\ who' = AtomicWho'
    BY DEF SystemFork, Same
  <1> QED BY <1>1, <1>2, SameHandles DEF A!SystemFork

LEMMA SameForkPid == ASSUME Same, SystemForkPid PROVE A!SystemForkPid
  <1> DEFINE o == get_proc(buf[SYSTEM].i1)
  <1>1. /\ Handles({"FORK_PID"}) /\ sys_pc' = "reply"
        /\ \/ o # NULL /\ fork_proc(o)
           \/ o = NULL /\ Halts("wild")
    BY DEF SystemForkPid
  <1>2. o = A!get_proc(buf[A!SYSTEM].i1)
    BY SameGet, SameConst
  <1> HIDE DEF o
  <1>3. \/ o # NULL /\ A!fork_proc(o)
        \/ o = NULL /\ A!Halts("wild")
    BY <1>1, SameForkProc, SameHalts
  <1> QED BY <1>1, <1>2, <1>3, SameHandles DEF A!SystemForkPid

LEMMA SameExec == ASSUME Same, SystemExec PROVE A!SystemExec
  <1> DEFINE p == get_proc(who')
  <1>1. /\ Handles({"EXEC"}) /\ sys_pc' = "receive"
        /\ \/ p # NULL /\ TRUE \in AllocOutcomes /\ ReplaceProcess(p)
           \/ (p = NULL \/ FALSE \in AllocOutcomes) /\ Halts("panic")
           \/ FALSE \in AllocOutcomes /\ Halts("wild")
           \/ UNCHANGED <<tableVars, ipcVars, schedVars, response, rx>>
    BY DEF SystemExec
  <1>2. p = A!get_proc(AtomicWho')
    BY SameGet DEF Same
  <1> HIDE DEF p
  <1>3. ReplaceProcess(p) => A!ReplaceProcess(p)
    BY SameConst, SameOps DEF ReplaceProcess, A!ReplaceProcess, Same
  <1>4. UNCHANGED <<tableVars, ipcVars, schedVars, response, rx>> =>
            UNCHANGED <<A!tableVars, A!ipcVars, A!schedVars, response, rx>>
    BY DEF tableVars, ipcVars, schedVars, A!tableVars, A!ipcVars, A!schedVars, Same
  <1>5. A!Handles({"EXEC"})
    BY <1>1, SameHandles
  <1>6. \A how \in {"panic", "wild"} : Halts(how) => A!Halts(how)
    BY SameHalts
  <1> QED BY <1>1, <1>2, <1>3, <1>4, <1>5, <1>6 DEF A!SystemExec

LEMMA SameTraps ==
    ASSUME Same, SystemReceive \/ SystemReply \/ SystemReplyChild
    PROVE  A!SystemReceive \/ A!SystemReply \/ A!SystemReplyChild
  <1>0. Running(SYSTEM) => A!Running(A!SYSTEM)
    BY SameConst DEF Running, A!Running
  <1>1. CASE SystemReceive
    <2>1. A!syscall_handler(SYSTEM, "RECEIVE", NULL, A!NoMessage(SYSTEM))
      BY <1>1, SameCall DEF SystemReceive, NoMessage, A!NoMessage
    <2> QED BY <1>0, <1>1, <2>1, SameConst
            DEF SystemReceive, A!SystemReceive, Same, tableVars, A!tableVars
  <1>2. CASE SystemReply
    <2>1. A!syscall_handler(SYSTEM, "SEND", AtomicWho, buf[SYSTEM])
      BY <1>2, SameCall DEF SystemReply, Same
    <2> QED BY <1>0, <1>2, <2>1, SameConst
            DEF SystemReply, A!SystemReply, Same, tableVars, A!tableVars
  <1>3. CASE SystemReplyChild
    <2>1. A!syscall_handler(SYSTEM, "SEND", response, [buf[SYSTEM] EXCEPT !.i1 = 0])
      BY <1>3, SameCall DEF SystemReplyChild
    <2> QED BY <1>0, <1>3, <2>1, SameConst
            DEF SystemReplyChild, A!SystemReplyChild, Same, tableVars, A!tableVars
  <1> QED BY <1>1, <1>2, <1>3

LEMMA SameStep == ASSUME Same, Next PROVE A!Next
  <1>1. CASE timer_handler
    BY <1>1, SameTimer DEF A!Next
  <1>2. CASE UserStep
    BY <1>2, SameUser DEF A!Next
  <1>3. CASE SystemReceive \/ SystemReply \/ SystemReplyChild
    BY <1>3, SameTraps DEF A!Next, A!SystemTask
  <1>4. CASE SystemValue \/ SystemGetc \/ SystemNoReply \/ SystemEnd \/ SerialInput
             \/ Halted
    BY <1>4, SameSimple DEF A!Next, A!SystemTask, A!SystemWork
  <1>5. CASE SystemFork \/ SystemForkPid \/ SystemExec
    BY <1>5, SameFork, SameForkPid, SameExec DEF A!Next, A!SystemTask, A!SystemWork
  <1> QED BY <1>1, <1>2, <1>3, <1>4, <1>5 DEF Next, SystemTask, SystemWork

-----------------------------------------------------------------------------
(* The stores of one operation. *)

\* The lists while p is being put on the free list, when the stores of todo are
\* left of enqueue_tail and b is what the lists were.
EndAt(L, b, p, todo) ==
    LET h == b.head[FREE]
        t == b.tail[FREE]
        At(head, tail, rest) ==
            L.head[FREE] = head /\ L.tail[FREE] = tail /\ todo = rest
    IN  /\ L \in Stores(Proc, Queue) /\ b \in Stores(Proc, Queue)
        /\ p \in Proc \ {t} /\ L.next[p] = b.next[p]
        /\ \/ /\ h = NULL
              /\ t # NULL => L.next[t] = b.next[t]
              /\ \/ At(h, t, <<"tail", "head", "next">>)
                 \/ At(h, p, <<"head", "next">>)
                 \/ At(h, t, <<"head", "tail", "next">>)
                 \/ At(p, t, <<"tail", "next">>)
                 \/ At(p, p, <<"next">>)
           \/ /\ h # NULL /\ t # NULL
              /\ \/ At(h, t, <<"link", "tail", "next">>) /\ L.next[t] = b.next[t]
                 \/ At(h, t, <<"tail", "next">>) /\ L.next[t] = p
                 \/ At(h, p, <<"next">>) /\ L.next[t] = p

\* The same while p, the head of the free list, is being taken off it.
ForkAt(L, b, p, todo) ==
    LET h == b.head[FREE]
        t == b.tail[FREE]
        At(head, tail, rest) ==
            L.head[FREE] = head /\ L.tail[FREE] = tail /\ todo = rest
    IN  /\ L \in Stores(Proc, Queue) /\ b \in Stores(Proc, Queue)
        /\ p \in Proc /\ p = h /\ t # NULL
        /\ L.next[p] = b.next[p] /\ L.next[t] = b.next[t]
        /\ \/ /\ h = t
              /\ \/ At(h, t, <<"no_tail", "no_head", "next">>)
                 \/ At(h, NULL, <<"no_head", "next">>)
                 \/ At(h, t, <<"no_head", "no_tail", "next">>)
                 \/ At(NULL, t, <<"no_tail", "next">>)
                 \/ At(NULL, NULL, <<"next">>)
           \/ /\ h # t
              /\ \/ At(h, t, <<"skip", "next">>)
                 \/ At(b.next[p], t, <<"next">>)


\* The lists without the stores that have been made: see AtomicLists.
Undone(L, b, p) ==
    [head |-> [L.head EXCEPT ![FREE] = b.head[FREE]],
     tail |-> [L.tail EXCEPT ![FREE] = b.tail[FREE]],
     next |-> [x \in Proc |-> IF x \in {p, b.tail[FREE]} THEN b.next[x]
                             ELSE L.next[x]]]

LEMMA Stores3 ==
    ASSUME NEW a, NEW b, NEW c
    PROVE  /\ Head(<<a, b, c>>) = a /\ Tail(<<a, b, c>>) = <<b, c>>
           /\ Len(<<a, b, c>>) = 3
           /\ Head(<<b, c>>) = b /\ Tail(<<b, c>>) = <<c>> /\ Len(<<b, c>>) = 2
           /\ Head(<<c>>) = c /\ Len(<<c>>) = 1
  OBVIOUS

\* Nothing has been stored when an operation starts.
LEMMA EndStarts ==
    ASSUME NEW L \in Stores(Proc, Queue), NEW p \in Proc, p # L.tail[FREE],
           L.head[FREE] # NULL => L.tail[FREE] # NULL,
           NEW todo \in EnqueueStores(L, FREE)
    PROVE  EndAt(L, L, p, todo)
  BY DEF EnqueueStores, EndAt

LEMMA ForkStarts ==
    ASSUME NEW L \in Stores(Proc, Queue), L.head[FREE] # NULL, L.tail[FREE] # NULL,
           NEW todo \in DequeueStores(L, FREE)
    PROVE  ForkAt(L, L, L.head[FREE], todo)
  BY Constants DEF DequeueStores, ForkAt, Stores

LEMMA NothingUndone ==
    ASSUME NEW L \in Stores(Proc, Queue), NEW p
    PROVE  Undone(L, L, p) = L
  BY Constants DEF Undone, Stores

\* The lists are known by their pointers.
LEMMA ByPointer ==
    ASSUME NEW K \in Stores(Proc, Queue), NEW L \in Stores(Proc, Queue),
           \A q \in Queue : K.head[q] = L.head[q] /\ K.tail[q] = L.tail[q],
           \A x \in Proc : K.next[x] = L.next[x]
    PROVE  K = L
  <1>1. K.head = L.head
    BY DEF Stores
  <1>2. K.tail = L.tail
    BY DEF Stores
  <1>3. K.next = L.next
    BY DEF Stores
  <1> QED BY <1>1, <1>2, <1>3 DEF Stores

\* Pointer by pointer: what a store does, ...
IsStored(K, L, p, what) ==
    /\ K \in Stores(Proc, Queue)
    /\ \A q \in Queue \ {FREE} : K.head[q] = L.head[q] /\ K.tail[q] = L.tail[q]
    /\ K.head[FREE] = IF what = "head" THEN p
                      ELSE IF what = "no_head" THEN NULL
                      ELSE IF what = "skip" THEN L.next[p] ELSE L.head[FREE]
    /\ K.tail[FREE] = IF what = "tail" THEN p
                      ELSE IF what = "no_tail" THEN NULL ELSE L.tail[FREE]
    /\ \A x \in Proc : K.next[x] = IF what = "link" /\ x = L.tail[FREE] THEN p
                                  ELSE IF what = "next" /\ x = p THEN NULL
                                  ELSE L.next[x]

LEMMA StoredPointers ==
    ASSUME NEW L \in Stores(Proc, Queue), NEW p \in Proc,
           NEW what \in {"head", "tail", "link", "next", "no_head", "no_tail", "skip"},
           what = "link" => L.tail[FREE] \in Proc
    PROVE  IsStored(Stored(L, FREE, p, what), L, p, what)
  <1>0. FREE \in Queue
    BY Constants
  <1> DEFINE K == Stored(L, FREE, p, what)
  <1>1. CASE what \in {"head", "no_head", "skip"}
    <2>1. PICK v \in Proc \cup {NULL} :
              /\ K = [L EXCEPT !.head = [L.head EXCEPT ![FREE] = v]]
              /\ v = IF what = "head" THEN p
                     ELSE IF what = "no_head" THEN NULL ELSE L.next[p]
      BY <1>1 DEF Stored, Stores
    <2> HIDE DEF K
    <2>2. /\ K.head = [L.head EXCEPT ![FREE] = v]
          /\ K.tail = L.tail /\ K.next = L.next
          /\ K \in Stores(Proc, Queue)
      <3>1. [L.head EXCEPT ![FREE] = v] \in [Queue -> Proc \cup {NULL}]
        BY DEF Stores
      <3> QED BY <2>1, <3>1 DEF Stores
    <2>3. K.head[FREE] = v /\ \A q \in Queue \ {FREE} : K.head[q] = L.head[q]
      BY <1>0, <2>2 DEF Stores
    <2>4. IsStored(K, L, p, what)
      BY <1>1, <2>1, <2>2, <2>3 DEF IsStored
    <2> QED BY <2>4 DEF K
  <1>2. CASE what \in {"tail", "no_tail"}
    <2>1. PICK v \in Proc \cup {NULL} :
              /\ K = [L EXCEPT !.tail = [L.tail EXCEPT ![FREE] = v]]
              /\ v = IF what = "tail" THEN p ELSE NULL
      BY <1>2 DEF Stored
    <2> HIDE DEF K
    <2>2. /\ K.tail = [L.tail EXCEPT ![FREE] = v]
          /\ K.head = L.head /\ K.next = L.next
          /\ K \in Stores(Proc, Queue)
      <3>1. [L.tail EXCEPT ![FREE] = v] \in [Queue -> Proc \cup {NULL}]
        BY DEF Stores
      <3> QED BY <2>1, <3>1 DEF Stores
    <2>3. K.tail[FREE] = v /\ \A q \in Queue \ {FREE} : K.tail[q] = L.tail[q]
      BY <1>0, <2>2 DEF Stores
    <2>4. IsStored(K, L, p, what)
      BY <1>2, <2>1, <2>2, <2>3 DEF IsStored
    <2> QED BY <2>4 DEF K
  <1>3. CASE what \in {"link", "next"}
    <2>1. PICK y \in Proc, v \in Proc \cup {NULL} :
              /\ K = [L EXCEPT !.next = [L.next EXCEPT ![y] = v]]
              /\ y = IF what = "link" THEN L.tail[FREE] ELSE p
              /\ v = IF what = "link" THEN p ELSE NULL
      BY <1>3 DEF Stored
    <2> HIDE DEF K
    <2>2. /\ K.next = [L.next EXCEPT ![y] = v]
          /\ K.head = L.head /\ K.tail = L.tail
          /\ K \in Stores(Proc, Queue)
      <3>1. [L.next EXCEPT ![y] = v] \in [Proc -> Proc \cup {NULL}]
        BY DEF Stores
      <3> QED BY <2>1, <3>1 DEF Stores
    <2>3. K.next[y] = v /\ \A x \in Proc \ {y} : K.next[x] = L.next[x]
      BY <2>2 DEF Stores
    <2>4. IsStored(K, L, p, what)
      BY <1>3, <2>1, <2>2, <2>3 DEF IsStored
    <2> QED BY <2>4 DEF K
  <1> QED BY <1>1, <1>2, <1>3

\* ... what Undone restores, ...
IsUndone(U, L, b, p) ==
    /\ U \in Stores(Proc, Queue)
    /\ U.head[FREE] = b.head[FREE] /\ U.tail[FREE] = b.tail[FREE]
    /\ \A q \in Queue \ {FREE} : U.head[q] = L.head[q] /\ U.tail[q] = L.tail[q]
    /\ \A x \in Proc : U.next[x] = IF x \in {p, b.tail[FREE]} THEN b.next[x]
                                  ELSE L.next[x]

LEMMA UndonePointers ==
    ASSUME NEW L \in Stores(Proc, Queue), NEW b \in Stores(Proc, Queue), NEW p \in Proc
    PROVE  IsUndone(Undone(L, b, p), L, b, p)
  <1> DEFINE U == Undone(L, b, p)
  <1>1. FREE \in Queue
    BY Constants
  <1>2. /\ U.head = [L.head EXCEPT ![FREE] = b.head[FREE]]
        /\ U.tail = [L.tail EXCEPT ![FREE] = b.tail[FREE]]
        /\ U.next = [x \in Proc |-> IF x \in {p, b.tail[FREE]} THEN b.next[x]
                                    ELSE L.next[x]]
    BY DEF Undone
  <1>3. U \in Stores(Proc, Queue)
    BY <1>1 DEF Undone, Stores
  <1> HIDE DEF U
  <1>4. IsUndone(U, L, b, p)
    BY <1>1, <1>2, <1>3 DEF Stores, IsUndone
  <1> QED BY <1>4 DEF U

LEMMA UndoneAgain ==
    ASSUME NEW K \in Stores(Proc, Queue), NEW L \in Stores(Proc, Queue),
           NEW b \in Stores(Proc, Queue), NEW p \in Proc,
           \A q \in Queue \ {FREE} : K.head[q] = L.head[q] /\ K.tail[q] = L.tail[q],
           \A x \in Proc \ {p, b.tail[FREE]} : K.next[x] = L.next[x]
    PROVE  Undone(K, b, p) = Undone(L, b, p)
  <1> DEFINE U == Undone(K, b, p)
             V == Undone(L, b, p)
  <1>0. IsUndone(U, K, b, p) /\ IsUndone(V, L, b, p)
    BY UndonePointers
  <1> HIDE DEF U, V
  <1>1. \A q \in Queue : U.head[q] = V.head[q] /\ U.tail[q] = V.tail[q]
    BY <1>0 DEF IsUndone
  <1>2. \A x \in Proc : U.next[x] = V.next[x]
    BY <1>0 DEF IsUndone
  <1>3. U = V
    BY <1>0, <1>1, <1>2, ByPointer DEF IsUndone
  <1> QED BY <1>3 DEF U, V

\* A store that is not the last touches what Undone restores, and nothing else.
LEMMA EndGoesOn ==
    ASSUME NEW L, NEW b, NEW p, NEW todo, EndAt(L, b, p, todo), Len(todo) > 1
    PROVE  /\ EndAt(Stored(L, FREE, p, Head(todo)), b, p, Tail(todo))
           /\ Undone(Stored(L, FREE, p, Head(todo)), b, p) = Undone(L, b, p)
  <1> DEFINE h == b.head[FREE]
             t == b.tail[FREE]
             K == Stored(L, FREE, p, Head(todo))
             At(head, tail, rest) ==
                 L.head[FREE] = head /\ L.tail[FREE] = tail /\ todo = rest
  <1>1. /\ L \in Stores(Proc, Queue) /\ b \in Stores(Proc, Queue) /\ p \in Proc
        /\ p # t /\ L.next[p] = b.next[p] /\ (t # NULL => t \in Proc)
    BY Constants DEF EndAt, Stores
  <1>2. /\ h = NULL => \/ At(h, t, <<"tail", "head", "next">>)
                       \/ At(h, p, <<"head", "next">>)
                       \/ At(h, t, <<"head", "tail", "next">>)
                       \/ At(p, t, <<"tail", "next">>)
        /\ h = NULL => (t # NULL => L.next[t] = b.next[t])
        /\ h # NULL =>
              /\ t # NULL
              /\ \/ At(h, t, <<"link", "tail", "next">>) /\ L.next[t] = b.next[t]
                 \/ At(h, t, <<"tail", "next">>) /\ L.next[t] = p
    <2>1. todo # <<"next">>
      BY Stores3
    <2> QED BY <2>1 DEF EndAt
  <1>3. /\ Head(todo) \in {"head", "tail", "link"}
        /\ Head(todo) = "link" => h # NULL /\ L.tail[FREE] \in Proc /\ L.tail[FREE] = t
    BY <1>1, <1>2, Stores3
  <1>4. IsStored(K, L, p, Head(todo))
    BY <1>1, <1>3, StoredPointers
  <1> HIDE DEF K
  <1>5. Undone(K, b, p) = Undone(L, b, p)
    BY <1>1, <1>3, <1>4, UndoneAgain DEF IsStored
  <1>6. EndAt(K, b, p, Tail(todo))
    <2>1. K.next[p] = b.next[p] /\ K \in Stores(Proc, Queue)
      BY <1>1, <1>3, <1>4 DEF IsStored
    <2>2. h = NULL => (t # NULL => K.next[t] = b.next[t])
      BY <1>1, <1>2, <1>3, <1>4 DEF IsStored
    <2>3. CASE h = NULL /\ At(h, t, <<"tail", "head", "next">>)
      <3>1. Head(todo) = "tail" /\ Tail(todo) = <<"head", "next">>
        BY <2>3, Stores3
      <3>2. K.head[FREE] = h /\ K.tail[FREE] = p
        BY <1>4, <2>3, <3>1 DEF IsStored
      <3> QED BY <1>1, <2>1, <2>2, <2>3, <3>1, <3>2 DEF EndAt
    <2>4. CASE h = NULL /\ At(h, p, <<"head", "next">>)
      <3>1. Head(todo) = "head" /\ Tail(todo) = <<"next">>
        BY <2>4, Stores3
      <3>2. K.head[FREE] = p /\ K.tail[FREE] = p
        BY <1>4, <2>4, <3>1 DEF IsStored
      <3> QED BY <1>1, <2>1, <2>2, <2>4, <3>1, <3>2 DEF EndAt
    <2>5. CASE h = NULL /\ At(h, t, <<"head", "tail", "next">>)
      <3>1. Head(todo) = "head" /\ Tail(todo) = <<"tail", "next">>
        BY <2>5, Stores3
      <3>2. K.head[FREE] = p /\ K.tail[FREE] = t
        BY <1>4, <2>5, <3>1 DEF IsStored
      <3> QED BY <1>1, <2>1, <2>2, <2>5, <3>1, <3>2 DEF EndAt
    <2>6. CASE h = NULL /\ At(p, t, <<"tail", "next">>)
      <3>1. Head(todo) = "tail" /\ Tail(todo) = <<"next">>
        BY <2>6, Stores3
      <3>2. K.head[FREE] = p /\ K.tail[FREE] = p
        BY <1>4, <2>6, <3>1 DEF IsStored
      <3> QED BY <1>1, <2>1, <2>2, <2>6, <3>1, <3>2 DEF EndAt
    <2>7. CASE h # NULL /\ t # NULL /\ At(h, t, <<"link", "tail", "next">>)
      <3>1. Head(todo) = "link" /\ Tail(todo) = <<"tail", "next">>
        BY <2>7, Stores3
      <3>2. K.head[FREE] = h /\ K.tail[FREE] = t /\ K.next[t] = p
        BY <1>1, <1>4, <2>7, <3>1 DEF IsStored
      <3> QED BY <1>1, <2>1, <2>7, <3>1, <3>2 DEF EndAt
    <2>8. CASE h # NULL /\ t # NULL /\ At(h, t, <<"tail", "next">>) /\ L.next[t] = p
      <3>1. Head(todo) = "tail" /\ Tail(todo) = <<"next">>
        BY <2>8, Stores3
      <3>2. K.head[FREE] = h /\ K.tail[FREE] = p /\ K.next[t] = p
        BY <1>1, <1>4, <2>8, <3>1 DEF IsStored
      <3> QED BY <1>1, <2>1, <2>8, <3>1, <3>2 DEF EndAt
    <2> QED BY <1>2, <2>3, <2>4, <2>5, <2>6, <2>7, <2>8
  <1> QED BY <1>5, <1>6 DEF K

LEMMA ForkGoesOn ==
    ASSUME NEW L, NEW b, NEW p, NEW todo, ForkAt(L, b, p, todo), Len(todo) > 1
    PROVE  /\ ForkAt(Stored(L, FREE, p, Head(todo)), b, p, Tail(todo))
           /\ Undone(Stored(L, FREE, p, Head(todo)), b, p) = Undone(L, b, p)
  <1> DEFINE h == b.head[FREE]
             t == b.tail[FREE]
             K == Stored(L, FREE, p, Head(todo))
             At(head, tail, rest) ==
                 L.head[FREE] = head /\ L.tail[FREE] = tail /\ todo = rest
  <1>1. /\ L \in Stores(Proc, Queue) /\ b \in Stores(Proc, Queue)
        /\ p \in Proc /\ p = h /\ t # NULL /\ t \in Proc
        /\ L.next[p] = b.next[p] /\ L.next[t] = b.next[t]
    BY Constants DEF ForkAt, Stores
  <1>2. /\ h = t => \/ At(h, t, <<"no_tail", "no_head", "next">>)
                    \/ At(h, NULL, <<"no_head", "next">>)
                    \/ At(h, t, <<"no_head", "no_tail", "next">>)
                    \/ At(NULL, t, <<"no_tail", "next">>)
        /\ h # t => At(h, t, <<"skip", "next">>)
    <2>1. todo # <<"next">>
      BY Stores3
    <2> QED BY <2>1 DEF ForkAt
  <1>3. Head(todo) \in {"no_tail", "no_head", "skip"}
    <2>1. CASE h = t
      BY <1>2, <2>1, Stores3
    <2>2. CASE h # t
      BY <1>2, <2>2, Stores3
    <2> QED BY <2>1, <2>2
  <1>4. IsStored(K, L, p, Head(todo))
    BY <1>1, <1>3, StoredPointers
  <1> HIDE DEF K
  <1>5. Undone(K, b, p) = Undone(L, b, p)
    BY <1>1, <1>3, <1>4, UndoneAgain DEF IsStored
  <1>6. ForkAt(K, b, p, Tail(todo))
    <2>1. K.next[p] = b.next[p] /\ K.next[t] = b.next[t] /\ K \in Stores(Proc, Queue)
      BY <1>1, <1>3, <1>4 DEF IsStored
    <2>2. CASE h = t /\ At(h, t, <<"no_tail", "no_head", "next">>)
      <3>1. Head(todo) = "no_tail" /\ Tail(todo) = <<"no_head", "next">>
        BY <2>2, Stores3
      <3>2. K.head[FREE] = h /\ K.tail[FREE] = NULL
        BY <1>4, <2>2, <3>1 DEF IsStored
      <3> QED BY <1>1, <2>1, <2>2, <3>1, <3>2 DEF ForkAt
    <2>3. CASE h = t /\ At(h, NULL, <<"no_head", "next">>)
      <3>1. Head(todo) = "no_head" /\ Tail(todo) = <<"next">>
        BY <2>3, Stores3
      <3>2. K.head[FREE] = NULL /\ K.tail[FREE] = NULL
        BY <1>4, <2>3, <3>1 DEF IsStored
      <3> QED BY <1>1, <2>1, <2>3, <3>1, <3>2 DEF ForkAt
    <2>4. CASE h = t /\ At(h, t, <<"no_head", "no_tail", "next">>)
      <3>1. Head(todo) = "no_head" /\ Tail(todo) = <<"no_tail", "next">>
        BY <2>4, Stores3
      <3>2. K.head[FREE] = NULL /\ K.tail[FREE] = t
        BY <1>4, <2>4, <3>1 DEF IsStored
      <3> QED BY <1>1, <2>1, <2>4, <3>1, <3>2 DEF ForkAt
    <2>5. CASE h = t /\ At(NULL, t, <<"no_tail", "next">>)
      <3>1. Head(todo) = "no_tail" /\ Tail(todo) = <<"next">>
        BY <2>5, Stores3
      <3>2. K.head[FREE] = NULL /\ K.tail[FREE] = NULL
        BY <1>4, <2>5, <3>1 DEF IsStored
      <3> QED BY <1>1, <2>1, <2>5, <3>1, <3>2 DEF ForkAt
    <2>6. CASE h # t /\ At(h, t, <<"skip", "next">>)
      <3>1. Head(todo) = "skip" /\ Tail(todo) = <<"next">>
        BY <2>6, Stores3
      <3>2. K.head[FREE] = b.next[p] /\ K.tail[FREE] = t
        BY <1>1, <1>4, <2>6, <3>1 DEF IsStored
      <3> QED BY <1>1, <2>1, <2>6, <3>1, <3>2 DEF ForkAt
    <2> QED BY <1>2, <2>2, <2>3, <2>4, <2>5, <2>6
  <1> QED BY <1>5, <1>6 DEF K

\* ... and what the operations do that are one step.
IsEnqueued(M, U, p) ==
    /\ M \in Stores(Proc, Queue)
    /\ \A q \in Queue \ {FREE} : M.head[q] = U.head[q] /\ M.tail[q] = U.tail[q]
    /\ M.head[FREE] = IF U.head[FREE] = NULL THEN p ELSE U.head[FREE]
    /\ M.tail[FREE] = p
    /\ \A x \in Proc : M.next[x] = IF x = p THEN NULL
                                  ELSE IF U.head[FREE] # NULL /\ x = U.tail[FREE]
                                       THEN p ELSE U.next[x]
IsDequeued(M, U, p) ==
    /\ M \in Stores(Proc, Queue)
    /\ \A q \in Queue \ {FREE} : M.head[q] = U.head[q] /\ M.tail[q] = U.tail[q]
    /\ M.head[FREE] = IF p = U.tail[FREE] THEN NULL ELSE U.next[p]
    /\ M.tail[FREE] = IF p = U.tail[FREE] THEN NULL ELSE U.tail[FREE]
    /\ \A x \in Proc : M.next[x] = IF x = p THEN NULL ELSE U.next[x]

LEMMA EnqueuedPointers ==
    ASSUME NEW U \in Stores(Proc, Queue), NEW p \in Proc,
           U.head[FREE] # NULL => U.tail[FREE] \in Proc
    PROVE  IsEnqueued(enqueue_tail(U, FREE, p), U, p)
  <1> DEFINE M == enqueue_tail(U, FREE, p)
  <1>0. FREE \in Queue
    BY Constants
  <1>1. CASE U.head[FREE] = NULL
    <2>1. /\ M.head = [U.head EXCEPT ![FREE] = p]
          /\ M.tail = [U.tail EXCEPT ![FREE] = p]
          /\ M.next = [U.next EXCEPT ![p] = NULL]
          /\ M \in Stores(Proc, Queue)
      BY <1>1 DEF enqueue_tail, Stores
    <2> HIDE DEF M
    <2>2. IsEnqueued(M, U, p)
      BY <1>0, <1>1, <2>1 DEF Stores, IsEnqueued
    <2> QED BY <2>2 DEF M
  <1>2. CASE U.head[FREE] # NULL
    <2>1. /\ M.head = U.head
          /\ M.tail = [U.tail EXCEPT ![FREE] = p]
          /\ M.next = [U.next EXCEPT ![U.tail[FREE]] = p, ![p] = NULL]
          /\ M \in Stores(Proc, Queue)
      BY <1>2 DEF enqueue_tail, Stores
    <2> HIDE DEF M
    <2>2. IsEnqueued(M, U, p)
      BY <1>0, <1>2, <2>1 DEF Stores, IsEnqueued
    <2> QED BY <2>2 DEF M
  <1> QED BY <1>1, <1>2

\* With the last store the operation has had its effect, on the lists as they
\* are by then.
LEMMA EndLast ==
    ASSUME NEW L, NEW b, NEW p, NEW todo, EndAt(L, b, p, todo), Len(todo) = 1
    PROVE  Stored(L, FREE, p, Head(todo)) = enqueue_tail(Undone(L, b, p), FREE, p)
  <1> DEFINE h == b.head[FREE]
             t == b.tail[FREE]
             U == Undone(L, b, p)
             K == Stored(L, FREE, p, Head(todo))
             M == enqueue_tail(U, FREE, p)
             At(head, tail, rest) ==
                 L.head[FREE] = head /\ L.tail[FREE] = tail /\ todo = rest
  <1>1. /\ L \in Stores(Proc, Queue) /\ b \in Stores(Proc, Queue) /\ p \in Proc
        /\ p # t /\ (t # NULL => t \in Proc)
    BY Constants DEF EndAt, Stores
  <1>2. /\ h = NULL => At(p, p, <<"next">>) /\ (t # NULL => L.next[t] = b.next[t])
        /\ h # NULL => t # NULL /\ At(h, p, <<"next">>) /\ L.next[t] = p
    <2>1. \A x, y, z : Len(<<x, y, z>>) # 1 /\ Len(<<y, z>>) # 1
      BY Stores3
    <2> QED BY <2>1 DEF EndAt
  <1>3. Head(todo) = "next"
    BY <1>2, Stores3
  <1>4. IsStored(K, L, p, "next")
    BY <1>1, <1>3, StoredPointers
  <1>5. IsUndone(U, L, b, p)
    BY <1>1, UndonePointers
  <1> HIDE DEF U, K
  <1>6. IsEnqueued(M, U, p)
    <2>1. U \in Stores(Proc, Queue) /\ (U.head[FREE] # NULL => U.tail[FREE] \in Proc)
      BY <1>1, <1>2, <1>5 DEF IsUndone
    <2> QED BY <1>1, <2>1, EnqueuedPointers
  <1> HIDE DEF M
  <1>7. \A q \in Queue : K.head[q] = M.head[q] /\ K.tail[q] = M.tail[q]
    BY <1>1, <1>2, <1>4, <1>5, <1>6 DEF IsStored, IsUndone, IsEnqueued
  <1>8. ASSUME NEW x \in Proc PROVE K.next[x] = M.next[x]
    <2>1. K.next[x] = IF x = p THEN NULL ELSE L.next[x]
      BY <1>4 DEF IsStored
    <2>2. M.next[x] = IF x = p THEN NULL ELSE IF h # NULL /\ x = t THEN p ELSE U.next[x]
      BY <1>5, <1>6 DEF IsUndone, IsEnqueued
    <2>3. U.next[x] = IF x \in {p, t} THEN b.next[x] ELSE L.next[x]
      BY <1>5 DEF IsUndone
    <2>4. CASE x = t /\ x # p
      <3>1. CASE h = NULL
        BY <1>1, <1>2, <2>1, <2>2, <2>3, <2>4, <3>1, Constants
      <3>2. CASE h # NULL
        BY <1>2, <2>1, <2>2, <2>4, <3>2
      <3> QED BY <3>1, <3>2
    <2> QED BY <2>1, <2>2, <2>3, <2>4
  <1>9. K = M
    BY <1>4, <1>6, <1>7, <1>8, ByPointer DEF IsStored, IsEnqueued
  <1> QED BY <1>9 DEF K, M, U

\* What fork_proc does to the free list.
Taken(U, p) == [dequeue(U, FREE) EXCEPT !.next = [@ EXCEPT ![p] = NULL]]

LEMMA DequeuedPointers ==
    ASSUME NEW U \in Stores(Proc, Queue), NEW p \in Proc, p = U.head[FREE]
    PROVE  IsDequeued(Taken(U, p), U, p)
  <1> DEFINE D == dequeue(U, FREE)
             M == Taken(U, p)
  <1>0. FREE \in Queue /\ p # NULL
    BY Constants
  <1>1. CASE p = U.tail[FREE]
    <2>1. /\ D.head = [U.head EXCEPT ![FREE] = NULL]
          /\ D.tail = [U.tail EXCEPT ![FREE] = NULL]
          /\ D.next = [U.next EXCEPT ![p] = NULL]
          /\ D \in Stores(Proc, Queue)
      BY <1>0, <1>1 DEF dequeue, Stores
    <2>2. M = [D EXCEPT !.next = [D.next EXCEPT ![p] = NULL]]
      BY DEF Taken
    <2> HIDE DEF D, M
    <2>3. /\ M.head = D.head /\ M.tail = D.tail /\ M.next = [D.next EXCEPT ![p] = NULL]
          /\ M \in Stores(Proc, Queue)
      BY <2>1, <2>2 DEF Stores, Taken
    <2>4. IsDequeued(M, U, p)
      BY <1>0, <1>1, <2>1, <2>3 DEF Stores, IsDequeued
    <2> QED BY <2>4 DEF M
  <1>2. CASE p # U.tail[FREE]
    <2>1. /\ D.head = [U.head EXCEPT ![FREE] = U.next[p]]
          /\ D.tail = U.tail
          /\ D.next = [U.next EXCEPT ![p] = NULL]
          /\ D \in Stores(Proc, Queue)
      BY <1>0, <1>2 DEF dequeue, Stores
    <2>2. M = [D EXCEPT !.next = [D.next EXCEPT ![p] = NULL]]
      BY DEF Taken
    <2> HIDE DEF D, M
    <2>3. /\ M.head = D.head /\ M.tail = D.tail /\ M.next = [D.next EXCEPT ![p] = NULL]
          /\ M \in Stores(Proc, Queue)
      BY <2>1, <2>2 DEF Stores, Taken
    <2>4. IsDequeued(M, U, p)
      BY <1>0, <1>2, <2>1, <2>3 DEF Stores, IsDequeued
    <2> QED BY <2>4 DEF M
  <1> QED BY <1>1, <1>2

LEMMA ForkLast ==
    ASSUME NEW L, NEW b, NEW p, NEW todo, ForkAt(L, b, p, todo), Len(todo) = 1
    PROVE  /\ p = Undone(L, b, p).head[FREE]
           /\ Stored(L, FREE, p, Head(todo)) = Taken(Undone(L, b, p), p)
  <1> DEFINE h == b.head[FREE]
             t == b.tail[FREE]
             U == Undone(L, b, p)
             K == Stored(L, FREE, p, Head(todo))
             M == Taken(U, p)
             At(head, tail, rest) ==
                 L.head[FREE] = head /\ L.tail[FREE] = tail /\ todo = rest
  <1>1. /\ L \in Stores(Proc, Queue) /\ b \in Stores(Proc, Queue)
        /\ p \in Proc /\ p = h /\ t # NULL /\ t \in Proc
        /\ L.next[p] = b.next[p] /\ L.next[t] = b.next[t]
    BY Constants DEF ForkAt, Stores
  <1>2. /\ h = t => At(NULL, NULL, <<"next">>)
        /\ h # t => At(b.next[p], t, <<"next">>)
    <2>1. \A x, y, z : Len(<<x, y, z>>) # 1 /\ Len(<<y, z>>) # 1
      BY Stores3
    <2> QED BY <2>1 DEF ForkAt
  <1>3. Head(todo) = "next"
    BY <1>2, Stores3
  <1>4. IsStored(K, L, p, "next")
    BY <1>1, <1>3, StoredPointers
  <1>5. IsUndone(U, L, b, p)
    BY <1>1, UndonePointers
  <1> HIDE DEF U, K
  <1>6. IsDequeued(M, U, p)
    <2>1. U \in Stores(Proc, Queue) /\ p = U.head[FREE]
      BY <1>1, <1>2, <1>5 DEF IsUndone
    <2> QED BY <1>1, <2>1, DequeuedPointers
  <1> HIDE DEF M
  <1>7. \A q \in Queue : K.head[q] = M.head[q] /\ K.tail[q] = M.tail[q]
    BY <1>1, <1>2, <1>4, <1>5, <1>6 DEF IsStored, IsUndone, IsDequeued
  <1>8. \A x \in Proc : K.next[x] = M.next[x]
    BY <1>1, <1>2, <1>4, <1>5, <1>6 DEF IsStored, IsUndone, IsDequeued
  <1>9. K = M
    BY <1>4, <1>6, <1>7, <1>8, ByPointer DEF IsStored, IsDequeued
  <1> QED BY <1>1, <1>5, <1>9 DEF K, M, U, IsUndone

\* Neither goes through a null tail.
LEMMA NoStray ==
    ASSUME NEW L, NEW b, NEW p, NEW todo, EndAt(L, b, p, todo) \/ ForkAt(L, b, p, todo)
    PROVE  Head(todo) = "link" => L.tail[FREE] # NULL
  <1>1. CASE EndAt(L, b, p, todo)
    <2>1. \/ L.tail[FREE] # NULL
          \/ todo = <<"tail", "head", "next">> \/ todo = <<"head", "next">>
          \/ todo = <<"head", "tail", "next">> \/ todo = <<"tail", "next">>
          \/ todo = <<"next">>
      BY <1>1 DEF EndAt
    <2> QED BY <2>1, Stores3
  <1>2. CASE ForkAt(L, b, p, todo)
    <2>1. \/ todo = <<"no_tail", "no_head", "next">> \/ todo = <<"no_head", "next">>
          \/ todo = <<"no_head", "no_tail", "next">> \/ todo = <<"no_tail", "next">>
          \/ todo = <<"skip", "next">> \/ todo = <<"next">>
      BY <1>2 DEF ForkAt
    <2> QED BY <2>1, Stores3
  <1> QED BY <1>1, <1>2

\* A timer tick that finds the system task alone at the top puts it on its queue
\* and takes it off again.
Ticked(L) == [head |-> [L.head EXCEPT ![SYSTEM_PRIORITY] = NULL],
              tail |-> [L.tail EXCEPT ![SYSTEM_PRIORITY] = NULL],
              next |-> [L.next EXCEPT ![SYSTEM] = NULL]]

LEMMA TickPicksSystem ==
    ASSUME NEW L \in Stores(Proc, Queue), L.head[SYSTEM_PRIORITY] = NULL,
           flags[SYSTEM] = {}, priority[SYSTEM] = SYSTEM_PRIORITY,
           NEW R, R = Reinserted(L, flags, SYSTEM)
    PROVE  /\ NonEmpty(R) # {}
           /\ R.head[TopQueue(R)] = SYSTEM
           /\ dequeue(R, TopQueue(R)) = Ticked(L)
  <1>0. SYSTEM_PRIORITY \in Queue /\ SYSTEM_PRIORITY \in ReadyQueue /\ SYSTEM # NULL
        /\ SYSTEM \in Proc
    BY Constants DEF SYSTEM_PRIORITY, ReadyQueue, Queue, NUM_QUEUES
  <1>1. Accounted(L, flags, SYSTEM)
    BY <1>0 DEF Accounted
  <1>2. R = [L EXCEPT !.head = [@ EXCEPT ![SYSTEM_PRIORITY] = SYSTEM],
                      !.tail = [@ EXCEPT ![SYSTEM_PRIORITY] = SYSTEM],
                      !.next = [@ EXCEPT ![SYSTEM] = NULL]]
    BY <1>1 DEF Reinserted, enqueue_head, enqueue_tail
  <1>3. R.head[SYSTEM_PRIORITY] = SYSTEM /\ R.tail[SYSTEM_PRIORITY] = SYSTEM
    BY <1>0, <1>2 DEF Stores
  <1>4. SYSTEM_PRIORITY \in NonEmpty(R)
    BY <1>0, <1>3 DEF NonEmpty
  <1>5. TopQueue(R) = SYSTEM_PRIORITY
    <2>1. TopQueue(R) \in NonEmpty(R) /\ TopQueue(R) <= SYSTEM_PRIORITY
      BY <1>4, TopQueueIsFirst
    <2> QED BY <2>1 DEF NonEmpty, ReadyQueue, NUM_QUEUES, SYSTEM_PRIORITY
  <1>6. dequeue(R, SYSTEM_PRIORITY) = Ticked(L)
    <2> DEFINE q == SYSTEM_PRIORITY
    <2> HIDE DEF q
    <2>1. R = [head |-> [L.head EXCEPT ![q] = SYSTEM],
               tail |-> [L.tail EXCEPT ![q] = SYSTEM],
               next |-> [L.next EXCEPT ![SYSTEM] = NULL]]
      BY <1>2 DEF Stores, q
    <2>2. dequeue(R, q) = [R EXCEPT !.head = [R.head EXCEPT ![q] = NULL],
                                    !.tail = [R.tail EXCEPT ![q] = NULL],
                                    !.next = [R.next EXCEPT ![SYSTEM] = NULL]]
      BY <1>0, <1>3 DEF dequeue, q
    <2>3. dequeue(R, q) = [head |-> [R.head EXCEPT ![q] = NULL],
                           tail |-> [R.tail EXCEPT ![q] = NULL],
                           next |-> [R.next EXCEPT ![SYSTEM] = NULL]]
      BY <2>1, <2>2
    <2>4. /\ [R.head EXCEPT ![q] = NULL] = [L.head EXCEPT ![q] = NULL]
          /\ [R.tail EXCEPT ![q] = NULL] = [L.tail EXCEPT ![q] = NULL]
          /\ [R.next EXCEPT ![SYSTEM] = NULL] = [L.next EXCEPT ![SYSTEM] = NULL]
      BY <2>1
    <2> QED BY <2>3, <2>4 DEF Ticked, q
  <1> QED BY <1>3, <1>4, <1>5, <1>6

\* Such a tick and an operation on the free list do not disturb each other.
LEMMA TickMidway ==
    ASSUME NEW L, NEW b, NEW p, NEW todo, p # SYSTEM, b.tail[FREE] # SYSTEM
    PROVE  /\ EndAt(L, b, p, todo) => EndAt(Ticked(L), b, p, todo)
           /\ ForkAt(L, b, p, todo) => ForkAt(Ticked(L), b, p, todo)
           /\ L \in Stores(Proc, Queue) /\ b \in Stores(Proc, Queue) =>
                  Undone(Ticked(L), b, p) = Ticked(Undone(L, b, p))
  <1>0. /\ SYSTEM_PRIORITY \in Queue /\ FREE \in Queue /\ FREE # SYSTEM_PRIORITY
        /\ SYSTEM \in Proc /\ NULL \notin Proc
    BY Constants DEF SYSTEM_PRIORITY, ReadyQueue, Queue, NUM_QUEUES, FREE
  <1> DEFINE K == Ticked(L)
  <1>1. ASSUME L \in Stores(Proc, Queue)
        PROVE  /\ K \in Stores(Proc, Queue)
               /\ K.head[FREE] = L.head[FREE] /\ K.tail[FREE] = L.tail[FREE]
               /\ \A x \in Proc \ {SYSTEM} : K.next[x] = L.next[x]
    BY <1>0, <1>1 DEF Ticked, Stores
  <1>2. EndAt(L, b, p, todo) => EndAt(K, b, p, todo)
    <2> SUFFICES ASSUME EndAt(L, b, p, todo) PROVE EndAt(K, b, p, todo)
      OBVIOUS
    <2>1. L \in Stores(Proc, Queue) /\ b \in Stores(Proc, Queue) /\ p \in Proc
      BY DEF EndAt
    <2>2. b.tail[FREE] # NULL => b.tail[FREE] \in Proc
      BY <1>0, <2>1 DEF Stores
    <2> HIDE DEF K
    <2> QED BY <1>1, <2>1, <2>2 DEF EndAt
  <1>3. ForkAt(L, b, p, todo) => ForkAt(K, b, p, todo)
    <2> SUFFICES ASSUME ForkAt(L, b, p, todo) PROVE ForkAt(K, b, p, todo)
      OBVIOUS
    <2>1. L \in Stores(Proc, Queue) /\ b \in Stores(Proc, Queue) /\ p \in Proc
          /\ b.tail[FREE] # NULL
      BY DEF ForkAt
    <2>2. b.tail[FREE] \in Proc
      BY <1>0, <2>1 DEF Stores
    <2> HIDE DEF K
    <2> QED BY <1>1, <2>1, <2>2 DEF ForkAt
  <1>4. ASSUME L \in Stores(Proc, Queue), b \in Stores(Proc, Queue)
        PROVE  Undone(K, b, p) = Ticked(Undone(L, b, p))
    <2> DEFINE U == Undone(L, b, p)
               V == Undone(K, b, p)
    <2>1. V.head = [U.head EXCEPT ![SYSTEM_PRIORITY] = NULL]
      BY <1>0, <1>4 DEF Undone, Ticked, Stores
    <2>2. V.tail = [U.tail EXCEPT ![SYSTEM_PRIORITY] = NULL]
      BY <1>0, <1>4 DEF Undone, Ticked, Stores
    <2>3. V.next = [U.next EXCEPT ![SYSTEM] = NULL]
      BY <1>0, <1>4 DEF Undone, Ticked, Stores
    <2>4. V = [head |-> V.head, tail |-> V.tail, next |-> V.next]
      BY DEF Undone
    <2> HIDE DEF U, V
    <2>5. V = Ticked(U)
      BY <2>1, <2>2, <2>3, <2>4 DEF Ticked
    <2> QED BY <2>5 DEF U, V
  <1> QED BY <1>2, <1>3, <1>4

-----------------------------------------------------------------------------
(* The invariant, and the steps. *)

\* Between the first and the last store: end_process has marked the sender of
\* the request, fork_proc has taken the head of the free list.
Ending ==
    /\ pending.work = "end" /\ pending.p = who /\ state[who] = "DEAD"
    /\ buf[SYSTEM].type \in {"EXIT", "UNKNOWN", "NONE"}
    /\ EndAt(lists, pending.before, pending.p, pending.todo)
Forking ==
    /\ pending.work = "fork" /\ pending.was = state[pending.p]
    /\ buf[SYSTEM].type = "FORK" /\ who \in imaged /\ TRUE \in AllocOutcomes
    /\ ForkAt(lists, pending.before, pending.p, pending.todo)
Midway ==
    Working =>
        /\ DOMAIN pending = {"work", "q", "p", "todo", "was", "before"}
        /\ Running(SYSTEM) /\ sys_pc = "dispatch" /\ who = buf[SYSTEM].src
        /\ pending.q = FREE /\ pending.p # SYSTEM
        /\ pending.before.tail[FREE] # SYSTEM
        /\ state \in [Proc -> proc_state_t]
        /\ Ending \/ Forking

\* The invariant.  In between, the process that asked is not known to the abstract
\* kernel yet: its system task takes the request in the step that serves it.
FInv == /\ A!IInv /\ A!PInv /\ A!ImagesOK /\ Midway
        /\ sys_pc = "dispatch" => AtomicWho = NULL

LEMMA UndoneLists ==
    /\ Working /\ pending.q = FREE =>
           AtomicLists = Undone(lists, pending.before, pending.p)
    /\ Working' /\ pending'.q = FREE =>
           AtomicLists' = Undone(lists', pending'.before, pending'.p)
  BY DEF AtomicLists, Undone

LEMMA Abstract ==
    ASSUME A!IInv, A!PInv
    PROVE  /\ AtomicLists \in Stores(Proc, Queue)
           /\ AtomicState \in [Proc -> proc_state_t]
           /\ \A q \in Queue : AtomicLists.head[q] # NULL => AtomicLists.tail[q] # NULL
           /\ priority \in [Proc -> ReadyQueue] /\ priority[SYSTEM] = SYSTEM_PRIORITY
  <1>1. A!Queue = Queue /\ A!ReadyQueue = ReadyQueue /\ A!proc_state_t = proc_state_t
        /\ A!Stores(Proc, Queue) = Stores(Proc, Queue)
    BY SameConst DEF A!Queue, Queue, A!ReadyQueue, ReadyQueue, A!NUM_QUEUES, NUM_QUEUES,
                     A!proc_state_t, proc_state_t, A!Stores, Stores
  <1>2. A!ListInv(AtomicLists) /\ A!TableOK /\ A!PrioritiesOK
    BY DEF A!IInv, A!SchedOK, A!PInv
  <1> QED BY <1>1, <1>2, SameConst DEF A!ListInv, A!TableOK, A!PrioritiesOK

LEMMA AbstractServing ==
    ASSUME A!IInv, A!PInv, Running(SYSTEM)
    PROVE  /\ flags[SYSTEM] = {}
           /\ AtomicState[SYSTEM] # "DEAD"
           /\ AtomicLists.head[SYSTEM_PRIORITY] = NULL
           /\ AtomicLists.head[FREE] # NULL =>
                  AtomicState[AtomicLists.head[FREE]] = "DEAD"
           /\ AtomicLists.tail[FREE] # NULL =>
                  AtomicState[AtomicLists.tail[FREE]] = "DEAD"
           /\ sys_pc = "dispatch" =>
                  /\ buf[SYSTEM].src \in Proc \ Tasks
                  /\ AtomicState[buf[SYSTEM].src] # "DEAD"
                  /\ buf[SYSTEM].type \in LibraryTypes
  <1>1. status = "running" /\ current_proc = A!SYSTEM
    BY SameConst DEF Running
  <1>2. /\ AtomicLists.head[A!SYSTEM_PRIORITY] = NULL
        /\ AtomicLists.head[A!FREE] # NULL => ~A!Live(AtomicLists.head[A!FREE])
        /\ AtomicLists.tail[A!FREE] # NULL => ~A!Live(AtomicLists.tail[A!FREE])
    BY <1>1, SameCalls, A!SystemAlone, SizeAssumption, NullAssumption,
       QuantumAssumption, AllocAssumption
  <1>3. A!RunsOK /\ A!RequestOK
    BY DEF A!PInv
  <1>4. flags[SYSTEM] = {} /\ AtomicState[SYSTEM] # "DEAD"
    BY <1>1, <1>3, SameConst DEF A!RunsOK, A!Live
  <1> QED BY <1>1, <1>2, <1>3, <1>4, SameConst
          DEF A!RequestOK, A!Live, A!User, A!LibraryTypes, LibraryTypes

\* A step of the abstract kernel, or none that it sees.
Step == [A!Next]_A!vars

\* Outside the operations a step is one of Kernel.
LEMMA PlainStep ==
    ASSUME FInv, ~Working, UNCHANGED pending, Next
    PROVE  Step /\ Midway'
  <1>1. ~Working /\ ~Working'
    BY DEF Working
  <1>2. Same
    BY <1>1 DEF Same, AtomicLists, AtomicState, AtomicWho
  <1> QED BY <1>1, <1>2, SameStep DEF Step, Midway

\* A step that is hidden: the abstract kernel does not see it.
LEMMA Hidden ==
    ASSUME AtomicLists' = AtomicLists, AtomicState' = AtomicState,
           AtomicWho' = AtomicWho,
           UNCHANGED <<current_proc, status, flags, priority, quantum, imaged, ticks_left,
                       sender_q, next_sender, message, ret, buf, rx, sys_pc, response>>
    PROVE  Step
  BY DEF Step, A!vars, A!tableVars, A!ipcVars, A!schedVars, A!sysVars

LEMMA EndBeginsHidden ==
    ASSUME FInv, EndBegins
    PROVE  Step /\ Midway'
  <1> DEFINE p == who'
  <1>1. /\ ~Working /\ Running(SYSTEM) /\ sys_pc = "dispatch"
        /\ buf[SYSTEM].type \in {"EXIT", "UNKNOWN", "NONE"} /\ p = buf[SYSTEM].src
        /\ state' = [state EXCEPT ![p] = "DEAD"]
        /\ UNCHANGED <<lists, current_proc, status, flags, priority, quantum, imaged, ticks_left,
                       sender_q, next_sender, message, ret, buf, rx, sys_pc, response>>
    BY DEF EndBegins, Handles, ipcVars, schedVars
  <1>2. PICK todo \in EnqueueStores(lists, FREE) :
            pending' = [work |-> "end", q |-> FREE, p |-> p, todo |-> todo,
                        was |-> state[p], before |-> lists]
    BY DEF EndBegins, Starts
  <1>3. AtomicLists = lists /\ AtomicState = state
    BY <1>1 DEF AtomicLists, AtomicState
  <1>4. /\ lists \in Stores(Proc, Queue) /\ state \in [Proc -> proc_state_t]
        /\ p \in Proc \ Tasks /\ p # SYSTEM /\ FREE \in Queue
        /\ lists.head[FREE] # NULL => lists.tail[FREE] # NULL
        /\ p # lists.tail[FREE] /\ SYSTEM # lists.tail[FREE]
    BY <1>1, <1>3, Abstract, AbstractServing, Constants DEF FInv, Tasks
  <1>5. EndAt(lists, lists, p, todo)
    BY <1>4, EndStarts
  <1> HIDE DEF p
  <1>6. /\ pending'.work = "end" /\ pending'.q = FREE /\ pending'.p = p
        /\ pending'.todo = todo /\ pending'.was = state[p] /\ pending'.before = lists
        /\ Working' /\ DOMAIN pending' = {"work", "q", "p", "todo", "was", "before"}
    BY <1>2 DEF Working
  <1>7. AtomicLists' = lists
    BY <1>1, <1>4, <1>6, UndoneLists, NothingUndone
  <1>8. AtomicState' = state
    BY <1>1, <1>4, <1>6 DEF AtomicState
  <1>9. AtomicWho' = NULL /\ AtomicWho = NULL
    BY <1>1, <1>6 DEF AtomicWho, FInv
  <1>10. Midway'
    BY <1>1, <1>4, <1>5, <1>6 DEF Midway, Ending, Running, proc_state_t, p
  <1> QED BY <1>1, <1>3, <1>7, <1>8, <1>9, <1>10, Hidden

LEMMA ForkBeginsHidden ==
    ASSUME FInv, ForkBegins
    PROVE  Step /\ Midway'
  <1> DEFINE p == lists.head[FREE]
  <1>1. /\ ~Working /\ Running(SYSTEM) /\ sys_pc = "dispatch"
        /\ buf[SYSTEM].type = "FORK" /\ who' = buf[SYSTEM].src /\ who' \in imaged
        /\ p # NULL /\ TRUE \in AllocOutcomes
        /\ UNCHANGED <<lists, state, current_proc, status, flags, priority, quantum, imaged,
                       ticks_left, sender_q, next_sender, message, ret, buf, rx,
                       sys_pc, response>>
    BY DEF ForkBegins, Handles, tableVars, ipcVars, schedVars
  <1>2. PICK todo \in DequeueStores(lists, FREE) :
            pending' = [work |-> "fork", q |-> FREE, p |-> p, todo |-> todo,
                        was |-> state[p], before |-> lists]
    BY DEF ForkBegins, Starts
  <1>3. AtomicLists = lists /\ AtomicState = state
    BY <1>1 DEF AtomicLists, AtomicState
  <1>4. /\ lists \in Stores(Proc, Queue) /\ state \in [Proc -> proc_state_t]
        /\ FREE \in Queue /\ lists.tail[FREE] # NULL
        /\ p # SYSTEM /\ SYSTEM # lists.tail[FREE]
    BY <1>1, <1>3, Abstract, AbstractServing, Constants DEF FInv
  <1>5. p \in Proc
    BY <1>1, <1>4 DEF Stores
  <1>6. ForkAt(lists, lists, p, todo)
    BY <1>1, <1>4, ForkStarts
  <1> HIDE DEF p
  <1>7. /\ pending'.work = "fork" /\ pending'.q = FREE /\ pending'.p = p
        /\ pending'.todo = todo /\ pending'.was = state[p] /\ pending'.before = lists
        /\ Working' /\ DOMAIN pending' = {"work", "q", "p", "todo", "was", "before"}
    BY <1>2 DEF Working
  <1>8. AtomicLists' = lists
    BY <1>1, <1>4, <1>7, UndoneLists, NothingUndone
  <1>9. AtomicState' = state
    BY <1>1, <1>4, <1>5, <1>7 DEF AtomicState
  <1>10. AtomicWho' = NULL /\ AtomicWho = NULL
    BY <1>1, <1>7 DEF AtomicWho, FInv
  <1>11. Midway'
    BY <1>1, <1>4, <1>6, <1>7 DEF Midway, Forking, Running
  <1> QED BY <1>1, <1>3, <1>8, <1>9, <1>10, <1>11, Hidden

\* exec is not asked for.
LEMMA NoExec == ASSUME FInv PROVE ~ExecBegins
  BY AbstractServing DEF FInv, ExecBegins, Handles, LibraryTypes

\* What holds in the middle of an operation.
LEMMA InOperation ==
    ASSUME FInv, Working
    PROVE  /\ Running(SYSTEM) /\ sys_pc = "dispatch" /\ who = buf[SYSTEM].src
           /\ who \in Proc \ Tasks /\ flags[SYSTEM] = {}
           /\ priority[SYSTEM] = SYSTEM_PRIORITY
           /\ pending.q = FREE /\ pending.p # SYSTEM /\ pending.p \in Proc
           /\ pending.before.tail[FREE] # SYSTEM
           /\ state \in [Proc -> proc_state_t]
           /\ lists \in Stores(Proc, Queue) /\ pending.before \in Stores(Proc, Queue)
           /\ AtomicLists = Undone(lists, pending.before, pending.p)
           /\ AtomicLists \in Stores(Proc, Queue)
           /\ AtomicLists.head[SYSTEM_PRIORITY] = NULL
           /\ AtomicWho = NULL
           /\ ~StrayStore
           /\ pending.work \in {"end", "fork"}
           /\ DOMAIN pending = {"work", "q", "p", "todo", "was", "before"}
  <1>1. /\ Running(SYSTEM) /\ sys_pc = "dispatch" /\ who = buf[SYSTEM].src
        /\ pending.q = FREE /\ pending.p # SYSTEM
        /\ pending.before.tail[FREE] # SYSTEM
        /\ state \in [Proc -> proc_state_t]
        /\ Ending \/ Forking
        /\ DOMAIN pending = {"work", "q", "p", "todo", "was", "before"}
    BY DEF FInv, Midway
  <1>2. \/ EndAt(lists, pending.before, pending.p, pending.todo)
        \/ ForkAt(lists, pending.before, pending.p, pending.todo)
    BY <1>1 DEF Ending, Forking
  <1>3. /\ lists \in Stores(Proc, Queue) /\ pending.before \in Stores(Proc, Queue)
        /\ pending.p \in Proc
    BY <1>2 DEF EndAt, ForkAt
  <1>4. ~StrayStore
    BY <1>1, <1>2, NoStray DEF StrayStore
  <1>5. pending.work \in {"end", "fork"}
    BY <1>1 DEF Ending, Forking
  <1>6. who \in Proc \ Tasks /\ flags[SYSTEM] = {}
        /\ AtomicLists.head[SYSTEM_PRIORITY] = NULL
    BY <1>1, AbstractServing DEF FInv
  <1>7. AtomicLists \in Stores(Proc, Queue) /\ priority[SYSTEM] = SYSTEM_PRIORITY
    BY Abstract DEF FInv
  <1>8. AtomicWho = NULL
    BY DEF AtomicWho
  <1> QED BY <1>1, <1>3, <1>4, <1>5, <1>6, <1>7, <1>8, UndoneLists

LEMMA StoreStepHidden ==
    ASSUME FInv, StoreStep
    PROVE  Step /\ Midway'
  <1> DEFINE b    == pending.before
             p    == pending.p
             todo == pending.todo
             K    == Stored(lists, FREE, p, Head(todo))
  <1>1. /\ Working /\ Len(todo) > 1
        /\ pending' = [pending EXCEPT !.todo = Tail(todo)]
        /\ UNCHANGED <<state, current_proc, status, flags, priority, quantum, imaged, ticks_left,
                       sender_q, next_sender, message, ret, buf, rx, sys_pc, who,
                       response>>
    BY DEF StoreStep, NextStore, tableVars, ipcVars, sysVars
  <1>2. lists' = K /\ AtomicLists = Undone(lists, b, p)
    BY <1>1, InOperation DEF StoreStep, NextStore
  <1>3. DOMAIN pending = {"work", "q", "p", "todo", "was", "before"}
    BY <1>1, InOperation
  <1>4. /\ pending'.work = pending.work /\ pending'.q = pending.q /\ pending'.p = p
        /\ pending'.todo = Tail(todo)
        /\ pending'.was = pending.was /\ pending'.before = b
        /\ DOMAIN pending' = {"work", "q", "p", "todo", "was", "before"}
    BY <1>1, <1>3
  <1>5. pending'.q = FREE /\ Working' /\ Working
    BY <1>1, <1>4, InOperation DEF Working
  <1> HIDE DEF b, p, todo, K
  <1>6. /\ EndAt(lists, b, p, todo) => EndAt(K, b, p, Tail(todo))
        /\ ForkAt(lists, b, p, todo) => ForkAt(K, b, p, Tail(todo))
    BY <1>1, EndGoesOn, ForkGoesOn DEF K
  <1>7. EndAt(lists, b, p, todo) \/ ForkAt(lists, b, p, todo)
    BY <1>1 DEF FInv, Midway, Ending, Forking, b, p, todo
  <1>8. AtomicLists' = AtomicLists
    <2>1. Undone(K, b, p) = Undone(lists, b, p)
      BY <1>1, <1>7, EndGoesOn, ForkGoesOn DEF K
    <2> QED BY <1>2, <1>4, <1>5, <2>1, UndoneLists
  <1>9. AtomicState' = AtomicState /\ AtomicWho' = AtomicWho
    BY <1>1, <1>4, <1>5 DEF AtomicState, AtomicWho, p
  <1>10. Midway'
    <2>1. /\ Running(SYSTEM)' /\ sys_pc' = "dispatch" /\ who' = buf'[SYSTEM].src
          /\ p # SYSTEM /\ b.tail[FREE] # SYSTEM /\ state' \in [Proc -> proc_state_t]
      BY <1>1, InOperation DEF Running, p, b
    <2>2. Ending => Ending'
      BY <1>1, <1>2, <1>4, <1>6 DEF Ending, b, p, todo
    <2>3. Forking => Forking'
      BY <1>1, <1>2, <1>4, <1>6 DEF Forking, b, p, todo
    <2>4. Ending \/ Forking
      BY <1>5 DEF FInv, Midway
    <2> QED BY <1>4, <1>5, <2>1, <2>2, <2>3, <2>4 DEF Midway
  <1> QED BY <1>1, <1>8, <1>9, <1>10, Hidden

\* The last store is the step of the abstract kernel.
LEMMA EnqueueEndsEnds ==
    ASSUME FInv, EnqueueEnds
    PROVE  Step /\ Midway'
  <1> DEFINE p == pending.p
  <1>1. /\ Working /\ Len(pending.todo) = 1 /\ pending.work = "end" /\ ~Working'
        /\ lists' = Stored(lists, FREE, p, Head(pending.todo))
        /\ sys_pc' = "receive"
        /\ UNCHANGED <<state, current_proc, status, flags, priority, quantum, imaged, ticks_left,
                       sender_q, next_sender, message, ret, buf, rx, who, response>>
    BY InOperation DEF EnqueueEnds, NextStore, tableVars, ipcVars, Working
  <1>2. /\ Running(SYSTEM) /\ sys_pc = "dispatch" /\ who = buf[SYSTEM].src
        /\ AtomicLists = Undone(lists, pending.before, p) /\ AtomicWho = NULL
        /\ state \in [Proc -> proc_state_t] /\ p \in Proc
    BY <1>1, InOperation
  <1>3. /\ p = who /\ state[who] = "DEAD"
        /\ buf[SYSTEM].type \in {"EXIT", "UNKNOWN", "NONE"}
        /\ EndAt(lists, pending.before, p, pending.todo)
    BY <1>1 DEF FInv, Midway, Ending, Forking
  <1>4. AtomicLists' = lists' /\ AtomicState' = state' /\ AtomicWho' = who
    BY <1>1 DEF AtomicLists, AtomicState, AtomicWho
  <1>5. AtomicState = [state EXCEPT ![p] = pending.was]
    BY <1>1 DEF AtomicState
  <1> HIDE DEF p
  <1>6. lists' = enqueue_tail(AtomicLists, FREE, p)
    BY <1>1, <1>2, <1>3, EndLast
  <1>7. state' = [AtomicState EXCEPT ![p] = "DEAD"]
    BY <1>1, <1>2, <1>3, <1>5
  <1>8. A!Handles({"EXIT", "UNKNOWN", "NONE"})
    BY <1>2, <1>3, <1>4, SameConst DEF A!Handles, A!Running, Running
  <1>9. A!SystemEnd
    BY <1>1, <1>3, <1>4, <1>6, <1>7, <1>8, SameConst, SameOps DEF A!SystemEnd, A!ipcVars
  <1> QED BY <1>1, <1>9 DEF Step, A!Next, A!SystemTask, A!SystemWork, Midway

LEMMA ForkEndsForks ==
    ASSUME FInv, ForkEnds
    PROVE  Step /\ Midway'
  <1> DEFINE p == pending.p
  <1>1. /\ Working /\ Len(pending.todo) = 1 /\ pending.work = "fork" /\ ~Working'
        /\ lists' = Stored(lists, FREE, p, Head(pending.todo))
        /\ sys_pc' = "reply" /\ ForkFields(who, p)
        /\ UNCHANGED <<current_proc, status, who, rx>>
    BY InOperation DEF ForkEnds, NextStore, Working
  <1>2. /\ Running(SYSTEM) /\ sys_pc = "dispatch" /\ who = buf[SYSTEM].src
        /\ AtomicLists = Undone(lists, pending.before, p) /\ AtomicWho = NULL
        /\ state \in [Proc -> proc_state_t] /\ p \in Proc
    BY <1>1, InOperation
  <1>3. /\ pending.was = state[p] /\ buf[SYSTEM].type = "FORK"
        /\ who \in imaged /\ TRUE \in AllocOutcomes
        /\ ForkAt(lists, pending.before, p, pending.todo)
    BY <1>1 DEF FInv, Midway, Ending, Forking
  <1>4. AtomicLists' = lists' /\ AtomicState' = state' /\ AtomicWho' = who
    BY <1>1 DEF AtomicLists, AtomicState, AtomicWho
  <1>5. AtomicState = state
    BY <1>1, <1>2, <1>3 DEF AtomicState
  <1> HIDE DEF p
  <1>6. p = AtomicLists.head[FREE] /\ lists' = Taken(AtomicLists, p)
    BY <1>1, <1>2, <1>3, ForkLast
  <1>7. A!ForkFields(who, p)
    BY <1>1, <1>4, <1>5, SameConst DEF ForkFields, A!ForkFields, Copied, A!Copied
  <1>8. A!ForkInto(who, p)
    BY <1>1, <1>4, <1>6, <1>7, SameConst, SameOps DEF A!ForkInto, Taken
  <1>9. p # NULL
    BY <1>2, Constants
  <1>10. A!fork_proc(who)
    BY <1>3, <1>6, <1>8, <1>9, SameConst DEF A!fork_proc
  <1>11. A!Handles({"FORK"})
    BY <1>2, <1>3, <1>4, SameConst DEF A!Handles, A!Running, Running
  <1>12. A!SystemFork
    BY <1>1, <1>4, <1>10, <1>11 DEF A!SystemFork
  <1> QED BY <1>1, <1>12 DEF Step, A!Next, A!SystemTask, A!SystemWork, Midway

\* A timer tick in the middle of an operation is a tick of the abstract kernel.
LEMMA TickIsTick ==
    ASSUME FInv, Working, timer_handler, UNCHANGED pending
    PROVE  Step /\ Midway'
  <1> DEFINE b   == pending.before
             p   == pending.p
             R   == Reinserted(lists, flags, SYSTEM)
             AR  == Reinserted(AtomicLists, flags, SYSTEM)
             t   == Charged(lists, flags, SYSTEM)
             run == [t EXCEPT ![SYSTEM] = IF @ <= 0 THEN quantum[SYSTEM] ELSE @]
  <1>1. /\ Running(SYSTEM) /\ sched(lists, flags, SYSTEM)
        /\ UNCHANGED <<state, priority, quantum, imaged, flags, sender_q, next_sender, message,
                       ret, buf, sys_pc, who, response, rx, pending>>
    BY InOperation DEF timer_handler, Running, tableVars, ipcVars, sysVars
  <1>2. /\ flags[SYSTEM] = {} /\ priority[SYSTEM] = SYSTEM_PRIORITY
        /\ lists \in Stores(Proc, Queue) /\ b \in Stores(Proc, Queue)
        /\ p # SYSTEM /\ b.tail[FREE] # SYSTEM
        /\ AtomicLists = Undone(lists, b, p) /\ AtomicLists \in Stores(Proc, Queue)
        /\ AtomicLists.head[SYSTEM_PRIORITY] = NULL
        /\ pending.q = FREE /\ Working'
    BY <1>1, InOperation DEF Working
  <1>3. lists.head[SYSTEM_PRIORITY] = NULL
    <2>1. SYSTEM_PRIORITY \in Queue /\ SYSTEM_PRIORITY # FREE
      BY Priorities
    <2> QED BY <1>2, <2>1 DEF Undone, Stores
  <1>4. NonEmpty(R) # {} /\ R.head[TopQueue(R)] = SYSTEM
        /\ dequeue(R, TopQueue(R)) = Ticked(lists)
    BY <1>2, <1>3, TickPicksSystem
  <1>5. NonEmpty(AR) # {} /\ AR.head[TopQueue(AR)] = SYSTEM
        /\ dequeue(AR, TopQueue(AR)) = Ticked(AtomicLists)
    BY <1>2, TickPicksSystem
  <1>6. lists' = Ticked(lists) /\ current_proc' = SYSTEM /\ ticks_left' = run
        /\ status' = status
    BY <1>1, <1>4 DEF sched
  <1>7. AtomicLists' = Ticked(AtomicLists)
    <2>1. Undone(Ticked(lists), b, p) = Ticked(Undone(lists, b, p))
      BY <1>2, TickMidway
    <2>2. AtomicLists' = Undone(lists', pending'.before, pending'.p)
      BY <1>1, <1>2, UndoneLists
    <2> QED BY <1>1, <1>2, <1>6, <2>1, <2>2
  <1>8. AtomicState' = AtomicState /\ AtomicWho' = AtomicWho
    BY <1>1, <1>2 DEF AtomicState, AtomicWho
  <1>9. A!timer_handler
    <2>1. /\ A!Reinserted(AtomicLists, flags, SYSTEM) = AR
          /\ A!Charged(AtomicLists, flags, SYSTEM) = t
          /\ \A L : A!NonEmpty(L) = NonEmpty(L) /\ A!TopQueue(L) = TopQueue(L)
          /\ \A L, q : A!dequeue(L, q) = dequeue(L, q)
      BY DEF A!Reinserted, Reinserted, A!Charged, Charged, A!Accounted, Accounted,
             A!TopQueue, TopQueue, A!NonEmpty, NonEmpty, A!ReadyQueue, ReadyQueue,
             A!NUM_QUEUES, NUM_QUEUES, A!enqueue_head, enqueue_head, A!enqueue_tail,
             enqueue_tail, A!dequeue, dequeue
    <2> HIDE DEF R, AR, t
    <2>2. A!sched(AtomicLists, flags, SYSTEM)
      BY <1>5, <1>6, <1>7, <2>1 DEF A!sched
    <2>3. status = "running" /\ current_proc = SYSTEM
      BY <1>1 DEF Running
    <2> QED BY <1>1, <1>8, <2>2, <2>3
            DEF A!timer_handler, A!tableVars, A!ipcVars, A!sysVars
  <1>10. Midway'
    <2> HIDE DEF b, p
    <2>1. /\ EndAt(lists, b, p, pending.todo) => EndAt(lists', b, p, pending.todo)
          /\ ForkAt(lists, b, p, pending.todo) => ForkAt(lists', b, p, pending.todo)
      BY <1>2, <1>6, TickMidway
    <2>2. Ending => Ending'
      BY <1>1, <2>1 DEF Ending, b, p
    <2>3. Forking => Forking'
      BY <1>1, <2>1 DEF Forking, b, p
    <2> QED BY <1>1, <1>2, <1>6, <2>2, <2>3 DEF FInv, Midway, Running, b, p
  <1> QED BY <1>9, <1>10 DEF Step, A!Next

\* So is a character that arrives.
LEMMA InputIsInput ==
    ASSUME FInv, Working, SerialInput, UNCHANGED pending
    PROVE  Step /\ Midway'
  <1>1. /\ status = "running" /\ ~rx /\ rx' = TRUE
        /\ UNCHANGED <<lists, state, current_proc, status, flags, priority, quantum, imaged,
                       ticks_left, sender_q, next_sender, message, ret, buf, sys_pc, who,
                       response, pending>>
    BY DEF SerialInput, tableVars, ipcVars, schedVars, sysVars
  <1>2. AtomicLists' = AtomicLists /\ AtomicState' = AtomicState
        /\ AtomicWho' = AtomicWho
    BY <1>1 DEF AtomicLists, AtomicState, AtomicWho, Working
  <1>3. A!SerialInput
    BY <1>1, <1>2 DEF A!SerialInput, A!tableVars, A!ipcVars, A!schedVars, A!sysVars
  <1>4. Midway'
    BY <1>1 DEF FInv, Midway, Ending, Forking, Working, Running
  <1> QED BY <1>3, <1>4 DEF Step, A!Next

\* No step goes through a null tail, and nobody else traps during an operation.
LEMMA NoWildWrite == ASSUME FInv PROVE ~WildWrite
  <1> SUFFICES ASSUME WildWrite PROVE FALSE
    OBVIOUS
  <1>1. ~(Working /\ StrayStore)
    BY InOperation
  <1>2. PICK c \in Proc : /\ c = current_proc
                          /\ lists.head[priority[c]] # NULL
                          /\ lists.tail[priority[c]] = NULL
    <2>1. current_proc # NULL => current_proc \in Proc
      BY SameConst DEF FInv, A!IInv, A!SchedOK
    <2> QED BY <1>1, <2>1 DEF WildWrite, StrayTail
  <1>3. priority[c] \in Queue /\ priority[c] # FREE
    BY Abstract, Priorities DEF FInv
  <1>4. /\ AtomicLists.head[priority[c]] = lists.head[priority[c]]
        /\ AtomicLists.tail[priority[c]] = lists.tail[priority[c]]
    <2>1. CASE ~Working
      BY <2>1 DEF AtomicLists
    <2>2. CASE Working
      BY <1>3, <2>2, InOperation DEF Undone, Stores
    <2> QED BY <2>1, <2>2
  <1> QED BY <1>2, <1>3, <1>4, Abstract DEF FInv

LEMMA NobodyElse == ASSUME FInv, Working PROVE ~UserStep /\ ~Halted
  <1>1. status = "running" /\ current_proc = SYSTEM
    BY InOperation DEF Running
  <1>2. ASSUME NEW c \in Proc \ Tasks PROVE ~Running(c)
    BY <1>1 DEF Running, Tasks
  <1> QED BY <1>1, <1>2 DEF UserStep, UserCall, fault_handler, Halted

\* Every step of the finer kernel is a step of Kernel, or hidden.
LEMMA StepMaps ==
    ASSUME FInv, [FineNext]_fineVars
    PROVE  Step /\ Midway'
  <1>1. CASE UNCHANGED fineVars
    <2>1. UNCHANGED <<lists, state, current_proc, status, flags, priority, quantum, imaged,
                      ticks_left, sender_q, next_sender, message, ret, buf, rx, sys_pc,
                      who, response, pending>>
      BY <1>1 DEF fineVars, vars, tableVars, ipcVars, schedVars, sysVars
    <2>2. AtomicLists' = AtomicLists /\ AtomicState' = AtomicState
          /\ AtomicWho' = AtomicWho
      BY <2>1 DEF AtomicLists, AtomicState, AtomicWho, Working
    <2>3. Midway'
      BY <2>1 DEF FInv, Midway, Ending, Forking, Working, Running
    <2> QED BY <2>1, <2>2, <2>3, Hidden
  <1>2. CASE EndBegins
    BY <1>2, EndBeginsHidden
  <1>3. CASE ForkBegins
    BY <1>3, ForkBeginsHidden
  <1>4. CASE StoreStep
    BY <1>4, StoreStepHidden
  <1>5. CASE EnqueueEnds
    BY <1>5, EnqueueEndsEnds
  <1>6. CASE ForkEnds
    BY <1>6, ForkEndsForks
  <1>7. CASE Interrupt
    BY <1>7, PlainStep, TickIsTick, InputIsInput DEF Interrupt, Next
  <1>8. CASE WorkFails \/ Trap \/ Work \/ (Halted /\ UNCHANGED pending)
    <2>1. ~Working /\ UNCHANGED pending
      BY <1>8, NobodyElse DEF WorkFails, Trap, Work
    <2>2. Next
      BY <1>8 DEF WorkFails, Trap, Work, Next, SystemTask, SystemWork
    <2> QED BY <2>1, <2>2, PlainStep
  <1> QED BY <1>1, <1>2, <1>3, <1>4, <1>5, <1>6, <1>7, <1>8, NoExec, NoWildWrite
          DEF FineNext

LEMMA FInvInit == FineInit => A!Init /\ FInv
  <1> SUFFICES ASSUME FineInit PROVE A!Init /\ FInv
    OBVIOUS
  <1>1. Init /\ ~Working
    BY DEF FineInit, Working
  <1>2. AtomicLists = lists /\ AtomicState = state /\ AtomicWho = who
    BY <1>1 DEF AtomicLists, AtomicState, AtomicWho
  <1>3. A!Init
    BY <1>1, <1>2
       DEF Init, A!Init, A!Queue, Queue, A!ReadyQueue, ReadyQueue, A!NUM_QUEUES,
           NUM_QUEUES, A!FREE, FREE, A!USER_PRIORITY, USER_PRIORITY, A!IDLE_PRIORITY,
           IDLE_PRIORITY, A!SYSTEM_PRIORITY, SYSTEM_PRIORITY, A!Proc, Proc, A!SYSTEM,
           SYSTEM, A!IDLE, IDLE, A!INIT, INIT, A!SHELL, SHELL, A!Booted, Booted,
           A!NoMessage, NoMessage
  <1>4. A!IInv /\ A!PInv /\ A!ImagesOK
    BY <1>3, SameCalls, A!InitOK, A!InitKeeps, A!ImagesInit, SizeAssumption, NullAssumption,
       QuantumAssumption, AllocAssumption
  <1> QED BY <1>1, <1>2, <1>3, <1>4 DEF FInv, Midway, Init

LEMMA FInvStep ==
    ASSUME LibraryOnly
    PROVE  FInv /\ [FineNext]_fineVars => Step /\ FInv'
  <1> SUFFICES ASSUME FInv, [FineNext]_fineVars PROVE Step /\ FInv'
    OBVIOUS
  <1>1. A!LibraryOnly
    BY DEF A!LibraryOnly, LibraryOnly, A!Request, Request, A!SYSTEM, SYSTEM,
           A!LibraryTypes, LibraryTypes
  <1>3. [A!Next]_A!vars /\ Midway'
    BY StepMaps DEF Step
  <1>4. A!IInv'
    BY <1>3, SameCalls, A!StepOK, SizeAssumption, NullAssumption, QuantumAssumption,
       AllocAssumption DEF FInv
  <1>5. A!PInv'
    BY <1>1, <1>3, <1>4, SameCalls, A!StepKeeps, SizeAssumption, NullAssumption,
       QuantumAssumption, AllocAssumption DEF FInv
  <1>6. A!ImagesOK'
    BY <1>1, <1>3, SameCalls, A!ImagesKept, SizeAssumption, NullAssumption,
       QuantumAssumption, AllocAssumption DEF FInv
  <1>7. sys_pc' = "dispatch" => AtomicWho' = NULL
    BY <1>3, SameCalls, A!WhoUnset, SizeAssumption, NullAssumption, QuantumAssumption,
       AllocAssumption DEF FInv
  <1> QED BY <1>3, <1>4, <1>5, <1>6, <1>7 DEF FInv, Step

-----------------------------------------------------------------------------
(* The instance of Kernel that ImplementsKernel speaks of and the one inside A *)
(* are the same definitions under two names.                                   *)

LEMMA SameAtomicInit == A!Init => Atomic!Init
  BY SMTT(60) DEF A!Init, Atomic!Init, A!Queue, Atomic!Queue, A!USER_PRIORITY,
         Atomic!USER_PRIORITY, A!INIT, Atomic!INIT, A!IDLE_PRIORITY,
         Atomic!IDLE_PRIORITY, A!IDLE, Atomic!IDLE, A!FREE, Atomic!FREE,
         A!SHELL, Atomic!SHELL, A!Proc, Atomic!Proc, A!SYSTEM, Atomic!SYSTEM,
         A!Booted, Atomic!Booted, A!SYSTEM_PRIORITY, Atomic!SYSTEM_PRIORITY,
         A!NoMessage, Atomic!NoMessage, A!ReadyQueue, Atomic!ReadyQueue,
         A!NUM_QUEUES, Atomic!NUM_QUEUES

LEMMA SameAtomicSched ==
    ASSUME NEW L, NEW fl, NEW c, A!sched(L, fl, c) PROVE Atomic!sched(L, fl, c)
  BY DEF A!sched, Atomic!sched, A!Reinserted, Atomic!Reinserted, A!Charged,
         Atomic!Charged, A!TopQueue, Atomic!TopQueue, A!NonEmpty,
         Atomic!NonEmpty, A!dequeue, Atomic!dequeue, A!Accounted,
         Atomic!Accounted, A!enqueue_head, Atomic!enqueue_head, A!enqueue_tail,
         Atomic!enqueue_tail, A!ReadyQueue, Atomic!ReadyQueue, A!NUM_QUEUES,
         Atomic!NUM_QUEUES

LEMMA SameAtomicDeliver ==
    ASSUME NEW c, NEW d, NEW fl, NEW b, A!Deliver(c, d, fl, b)
    PROVE  Atomic!Deliver(c, d, fl, b)
  BY SameAtomicSched
     DEF A!Deliver, Atomic!Deliver, A!RECEIVING, Atomic!RECEIVING,
         A!enqueue_head, Atomic!enqueue_head

LEMMA SameAtomicSend ==
    ASSUME NEW c, NEW dest, NEW fl, NEW b, A!wini_send(c, dest, fl, b)
    PROVE  Atomic!wini_send(c, dest, fl, b)
  BY SameAtomicSched, SameAtomicDeliver
     DEF A!wini_send, Atomic!wini_send, A!get_proc, Atomic!get_proc,
         A!RECEIVING, Atomic!RECEIVING, A!SENDING, Atomic!SENDING, A!Proc,
         Atomic!Proc

LEMMA SameAtomicReceive ==
    ASSUME NEW c, NEW b, A!wini_receive(c, b) PROVE Atomic!wini_receive(c, b)
  BY SameAtomicSched
     DEF A!wini_receive, Atomic!wini_receive, A!SENDING, Atomic!SENDING,
         A!enqueue_head, Atomic!enqueue_head, A!RECEIVING, Atomic!RECEIVING,
         A!Stop, Atomic!Stop

LEMMA SameAtomicSendonce ==
    ASSUME NEW c, NEW dest, NEW b, A!wini_sendonce(c, dest, b)
    PROVE  Atomic!wini_sendonce(c, dest, b)
  BY SameAtomicSched, SameAtomicDeliver
     DEF A!wini_sendonce, Atomic!wini_sendonce, A!get_proc,
         Atomic!get_proc, A!RECEIVING, Atomic!RECEIVING, A!enqueue_tail,
         Atomic!enqueue_tail, A!Proc, Atomic!Proc

LEMMA SameAtomicCall ==
    ASSUME NEW c, NEW op, NEW dest, NEW m, A!syscall_handler(c, op, dest, m)
    PROVE  Atomic!syscall_handler(c, op, dest, m)
  BY SameAtomicSched, SameAtomicSend, SameAtomicReceive, SameAtomicSendonce
     DEF A!syscall_handler, Atomic!syscall_handler, A!RECEIVING,
         Atomic!RECEIVING

LEMMA SameAtomicUser == A!UserStep => Atomic!UserStep
  BY SameAtomicCall, SameAtomicSched
     DEF A!UserStep, Atomic!UserStep, A!Proc, Atomic!Proc, A!Tasks,
         Atomic!Tasks, A!UserCall, Atomic!UserCall, A!fault_handler,
         Atomic!fault_handler, A!SYSTEM, Atomic!SYSTEM, A!IDLE, Atomic!IDLE,
         A!Running, Atomic!Running, A!tableVars, Atomic!tableVars, A!sysVars,
         Atomic!sysVars, A!enqueue_tail, Atomic!enqueue_tail, A!FREE,
         Atomic!FREE, A!ipcVars, Atomic!ipcVars, A!NUM_QUEUES,
         Atomic!NUM_QUEUES

LEMMA SameAtomicTraps ==
    /\ A!SystemReceive => Atomic!SystemReceive
    /\ A!SystemReply => Atomic!SystemReply
    /\ A!SystemReplyChild => Atomic!SystemReplyChild
  BY SameAtomicCall
     DEF A!SystemReceive, Atomic!SystemReceive, A!SystemReply,
         Atomic!SystemReply, A!SystemReplyChild, Atomic!SystemReplyChild,
         A!Running, Atomic!Running, A!SYSTEM, Atomic!SYSTEM, A!NoMessage,
         Atomic!NoMessage, A!tableVars, Atomic!tableVars

LEMMA SameAtomicFork ==
    ASSUME NEW o, A!fork_proc(o) PROVE Atomic!fork_proc(o)
  BY DEF A!fork_proc, Atomic!fork_proc, A!FREE, Atomic!FREE, A!Tasks,
         Atomic!Tasks, A!SYSTEM, Atomic!SYSTEM, A!tableVars, Atomic!tableVars,
         A!schedVars, Atomic!schedVars, A!ForkInto, Atomic!ForkInto, A!Halts,
         Atomic!Halts, A!NUM_QUEUES, Atomic!NUM_QUEUES, A!IDLE, Atomic!IDLE,
         A!dequeue, Atomic!dequeue, A!ForkFields, Atomic!ForkFields, A!Stop,
         Atomic!Stop, A!ipcVars, Atomic!ipcVars, A!Copied, Atomic!Copied,
         A!SYSTEM_PRIORITY, Atomic!SYSTEM_PRIORITY

LEMMA SameAtomicWork == A!SystemWork => Atomic!SystemWork
  <1>1. A!SystemFork \/ A!SystemForkPid => Atomic!SystemWork
    BY SameAtomicFork, SMTT(60)
       DEF Atomic!SystemWork, A!SystemFork, Atomic!SystemFork, A!SystemForkPid,
           Atomic!SystemForkPid, A!Handles, Atomic!Handles, A!get_proc,
           Atomic!get_proc, A!SYSTEM, Atomic!SYSTEM, A!Halts, Atomic!Halts,
           A!Running, Atomic!Running, A!Proc, Atomic!Proc, A!Stop, Atomic!Stop,
           A!tableVars, Atomic!tableVars, A!ipcVars, Atomic!ipcVars
  <1>2. A!SystemExec => Atomic!SystemExec
    BY DEF A!SystemExec, Atomic!SystemExec, A!Handles, Atomic!Handles,
           A!get_proc, Atomic!get_proc, A!ReplaceProcess,
           Atomic!ReplaceProcess, A!Halts, Atomic!Halts, A!tableVars,
           Atomic!tableVars, A!ipcVars, Atomic!ipcVars, A!schedVars,
           Atomic!schedVars, A!Running, Atomic!Running, A!SYSTEM,
           Atomic!SYSTEM, A!Proc, Atomic!Proc, A!SYSTEM_PRIORITY,
           Atomic!SYSTEM_PRIORITY, A!enqueue_tail, Atomic!enqueue_tail, A!Stop,
           Atomic!Stop
  <1>3. /\ A!SystemValue => Atomic!SystemValue
        /\ A!SystemGetc => Atomic!SystemGetc
        /\ A!SystemNoReply => Atomic!SystemNoReply
        /\ A!SystemEnd => Atomic!SystemEnd
    BY DEF A!SystemValue, Atomic!SystemValue, A!SystemGetc,
           Atomic!SystemGetc, A!SystemNoReply, Atomic!SystemNoReply,
           A!SystemEnd, Atomic!SystemEnd, A!Handles, Atomic!Handles, A!SYSTEM,
           Atomic!SYSTEM, A!tableVars, Atomic!tableVars, A!schedVars,
           Atomic!schedVars, A!ipcVars, Atomic!ipcVars, A!enqueue_tail,
           Atomic!enqueue_tail, A!FREE, Atomic!FREE, A!Running, Atomic!Running,
           A!NUM_QUEUES, Atomic!NUM_QUEUES
  <1> QED BY <1>1, <1>2, <1>3 DEF A!SystemWork, Atomic!SystemWork

LEMMA SameAtomicNext == [A!Next]_A!vars => [Atomic!Next]_Atomic!vars
  <1>1. /\ A!SerialInput => Atomic!SerialInput
        /\ A!Halted => Atomic!Halted
        /\ UNCHANGED A!vars => UNCHANGED Atomic!vars
    BY DEF A!SerialInput, Atomic!SerialInput, A!Halted, Atomic!Halted,
           A!vars, Atomic!vars, A!tableVars, Atomic!tableVars, A!ipcVars,
           Atomic!ipcVars, A!schedVars, Atomic!schedVars, A!sysVars,
           Atomic!sysVars
  <1>2. A!timer_handler => Atomic!timer_handler
    BY SameAtomicSched
       DEF A!timer_handler, Atomic!timer_handler, A!tableVars,
           Atomic!tableVars, A!ipcVars, Atomic!ipcVars, A!sysVars,
           Atomic!sysVars
  <1> QED BY <1>1, <1>2, SameAtomicUser, SameAtomicTraps, SameAtomicWork
          DEF A!Next, Atomic!Next, A!SystemTask, Atomic!SystemTask

\* A timer tick in the middle of end_process or of get_free_proc does no harm: the
\* kernel whose list operations are interrupted implements the one whose list
\* operations are single steps.
THEOREM TicksDoNoHarm ==
    ASSUME LibraryOnly
    PROVE  FineSpec => ImplementsKernel
  <1>1. FineInit => Atomic!Init /\ FInv
    BY FInvInit, SameAtomicInit
  <1>2. FInv /\ [FineNext]_fineVars => [Atomic!Next]_Atomic!vars /\ FInv'
    BY FInvStep, SameAtomicNext DEF Step
  <1> QED BY <1>1, <1>2, PTL DEF FineSpec, ImplementsKernel, Atomic!Spec
==============================================================================
