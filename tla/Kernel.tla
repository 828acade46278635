------------------------------- MODULE Kernel -------------------------------
(***************************************************************************)
(* The WINIX kernel: the process table and scheduling queues (proc.c), the *)
(* exception handlers that enter it (exception.c), and the system task     *)
(* that serves system calls (system.c).                                    *)
(*                                                                         *)
(* Exceptions run with interrupts off, so a handler - the system call with *)
(* the wini_ routine it calls and the scheduler it ends in, a timer tick,  *)
(* a fault - is ONE step.  The system task is an ordinary process and is   *)
(* preempted like one: each call it makes to the kernel and the work it    *)
(* does between two calls are steps of their own, timer ticks fall between *)
(* them.  User processes are arbitrary: whenever one runs it may make any  *)
(* call of UserCalls, or fault.                                            *)
(***************************************************************************)
EXTENDS LinkedList

CONSTANTS
    NUM_PROCS,         \* size of the process table (20 in proc.h)
    UserCalls,         \* the calls user processes may make, a set of Call
    SYSTEM_QUANTUM, INIT_QUANTUM, SHELL_QUANTUM,   \* set by main()
    DEFAULT_QUANTUM,   \* set by proc_set_default()
    AllocOutcomes      \* may proc_malloc succeed (TRUE), fail (FALSE), or both

Proc == 0 .. NUM_PROCS - 1

NUM_QUEUES      == 5
SYSTEM_PRIORITY == 0
USER_PRIORITY   == 3
IDLE_PRIORITY   == 4
ReadyQueue      == 0 .. NUM_QUEUES - 1
FREE            == NUM_QUEUES          \* the list free_proc
Queue           == ReadyQueue \cup {FREE}

\* The slots main() hands out, in the order of the free list.
SYSTEM == 0
IDLE   == 1
INIT   == 2
SHELL  == 3
Tasks  == {SYSTEM, IDLE}               \* made by new_proc: no image of their own

SENDING   == "SENDING"
RECEIVING == "RECEIVING"
proc_state_t == {"DEAD", "INITIALISING", "RUNNABLE", "ZOMBIE"}

\* Message types.  UPTIME stands for every request that is answered with a
\* value and touches no process (UPTIME, SBRK, MALLOC); PUTC for every request
\* that is neither answered nor touches a process (PUTC, FREE, the overviews).
MsgType == {"NONE", "UPTIME", "PUTC", "GETC", "EXIT", "FORK", "FORK_PID",
            "EXEC", "UNKNOWN"}
\* i1 carries a process number, an error, or (NULL) a value nothing depends on.
MsgValue == (-1 .. NUM_PROCS) \cup {NULL}
message_t == [src : Proc, type : MsgType, i1 : MsgValue]

Operation == {"SEND", "RECEIVE", "SENDREC", "SENDONCE", "OTHER"}
Call == [op : Operation, dest : -1 .. NUM_PROCS, type : MsgType, i1 : MsgValue]

ASSUME SizeAssumption == NUM_PROCS \in Nat /\ NUM_PROCS >= 4
ASSUME NullAssumption == NULL \notin Int
ASSUME CallAssumption == UserCalls \subseteq Call
ASSUME QuantumAssumption ==
    {SYSTEM_QUANTUM, INIT_QUANTUM, SHELL_QUANTUM, DEFAULT_QUANTUM}
        \subseteq Nat \ {0}
ASSUME AllocAssumption == AllocOutcomes \subseteq BOOLEAN

\* The system call library (lib/syscall.c): requests that wait for an answer
\* use sendrec, the others send; every one goes to the system task.
Request(type) ==
    [op   |-> IF type \in {"UPTIME", "GETC", "EXIT", "FORK", "FORK_PID"}
              THEN "SENDREC" ELSE "SEND",
     dest |-> SYSTEM, type |-> type, i1 |-> NULL]

VARIABLES
    lists,         \* ready_q[0..4] and free_proc, with the "next" fields
    current_proc,  \* the running process, NULL once the kernel has panicked
    status,        \* "running", or how the kernel stopped: "no_process" (sched
                   \* found nothing to run), "panic" (another assertion failed),
                   \* "wild" (a null pointer was used)
    \* fields of proc_t
    state, flags, priority, quantum, ticks_left, sender_q, next_sender,
    imaged,        \* the processes whose length, the size of an image, is not 0
    message,       \* whose message buffer the saved pointer points into
    ret,           \* the saved register the call's return value goes to
    \* memory and device
    buf,           \* the message buffer "m" in each process's image
    rx,            \* a character waits in the serial port
    \* the system task's local variables and position in its loop
    sys_pc, who, response

tableVars == <<state, priority, quantum, imaged>>
ipcVars   == <<flags, sender_q, next_sender, message, ret, buf>>
schedVars == <<lists, current_proc, ticks_left, status>>
sysVars   == <<sys_pc, who, response>>
vars      == <<tableVars, ipcVars, schedVars, sysVars, rx>>
-----------------------------------------------------------------------------
(* Operators of proc.c *)

get_proc(n) == IF n \in Proc /\ state[n] # "DEAD" THEN n ELSE NULL

\* The highest-priority queue that is not empty: pick_proc takes its head.
NonEmpty(L) == {q \in ReadyQueue : L.head[q] # NULL}
TopQueue_Bug(L) == CHOOSE q \in NonEmpty(L) : \A r \in NonEmpty(L) : r <= q
TopQueue(L) == CHOOSE q \in NonEmpty(L) : \A r \in NonEmpty(L) : q <= r

\* sched(), entered with the queues L and the flags fl, after process c ran
\* (NULL: it was killed).  A process with a flag set is blocked: it is not put
\* back and not charged.
Accounted(L, fl, c) == c # NULL /\ fl[c] = {}
Reinserted_Bug(L, fl, c) ==       \* out of time: not put back
    IF ~Accounted(L, fl, c) \/ ticks_left[c] - 1 = 0 THEN L
    ELSE enqueue_head(L, priority[c], c)
Reinserted(L, fl, c) ==
    IF ~Accounted(L, fl, c) THEN L
    ELSE IF ticks_left[c] - 1 # 0 THEN enqueue_head(L, priority[c], c)
    ELSE enqueue_tail(L, priority[c], c)
Charged_Bug(L, fl, c) == ticks_left
Charged(L, fl, c) ==
    IF Accounted(L, fl, c) THEN [ticks_left EXCEPT ![c] = @ - 1] ELSE ticks_left

sched(L, fl, c) ==
    LET R == Reinserted(L, fl, c)
        t == Charged(L, fl, c)
        q == TopQueue(R)
        p == R.head[q]
    IN  IF NonEmpty(R) = {}
        THEN /\ status' = "no_process"
             /\ current_proc' = NULL
             /\ lists' = R /\ ticks_left' = t
        ELSE /\ lists' = dequeue(R, q)
             /\ current_proc' = p
             /\ ticks_left' = [t EXCEPT ![p] = IF @ <= 0 THEN quantum[p] ELSE @]
             /\ UNCHANGED status

\* The kernel stops, in the way "how" says: nothing is scheduled again.
Stop(how) == /\ status' = how /\ current_proc' = NULL
             /\ UNCHANGED <<lists, ticks_left>>

\* Deliver m to d, which waits in a receive, and make it ready (proc.c:559-565,
\* 637-644): the write goes through the pointer d saved.
Deliver_Bug(c, d, fl, b) ==       \* onto the queue of user processes
    /\ buf' = [b EXCEPT ![message'[d]] = b[c]]
    /\ flags' = [fl EXCEPT ![d] = @ \ {RECEIVING}]
    /\ UNCHANGED <<sender_q, next_sender>>
    /\ sched(enqueue_head(lists, USER_PRIORITY, d), flags', c)
DeliverLast_Bug(c, d, fl, b) ==   \* behind the processes of its priority
    /\ buf' = [b EXCEPT ![message'[d]] = b[c]]
    /\ flags' = [fl EXCEPT ![d] = @ \ {RECEIVING}]
    /\ UNCHANGED <<sender_q, next_sender>>
    /\ sched(enqueue_tail(lists, priority[d], d), flags', c)
Deliver(c, d, fl, b) ==
    /\ buf' = [b EXCEPT ![message'[d]] = b[c]]
    /\ flags' = [fl EXCEPT ![d] = @ \ {RECEIVING}]
    /\ UNCHANGED <<sender_q, next_sender>>
    /\ sched(enqueue_head(lists, priority[d], d), flags', c)

\* c sends the message in b[c] to dest; fl are the flags when the send starts.
wini_send(c, dest, fl, b) ==
    LET d == get_proc(dest) IN
    /\ message' = [message EXCEPT ![c] = c]
    /\ ret' = [ret EXCEPT ![c] = IF d = NULL THEN -1 ELSE 0]
    /\ \/ /\ d = NULL
          /\ buf' = b /\ flags' = fl
          /\ UNCHANGED <<sender_q, next_sender>>
          /\ sched(lists, fl, c)
       \/ /\ d # NULL /\ RECEIVING \in fl[d]
          /\ Deliver(c, d, fl, b)
       \/ /\ d # NULL /\ RECEIVING \notin fl[d]
          /\ flags' = [fl EXCEPT ![c] = @ \cup {SENDING}]
          /\ next_sender' = [next_sender EXCEPT ![c] = sender_q[d]]
          /\ sender_q' = [sender_q EXCEPT ![d] = c]
          /\ buf' = b
          /\ sched(lists, flags', c)

wini_receive(c, b) ==
    LET p == sender_q[c] IN
    /\ ret' = [ret EXCEPT ![c] = 0]
    /\ \/ /\ p # NULL /\ message[p] # NULL
          /\ sender_q' = [sender_q EXCEPT ![c] = next_sender[p]]
          /\ buf' = [b EXCEPT ![c] = b[message[p]]]
          /\ flags' = [flags EXCEPT ![p] = @ \ {SENDING}]
          /\ UNCHANGED <<next_sender, message>>
          /\ sched(enqueue_head(lists, priority[p], p), flags', c)
       \/ /\ p = NULL
          /\ message' = [message EXCEPT ![c] = c]
          /\ flags' = [flags EXCEPT ![c] = @ \cup {RECEIVING}]
          /\ buf' = b
          /\ UNCHANGED <<sender_q, next_sender>>
          /\ sched(lists, flags', c)
       \/ /\ p # NULL /\ message[p] = NULL
          /\ buf' = b
          /\ UNCHANGED <<flags, sender_q, next_sender, message>>
          /\ Stop("wild")

wini_sendonce(c, dest, b) ==
    LET d == get_proc(dest) IN
    /\ message' = [message EXCEPT ![c] = c]
    /\ ret' = [ret EXCEPT ![c] = IF d = NULL THEN -1 ELSE 0]
    /\ \/ /\ d = NULL
          /\ buf' = b
          /\ UNCHANGED <<flags, sender_q, next_sender>>
          /\ sched(lists, flags, c)
       \/ /\ d # NULL /\ RECEIVING \in flags[d]
          /\ Deliver(c, d, flags, b)
       \/ /\ d # NULL /\ RECEIVING \notin flags[d]
          /\ buf' = b
          /\ UNCHANGED <<flags, sender_q, next_sender>>
          /\ sched(enqueue_tail(lists, priority[c], c), flags, c)
-----------------------------------------------------------------------------
(* Exception handlers *)

\* Process c traps with operation op on the message m; the kernel stamps m.src.
syscall_handler(c, op, dest, m) ==
    LET b == [buf EXCEPT ![c] = [m EXCEPT !.src = c]] IN
    \/ /\ op = "SENDREC"
       /\ wini_send(c, dest, [flags EXCEPT ![c] = @ \cup {RECEIVING}], b)
    \/ /\ op = "SEND"
       /\ wini_send(c, dest, flags, b)
    \/ /\ op = "RECEIVE"
       /\ wini_receive(c, b)
    \/ /\ op = "SENDONCE"
       /\ wini_sendonce(c, dest, b)
    \/ /\ op = "OTHER"
       /\ ret' = [ret EXCEPT ![c] = -1]
       /\ buf' = b
       /\ UNCHANGED <<flags, sender_q, next_sender, message>>
       /\ sched(lists, flags, c)

Running(p) == status = "running" /\ current_proc = p

\* The timer interrupt: whoever runs goes back on its queue and another is picked.
timer_handler ==
    /\ status = "running"
    /\ sched(lists, flags, current_proc)
    /\ UNCHANGED <<tableVars, ipcVars, sysVars, rx>>

UserCall(c, call) ==
    /\ Running(c)
    /\ syscall_handler(c, call.op, call.dest,
                       [src |-> c, type |-> call.type, i1 |-> call.i1])
    /\ UNCHANGED <<tableVars, sysVars, rx>>

\* gpf_handler and arith_handler: the running process is killed.
fault_handler_Bug(c) ==           \* returns without calling the scheduler
    /\ Running(c)
    /\ state' = [state EXCEPT ![c] = "DEAD"]
    /\ lists' = enqueue_tail(lists, FREE, c)
    /\ current_proc' = NULL
    /\ UNCHANGED <<priority, quantum, imaged, ipcVars, sysVars, rx, ticks_left, status>>
fault_handler(c) ==
    /\ Running(c)
    /\ state' = [state EXCEPT ![c] = "DEAD"]
    /\ sched(enqueue_tail(lists, FREE, c), flags, NULL)
    /\ UNCHANGED <<priority, quantum, imaged, ipcVars, sysVars, rx>>

\* A character arrives at serial port 1.
SerialInput ==
    /\ status = "running" /\ ~rx
    /\ rx' = TRUE
    /\ UNCHANGED <<tableVars, ipcVars, schedVars, sysVars>>
-----------------------------------------------------------------------------
(* The system task: receive, do the work, reply, repeat. *)

\* The locals of the loop start afresh in each iteration.
NoMessage(p) == [src |-> p, type |-> "NONE", i1 |-> NULL]

SystemReceive ==
    /\ Running(SYSTEM) /\ sys_pc = "receive"
    /\ syscall_handler(SYSTEM, "RECEIVE", NULL, NoMessage(SYSTEM))
    /\ sys_pc' = "dispatch"
    /\ who' = NULL /\ response' = 0
    /\ UNCHANGED <<tableVars, rx>>

\* The request has been received and its work starts.
Handles(types) ==
    /\ Running(SYSTEM) /\ sys_pc = "dispatch"
    /\ buf[SYSTEM].type \in types
    /\ who' = buf[SYSTEM].src

SystemValue_Bug ==                \* the reply is forgotten
    /\ Handles({"UPTIME"})
    /\ sys_pc' = "receive"
    /\ UNCHANGED <<tableVars, ipcVars, schedVars, response, rx>>
SystemValue ==
    /\ Handles({"UPTIME"})
    /\ buf' = [buf EXCEPT ![SYSTEM].i1 = NULL]
    /\ sys_pc' = "reply"
    /\ UNCHANGED <<tableVars, flags, sender_q, next_sender, message, ret,
                   schedVars, response, rx>>

\* kgetc() polls the serial port, inside the system task.
SystemGetc ==
    /\ Handles({"GETC"})
    /\ rx
    /\ rx' = FALSE
    /\ buf' = [buf EXCEPT ![SYSTEM].i1 = NULL]
    /\ sys_pc' = "reply"
    /\ UNCHANGED <<tableVars, flags, sender_q, next_sender, message, ret,
                   schedVars, response>>

SystemNoReply ==
    /\ Handles({"PUTC"})
    /\ sys_pc' = "receive"
    /\ UNCHANGED <<tableVars, ipcVars, schedVars, response, rx>>

\* EXIT, and every type the switch does not know: end_process(p).
SystemEnd_Bug ==                  \* no break: falls into a reply
    /\ Handles({"EXIT", "UNKNOWN", "NONE"})
    /\ state' = [state EXCEPT ![who'] = "DEAD"]
    /\ lists' = enqueue_tail(lists, FREE, who')
    /\ sys_pc' = "reply"
    /\ UNCHANGED <<priority, quantum, imaged, ipcVars, current_proc, ticks_left, status,
                   response, rx>>
SystemEndLost_Bug ==              \* the process is not put on the free list
    /\ Handles({"EXIT", "UNKNOWN", "NONE"})
    /\ state' = [state EXCEPT ![who'] = "DEAD"]
    /\ sys_pc' = "receive"
    /\ UNCHANGED <<priority, quantum, imaged, ipcVars, schedVars, response, rx>>
SystemEnd ==
    /\ Handles({"EXIT", "UNKNOWN", "NONE"})
    /\ state' = [state EXCEPT ![who'] = "DEAD"]
    /\ lists' = enqueue_tail(lists, FREE, who')
    /\ sys_pc' = "receive"
    /\ UNCHANGED <<priority, quantum, imaged, ipcVars, current_proc, ticks_left, status,
                   response, rx>>

Halts(how) ==
    /\ Stop(how)
    /\ UNCHANGED <<tableVars, ipcVars, response, rx>>

\* fork_proc(o): the child p is a copy of o, saved message pointer and sender
\* queue included, and is put on no queue.  i1 of the reply is its number.
\* The slot gets default fields d first, which are what is copied when the free
\* slot is o itself (a dead process that still ran): its copy has no image left,
\* and a process without one, as the tasks are, is refused.
\* An empty process table and an exhausted memory are failed assertions.
Copied(f, o, p, d) == [f EXCEPT ![p] = IF o = p THEN d ELSE f[o]]

ForkFields(o, p) ==
    /\ state' = [state EXCEPT ![p] = "RUNNABLE"]
    /\ flags' = Copied(flags, o, p, {})
    /\ priority' = Copied(priority, o, p, SYSTEM_PRIORITY)
    /\ quantum' = Copied(quantum, o, p, DEFAULT_QUANTUM)
    /\ imaged' = IF o = p THEN imaged \ {p} ELSE imaged \cup {p}
    /\ ticks_left' = Copied(ticks_left, o, p, 0)
    /\ sender_q' = Copied(sender_q, o, p, NULL)
    /\ next_sender' = Copied(next_sender, o, p, NULL)
    /\ message' = Copied(message, o, p, NULL)
    /\ ret' = Copied(ret, o, p, -1)
    /\ buf' = [buf EXCEPT ![p] = buf[o], ![SYSTEM].i1 = p]
    /\ response' = p

ForkInto(o, p) ==
    /\ lists' = [dequeue(lists, FREE) EXCEPT !.next = [@ EXCEPT ![p] = NULL]]
    /\ ForkFields(o, p)
    /\ UNCHANGED <<current_proc, status, rx>>

fork_proc(o) ==
    LET p == lists.head[FREE] IN
    \/ /\ o \notin imaged
       /\ response' = -1
       /\ buf' = [buf EXCEPT ![SYSTEM].i1 = -1]
       /\ UNCHANGED <<tableVars, flags, sender_q, next_sender, message, ret,
                      schedVars, rx>>
    \/ /\ o \in imaged
       /\ p # NULL /\ TRUE \in AllocOutcomes
       /\ ForkInto(o, p)
    \/ /\ o \in imaged
       /\ p = NULL \/ FALSE \in AllocOutcomes
       /\ Halts("panic")

SystemFork ==
    /\ Handles({"FORK"})
    /\ fork_proc(who')
    /\ sys_pc' = "reply"

\* fork_proc(get_proc(m.i1)), with no check of what get_proc returned.
SystemForkPid ==
    /\ Handles({"FORK_PID"})
    /\ LET o == get_proc(buf[SYSTEM].i1) IN
       \/ o # NULL /\ fork_proc(o)
       \/ o = NULL /\ Halts("wild")
    /\ sys_pc' = "reply"

\* exec_read_srec succeeds: the process p gets default fields, a new image and
\* the system's priority, and is put on the ready queue (exec.c:15-77, 156).
ReplaceProcess(p) ==
    /\ state' = [state EXCEPT ![p] = "RUNNABLE"]
    /\ flags' = [flags EXCEPT ![p] = {}]
    /\ priority' = [priority EXCEPT ![p] = SYSTEM_PRIORITY]
    /\ quantum' = [quantum EXCEPT ![p] = DEFAULT_QUANTUM]
    /\ imaged' = imaged \cup {p}
    /\ ticks_left' = [ticks_left EXCEPT ![p] = 0]
    /\ sender_q' = [sender_q EXCEPT ![p] = NULL]
    /\ next_sender' = [next_sender EXCEPT ![p] = NULL]
    /\ message' = [message EXCEPT ![p] = NULL]
    /\ ret' = [ret EXCEPT ![p] = -1]
    /\ lists' = enqueue_tail(lists, SYSTEM_PRIORITY, p)
    /\ UNCHANGED <<buf, current_proc, status, response, rx>>

SystemExec ==
    /\ Handles({"EXEC"})
    /\ sys_pc' = "receive"
    /\ LET p == get_proc(who') IN
       \/ p # NULL /\ TRUE \in AllocOutcomes /\ ReplaceProcess(p)
       \/ /\ p = NULL \/ FALSE \in AllocOutcomes
          /\ Halts("panic")
       \/ FALSE \in AllocOutcomes /\ Halts("wild")   \* its first allocation
       \/ UNCHANGED <<tableVars, ipcVars, schedVars, response, rx>> \* bad file

SystemReply_Bug ==                \* the child is answered first
    /\ Running(SYSTEM) /\ sys_pc = "reply"
    /\ syscall_handler(SYSTEM, "SEND",
                       IF response = 0 THEN who ELSE response, buf[SYSTEM])
    /\ sys_pc' = IF buf[SYSTEM].type \in {"FORK", "FORK_PID"} THEN "reply_child"
                 ELSE "receive"
    /\ UNCHANGED <<tableVars, who, response, rx>>
SystemReply ==
    /\ Running(SYSTEM) /\ sys_pc = "reply"
    /\ syscall_handler(SYSTEM, "SEND", who, buf[SYSTEM])
    /\ sys_pc' = IF buf[SYSTEM].type \in {"FORK", "FORK_PID"} THEN "reply_child"
                 ELSE "receive"
    /\ UNCHANGED <<tableVars, who, response, rx>>

\* Send 0 to the child.
SystemReplyChild ==
    /\ Running(SYSTEM) /\ sys_pc = "reply_child"
    /\ syscall_handler(SYSTEM, "SEND", response, [buf[SYSTEM] EXCEPT !.i1 = 0])
    /\ sys_pc' = "receive"
    /\ UNCHANGED <<tableVars, who, response, rx>>

\* panic() spins for ever; what follows the use of a null pointer is not modelled.
Halted == status # "running" /\ UNCHANGED vars
-----------------------------------------------------------------------------
(* The state in which main() leaves the kernel: its sched() has picked SYSTEM. *)
Booted == {SYSTEM, IDLE, INIT, SHELL}

Init ==
    /\ lists = [head |-> [q \in Queue |->
                    CASE q = USER_PRIORITY -> INIT
                      [] q = IDLE_PRIORITY -> IDLE
                      [] q = FREE -> IF NUM_PROCS > 4 THEN 4 ELSE NULL
                      [] OTHER -> NULL],
                tail |-> [q \in Queue |->
                    CASE q = USER_PRIORITY -> SHELL
                      [] q = IDLE_PRIORITY -> IDLE
                      [] q = FREE -> IF NUM_PROCS > 4 THEN NUM_PROCS - 1 ELSE NULL
                      [] OTHER -> NULL],
                next |-> [p \in Proc |->
                    IF p \in {SYSTEM, IDLE, SHELL, NUM_PROCS - 1} THEN NULL
                    ELSE p + 1]]
    /\ current_proc = SYSTEM
    /\ status = "running"
    /\ state = [p \in Proc |-> IF p \in Booted THEN "RUNNABLE" ELSE "DEAD"]
    /\ flags = [p \in Proc |-> {}]
    /\ priority = [p \in Proc |-> CASE p = IDLE -> IDLE_PRIORITY
                                    [] p \in {INIT, SHELL} -> USER_PRIORITY
                                    [] OTHER -> SYSTEM_PRIORITY]
    /\ quantum = [p \in Proc |-> CASE p = SYSTEM -> SYSTEM_QUANTUM
                                   [] p = INIT -> INIT_QUANTUM
                                   [] p = SHELL -> SHELL_QUANTUM
                                   [] OTHER -> DEFAULT_QUANTUM]
    /\ imaged = {INIT, SHELL}
    /\ ticks_left = [p \in Proc |-> IF p = SYSTEM THEN SYSTEM_QUANTUM ELSE 0]
    /\ sender_q = [p \in Proc |-> NULL]
    /\ next_sender = [p \in Proc |-> NULL]
    /\ message = [p \in Proc |-> NULL]
    /\ ret = [p \in Proc |-> -1]
    /\ buf = [p \in Proc |-> NoMessage(p)]
    /\ rx = FALSE
    /\ sys_pc = "receive"
    /\ who = NULL
    /\ response = 0

UserStep == \E c \in Proc \ Tasks : \/ \E call \in UserCalls : UserCall(c, call)
                                    \/ fault_handler(c)

SystemWork == \/ SystemValue \/ SystemGetc \/ SystemNoReply \/ SystemEnd
              \/ SystemFork \/ SystemForkPid \/ SystemExec

SystemTask == SystemReceive \/ SystemWork \/ SystemReply \/ SystemReplyChild

Next == timer_handler \/ UserStep \/ SystemTask \/ SerialInput \/ Halted

Spec == Init /\ [][Next]_vars
-----------------------------------------------------------------------------
(* Properties *)

User == Proc \ Tasks
Live(p) == state[p] # "DEAD"

\* Every field keeps its type; current_proc is null only when the kernel stopped.
TypeOK ==
    /\ lists \in Stores(Proc, Queue)
    /\ status \in {"running", "no_process", "panic", "wild"}
    /\ current_proc \in Proc \cup {NULL}
    /\ (status = "running") <=> (current_proc # NULL)
    /\ state \in [Proc -> proc_state_t]
    /\ flags \in [Proc -> SUBSET {SENDING, RECEIVING}]
    /\ priority \in [Proc -> ReadyQueue]
    /\ quantum \in [Proc -> Nat \ {0}]
    /\ imaged \subseteq Proc
    /\ ticks_left \in [Proc -> Int]
    /\ sender_q \in [Proc -> Proc \cup {NULL}]
    /\ next_sender \in [Proc -> Proc \cup {NULL}]
    /\ message \in [Proc -> Proc \cup {NULL}]
    /\ ret \in [Proc -> {-1, 0}]
    /\ buf \in [Proc -> message_t]
    /\ rx \in BOOLEAN
    /\ sys_pc \in {"receive", "dispatch", "reply", "reply_child"}
    /\ who \in Proc \cup {NULL}
    /\ response \in Proc \cup {-1}

\* The assertion of sched() never fails: there is always a process to run
\* (proc.c:504).  The kernel relies on IDLE for it, which sits in its own queue;
\* no call of a process, however broken, may end, block or unlink IDLE.
SchedNeverNull == status # "no_process"

\* A list that has a head has a tail: enqueue_tail writes through the tail when
\* the head is set (proc.c:42-51), and dequeue asserts the converse on the free
\* list only (proc.c:103).
NoNullTail == \A q \in Queue : lists.head[q] # NULL => lists.tail[q] # NULL

\* The idle task runs only when no other process is queued to run.
IdleLast == current_proc = IDLE =>
                \A q \in ReadyQueue : lists.head[q] = NULL

\* Where a process should be queued: a dead one on the free list, a ready one
\* on the queue of its priority, the running and the blocked ones nowhere.
Place(p) == CASE ~Live(p) -> {FREE}
              [] Live(p) /\ (p = current_proc \/ flags[p] # {}) -> {}
              [] OTHER -> {priority[p]}

\* With one "next" field per process, a process must be on at most one list, and
\* on the one it belongs to, once: no process is lost, run twice in a round, run
\* while blocked, or handed out by fork while it is queued.
ReadyExactlyOnce ==
    status = "running" =>
        /\ \A q \in Queue : Proper(lists, q, NUM_PROCS)
        /\ LET on == [q \in Queue |-> Members(lists, q, NUM_PROCS)]
           IN  \A p \in Proc : {q \in Queue : p \in on[q]} = Place(p)

\* Processes that use the library never block in a send: a user process only
\* runs while the system task waits in receive.  So no process is ever linked
\* into a sender queue, whose links fork copies and exit forgets.
SendsNeverBlock ==
    \A p \in Proc : SENDING \notin flags[p] /\ sender_q[p] = NULL

\* Whoever the system task is about to answer is alive and waits for it: the
\* reply wakes it at once, is not lost, and does not block the system task.
Addressee == CASE sys_pc = "reply" -> who
               [] sys_pc = "reply_child" -> response
               [] OTHER -> NULL
ReplyReaches ==
    status = "running" /\ Addressee # NULL =>
        Live(Addressee) /\ flags[Addressee] = {RECEIVING}

\* The system task serves one request at a time: whoever waits is the sender of
\* the request being served, or the child a fork has just made for it.
Requester == CASE sys_pc = "dispatch" /\ flags[SYSTEM] = {} -> buf[SYSTEM].src
               [] sys_pc \in {"receive", "reply_child"} -> NULL
               [] OTHER -> who
OneAtATime ==
    \A p \in User : Live(p) /\ flags[p] # {} =>
        \/ p = Requester
        \/ sys_pc \in {"reply", "reply_child"} /\ p = response

\* No process runs while one of higher priority is queued (proc.c:194-204).
PriorityOrder ==
    status = "running" =>
        \A q \in ReadyQueue : q < priority[current_proc] => lists.head[q] = NULL

\* Once the system task has been woken nothing else runs until it waits again,
\* though the timer interrupts it: what it does to the lists with interrupts on
\* (fork_proc, end_process) meets no list operation of another process.
ServesUndisturbed ==
    status = "running" /\ flags[SYSTEM] = {} => current_proc = SYSTEM

\* The assertions of fork fail only when no entry of the process table is left, or no
\* memory: whatever ended before, by a call or by a fault, has been given back.
PanicsWhenFull ==
    status = "panic" => (\A p \in Proc : Live(p)) \/ FALSE \in AllocOutcomes

\* Only the system task's reply to it resumes a process that waits in sendrec.
OnlyReplyWakes ==
    [][\A p \in User : Live(p) /\ flags[p] = {RECEIVING} /\ flags'[p] = {} =>
           current_proc = SYSTEM /\ p = Addressee]_vars
\* The linked lists keep the order of arrival that Scheduler gives its queues, and
\* no interleaving of calls, faults and ticks makes a process overtake its equals,
\* stay in front of them beyond its turn, or run before one of higher priority.
Queues == [q \in Queue |-> Spelling(lists, q, NUM_PROCS)]
Scheduling == INSTANCE Scheduler
                  WITH queue <- Queues, running <- current_proc, time <- ticks_left
ImplementsScheduler == Scheduling!Spec
-----------------------------------------------------------------------------
(* Liveness.  The timer interrupts for ever, the system task takes its next    *)
(* step when it has the processor, and characters keep arriving.               *)
Fairness == WF_vars(timer_handler) /\ WF_vars(SystemTask) /\ WF_vars(SerialInput)
LiveSpec == Spec /\ Fairness

\* A process that waits for an answer gets it (unless the kernel panics, or it
\* asked to exit).
Answered ==
    \A p \in User : (Live(p) /\ flags[p] # {}) ~>
                    (flags[p] = {} \/ ~Live(p) \/ status # "running")

\* Processes that compute without calling the kernel share the processor: from
\* then on no ready process is passed over for ever.
Computing == \A c \in User, call \in UserCalls : ~UserCall(c, call)
RoundRobin ==
    <>[][Computing]_vars =>
        \A p \in User : []<>(\/ current_proc = p \/ flags[p] # {} \/ ~Live(p)
                             \/ status # "running")
-----------------------------------------------------------------------------
(* What comments of the source say, and raw calls or exec refute.              *)

\* wini_send returns "-1 if destination is invalid" (proc.c:546-548): a call
\* that failed has returned, its caller does not wait.
FailedCallReturns == \A p \in User : Live(p) /\ ret[p] = -1 => flags[p] = {}

\* pick_proc returns "the process that is runnable with the highest priority"
\* (proc.c:197-199).
PickedIsRunnable ==
    status = "running" =>
        state[current_proc] = "RUNNABLE" /\ flags[current_proc] = {}

\* "send 0 to child" (system.c:113), and sendrec "overwrites m with the reply
\* message" (ipc.c:43): when the child is resumed its own m holds the 0.
ChildReceivesZero ==
    [][sys_pc = "reply_child" /\ sys_pc' = "receive" /\ response # -1
           => buf'[response].i1 = 0]_vars
=============================================================================
