-------------------------------- MODULE Boot --------------------------------
(***************************************************************************)
(* What main() does (main.c), one action per call, from the empty process  *)
(* table and the allocator as init_memory leaves it to the first sched().  *)
(* Nothing else runs yet: no interrupt is enabled before init_exceptions.  *)
(*                                                                         *)
(* The process table starts as the zeros of the bss segment.               *)
(***************************************************************************)
EXTENDS ProcessImages

CONSTANTS
    SYSTEM_QUANTUM, INIT_QUANTUM, SHELL_QUANTUM, DEFAULT_QUANTUM,
    INIT_LENGTH, SHELL_LENGTH     \* of init_code and shell_code (2, 1083)

ASSUME BootAssumption ==
    /\ NUM_PROCS >= 4
    /\ {SYSTEM_QUANTUM, INIT_QUANTUM, SHELL_QUANTUM, DEFAULT_QUANTUM}
           \subseteq Nat \ {0}
    /\ {INIT_LENGTH, SHELL_LENGTH} \subseteq Nat

NUM_QUEUES      == 5
SYSTEM_PRIORITY == 0
USER_PRIORITY   == 3
IDLE_PRIORITY   == 4
FREE            == NUM_QUEUES
Queue           == 0 .. NUM_QUEUES

VARIABLES
    boot_pc,                        \* the next call of main
    lists, current_proc,            \* as in Kernel
    priority, quantum, ticks_left

tableVars == <<lists, current_proc, priority, quantum, ticks_left>>
bootVars  == <<vars, boot_pc, tableVars, state, imageVars>>

BootInit ==
    /\ Init
    /\ boot_pc = "init_proc"
    /\ lists = [head |-> [q \in Queue |-> NULL], tail |-> [q \in Queue |-> NULL],
                next |-> [p \in Proc |-> NULL]]
    /\ current_proc = NULL
    /\ state = [p \in Proc |-> "DEAD"]
    /\ priority = [p \in Proc |-> 0]
    /\ quantum = [p \in Proc |-> 0]
    /\ ticks_left = [p \in Proc |-> 0]
    /\ image = [p \in Proc |-> NoImage]
    /\ protection_table = [p \in Proc |-> {}]
    /\ shift \in {"zero", "modulo"}

\* The call at pc is made and the next one is at next.
Step(pc, next) == boot_pc = pc /\ boot_pc' = next

\* All entries are put at the tail of the free list, in order.
init_proc ==
    /\ Step("init_proc", "new SYSTEM")
    /\ lists' = LET put[n \in 0 .. NUM_PROCS] ==
                        IF n = 0 THEN lists ELSE enqueue_tail(put[n - 1], FREE, n - 1)
                IN  put[NUM_PROCS]
    /\ UNCHANGED <<vars, state, imageVars, current_proc, priority, quantum, ticks_left>>

\* get_free_proc: the head of the free list, with default fields.
Taken == lists.head[FREE]

\* The process taken becomes ready with a priority and, when main assigns one, a
\* quantum of its own.
Admit(p, L, prio, ticks) ==
    /\ state' = [state EXCEPT ![p] = "RUNNABLE"]
    /\ priority' = [priority EXCEPT ![p] = prio]
    /\ quantum' = [quantum EXCEPT ![p] = ticks]
    /\ ticks_left' = [ticks_left EXCEPT ![p] = 0]
    /\ lists' = enqueue_tail(L, prio, p)
    /\ UNCHANGED current_proc

\* new_proc: a task of the kernel, which may touch every block; its stack comes
\* from _sbrk.
AllBlocks == 0 .. LAST \div BLOCK
new_proc_Bug(prio, ticks) ==        \* at the head of the queue of users
    /\ _sbrk(DEFAULT_STACK_SIZE)
    /\ Admit(Taken, dequeue(lists, FREE), USER_PRIORITY, ticks)
    /\ protection_table' = [protection_table EXCEPT ![Taken] = AllBlocks]
    /\ UNCHANGED <<image, shift>>
new_proc(prio, ticks) ==
    /\ _sbrk(DEFAULT_STACK_SIZE)
    /\ Admit(Taken, dequeue(lists, FREE), prio, ticks)
    /\ protection_table' = [protection_table EXCEPT ![Taken] = AllBlocks]
    /\ UNCHANGED <<image, shift>>

NewSystem == Step("new SYSTEM", "new IDLE") /\ new_proc(SYSTEM_PRIORITY, SYSTEM_QUANTUM)
NewIdle   == Step("new IDLE", "exec init")  /\ new_proc(IDLE_PRIORITY, DEFAULT_QUANTUM)

\* exec_new_proc of init.
NewInit ==
    /\ Step("exec init", "fork init")
    /\ ExecImage(Taken, INIT_LENGTH)
    /\ Admit(Taken, dequeue(lists, FREE), USER_PRIORITY, INIT_QUANTUM)

\* fork_proc of init, the process of the last step.  The child is on no queue.
Init_ == lists.head[USER_PRIORITY]
ForkInit ==
    /\ Step("fork init", "free the copy")
    /\ ForkImage(Init_, Taken)
    /\ state' = [state EXCEPT ![Taken] = "RUNNABLE"]
    /\ priority' = [priority EXCEPT ![Taken] = priority[Init_]]
    /\ quantum' = [quantum EXCEPT ![Taken] = quantum[Init_]]
    /\ ticks_left' = [ticks_left EXCEPT ![Taken] = ticks_left[Init_]]
    /\ lists' = dequeue(lists, FREE)
    /\ UNCHANGED current_proc

\* exec_replace_existing_proc of that child, which is the last entry in use:
\* its image is freed, the shell's allocated.
Child == CHOOSE p \in Proc : state[p] # "DEAD" /\ \A q \in Proc :
                                  state[q] # "DEAD" => q <= p
FreeCopy ==
    /\ Step("free the copy", "exec Shell")
    /\ proc_free(image[Child].rbase)
    /\ image' = [image EXCEPT ![Child] = NoImage]
    /\ state' = [state EXCEPT ![Child] = "INITIALISING"]
    /\ UNCHANGED <<protection_table, shift, tableVars>>
NewShell ==
    /\ Step("exec Shell", "sched")
    /\ ExecImage(Child, SHELL_LENGTH)
    /\ Admit(Child, lists, USER_PRIORITY, SHELL_QUANTUM)

\* init_exceptions and the first sched().
FirstSched ==
    /\ Step("sched", "booted")
    /\ LET p == lists.head[SYSTEM_PRIORITY]
       IN  /\ current_proc' = p
           /\ ticks_left' = [ticks_left EXCEPT ![p] = quantum[p]]
    /\ lists' = dequeue(lists, SYSTEM_PRIORITY)
    /\ UNCHANGED <<vars, state, imageVars, priority, quantum>>

BootNext == \/ init_proc \/ NewSystem \/ NewIdle \/ NewInit \/ ForkInit
            \/ FreeCopy \/ NewShell \/ FirstSched
-----------------------------------------------------------------------------
(* Properties *)

\* The kernel main leaves behind, as Kernel sees it.  The fields that
\* proc_set_default sets and nothing has changed are written out, and the quantum
\* of an entry not in use is what get_free_proc will set.
BootedKernel == INSTANCE Kernel WITH
    UserCalls <- {}, AllocOutcomes <- {TRUE},
    quantum <- [p \in Proc |-> IF state[p] = "DEAD" THEN DEFAULT_QUANTUM ELSE quantum[p]],
    imaged <- {p \in Proc : image[p].length # 0},
    flags <- [p \in Proc |-> {}], sender_q <- [p \in Proc |-> NULL],
    next_sender <- [p \in Proc |-> NULL], message <- [p \in Proc |-> NULL],
    ret <- [p \in Proc |-> -1],
    buf <- [p \in Proc |-> [src |-> p, type |-> "NONE", i1 |-> NULL]],
    rx <- FALSE, sys_pc <- "receive", who <- NULL, response <- 0

\* main hands over the state from which Kernel starts: what is shown and proved
\* of Kernel is about the system main really sets up.
HandsOverKernel ==
    [][boot_pc = "sched" /\ boot_pc' = "booted" => BootedKernel!Init']_bootVars
=============================================================================
