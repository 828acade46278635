-------------------------- MODULE InterruptedKernel --------------------------
(***************************************************************************)
(* Kernel with a finer grain.  The system task runs with interrupts on, so *)
(* the timer can find it in the middle of a list operation it performs:    *)
(* end_process and exec_proc enqueue a process, get_free_proc dequeues     *)
(* one.  Here each store of those operations to a list is a step, and a    *)
(* timer tick may fall between any two of them.                            *)
(*                                                                         *)
(* On the free list the grain does not matter: this module implements      *)
(* Kernel, in which the operation is one step.  On the ready queue of the  *)
(* system task itself, where exec puts the process it replaces, it does.   *)
(***************************************************************************)
EXTENDS Kernel

VARIABLE pending    \* the list operation the system task is in, if it is in one

fineVars == <<vars, pending>>

Working == pending.work # "none"

\* The stores a routine makes, in order, after it has read L.  The order of the
\* two in "q[HEAD] = q[TAIL] = ..." is the compiler's choice.
EnqueueStores(L, q) ==
    IF L.head[q] = NULL
    THEN {<<"tail", "head", "next">>, <<"head", "tail", "next">>}
    ELSE {<<"link", "tail", "next">>}
DequeueStores_Bug(L, q) ==        \* the pointers are not both reset
    IF L.head[q] = L.tail[q] THEN {<<"no_head", "next">>}
    ELSE {<<"skip", "next">>}
DequeueStores(L, q) ==
    IF L.head[q] = L.tail[q]
    THEN {<<"no_tail", "no_head", "next">>, <<"no_head", "no_tail", "next">>}
    ELSE {<<"skip", "next">>}

Stored(L, q, p, what) ==
    CASE what = "head"    -> [L EXCEPT !.head = [@ EXCEPT ![q] = p]]
      [] what = "tail"    -> [L EXCEPT !.tail = [@ EXCEPT ![q] = p]]
      [] what = "link"    -> [L EXCEPT !.next = [@ EXCEPT ![L.tail[q]] = p]]
      [] what = "next"    -> [L EXCEPT !.next = [@ EXCEPT ![p] = NULL]]
      [] what = "no_head" -> [L EXCEPT !.head = [@ EXCEPT ![q] = NULL]]
      [] what = "no_tail" -> [L EXCEPT !.tail = [@ EXCEPT ![q] = NULL]]
      [] what = "skip"    -> [L EXCEPT !.head = [@ EXCEPT ![q] = L.next[p]]]

\* The work goes on with the stores "todo" to the list q, for the process p.
\* "was" is what the code overwrites before them, "before" the lists as they
\* were: the code keeps neither.
Starts(work, q, p, stores) ==
    \E todo \in stores :
        pending' = [work |-> work, q |-> q, p |-> p, todo |-> todo,
                    was |-> state[p], before |-> lists]

\* end_process marks the process and starts to put it on the free list.
EndBegins ==
    /\ ~Working
    /\ Handles({"EXIT", "UNKNOWN", "NONE"})
    /\ state' = [state EXCEPT ![who'] = "DEAD"]
    /\ Starts("end", FREE, who', EnqueueStores(lists, FREE))
    /\ UNCHANGED <<priority, quantum, imaged, ipcVars, schedVars, sys_pc, response, rx>>

\* fork_proc starts to take a process off the free list.  (WorkFails: a fork or
\* an exec that fails, as in Kernel.)
ForkBegins ==
    /\ ~Working
    /\ Handles({"FORK"}) /\ who' \in imaged
    /\ lists.head[FREE] # NULL /\ TRUE \in AllocOutcomes
    /\ Starts("fork", FREE, lists.head[FREE], DequeueStores(lists, FREE))
    /\ UNCHANGED <<tableVars, ipcVars, schedVars, sys_pc, response, rx>>
WorkFails ==
    /\ ~Working
    /\ \/ SystemFork /\ (response' = -1 \/ status' # "running")
       \/ SystemExec /\ lists' = lists
    /\ UNCHANGED pending

\* exec_proc has filled the process in and starts to queue it.
ExecBegins ==
    /\ ~Working
    /\ Handles({"EXEC"}) /\ who' = get_proc(who')
    /\ state' = [state EXCEPT ![who'] = "RUNNABLE"]
    /\ flags' = [flags EXCEPT ![who'] = {}]
    /\ priority' = [priority EXCEPT ![who'] = SYSTEM_PRIORITY]
    /\ quantum' = [quantum EXCEPT ![who'] = DEFAULT_QUANTUM]
    /\ imaged' = imaged \cup {who'}
    /\ ticks_left' = [ticks_left EXCEPT ![who'] = 0]
    /\ sender_q' = [sender_q EXCEPT ![who'] = NULL]
    /\ next_sender' = [next_sender EXCEPT ![who'] = NULL]
    /\ message' = [message EXCEPT ![who'] = NULL]
    /\ ret' = [ret EXCEPT ![who'] = -1]
    /\ Starts("exec", SYSTEM_PRIORITY, who', EnqueueStores(lists, SYSTEM_PRIORITY))
    /\ UNCHANGED <<buf, lists, current_proc, status, sys_pc, response, rx>>

\* A queue that has a head but no tail is written to through the null tail: by
\* the system task's own enqueue, or by the sched() that puts c back on it.
StrayStore == Head(pending.todo) = "link" /\ lists.tail[pending.q] = NULL
StrayTail(c) ==
    /\ c # NULL /\ ticks_left[c] = 1
    /\ lists.head[priority[c]] # NULL /\ lists.tail[priority[c]] = NULL

\* The next store, when the processor is the system task's.
NextStore ==
    /\ Running(SYSTEM) /\ Working
    /\ ~StrayStore
    /\ lists' = Stored(lists, pending.q, pending.p, Head(pending.todo))

StoreStep ==
    /\ NextStore /\ Len(pending.todo) > 1
    /\ pending' = [pending EXCEPT !.todo = Tail(@)]
    /\ UNCHANGED <<tableVars, ipcVars, current_proc, ticks_left, status, sysVars, rx>>

\* The last one: end and exec are over, fork copies the process and replies.
EnqueueEnds ==
    /\ NextStore /\ Len(pending.todo) = 1 /\ pending.work \in {"end", "exec"}
    /\ pending' = [work |-> "none"]
    /\ sys_pc' = "receive"
    /\ UNCHANGED <<tableVars, ipcVars, current_proc, ticks_left, status, who,
                   response, rx>>
ForkEnds ==
    /\ NextStore /\ Len(pending.todo) = 1 /\ pending.work = "fork"
    /\ pending' = [work |-> "none"]
    /\ ForkFields(who, pending.p)
    /\ sys_pc' = "reply"
    /\ UNCHANGED <<current_proc, status, who, rx>>

\* The other steps are Kernel's.  A trap whose sched() would write through a null
\* tail does not get past it.
Interrupt ==
    /\ \/ timer_handler /\ (StrayTail(current_proc) => flags[current_proc] # {})
       \/ SerialInput
    /\ UNCHANGED pending
Trap ==
    /\ \/ UserStep
       \/ ~Working /\ (SystemReceive \/ SystemReply \/ SystemReplyChild)
    /\ StrayTail(current_proc) =>
           flags'[current_proc] # {} \/ state'[current_proc] = "DEAD"
    /\ UNCHANGED pending
Work ==
    /\ ~Working
    /\ SystemValue \/ SystemGetc \/ SystemNoReply \/ SystemForkPid
    /\ UNCHANGED pending
WildWrite ==
    /\ status = "running"
    /\ \/ StrayTail(current_proc) /\ flags[current_proc] = {}
       \/ Running(SYSTEM) /\ Working /\ StrayStore
    /\ Stop("wild")
    /\ UNCHANGED <<tableVars, ipcVars, sysVars, rx, pending>>

FineInit == Init /\ pending = [work |-> "none"]
FineNext == \/ EndBegins \/ ForkBegins \/ ExecBegins \/ WorkFails
            \/ StoreStep \/ EnqueueEnds \/ ForkEnds
            \/ Interrupt \/ Trap \/ Work \/ WildWrite
            \/ Halted /\ UNCHANGED pending
FineSpec == FineInit /\ [][FineNext]_fineVars
-----------------------------------------------------------------------------
(* Properties *)

\* Kernel, as the steps of this module implement it: until the last store of an
\* operation its list, and the process, are as they were before it.
AtomicLists ==
    LET b == pending.before
        q == pending.q
    IN  IF ~Working THEN lists
        ELSE [head |-> [lists.head EXCEPT ![q] = b.head[q]],
              tail |-> [lists.tail EXCEPT ![q] = b.tail[q]],
              next |-> [p \in Proc |-> IF p \in {pending.p, b.tail[q]}
                                      THEN b.next[p] ELSE lists.next[p]]]
AtomicState ==
    IF ~Working THEN state ELSE [state EXCEPT ![pending.p] = pending.was]

AtomicWho == IF ~Working THEN who ELSE NULL

Atomic == INSTANCE Kernel WITH lists <- AtomicLists, state <- AtomicState,
                               who <- AtomicWho

\* With the library's calls (exec and fork_pid left out) a timer tick in the middle of
\* end_process or of get_free_proc does no harm: whatever it does to the ready
\* queues, the operation has the effect it has when it is not interrupted.
ImplementsKernel == Atomic!Spec

\* enqueue_tail "Adds a proc to the tail of a list" (proc.c:36).
EnqueueTailAdds ==
    [][EnqueueEnds => lists'.tail[pending.q] = pending.p]_fineVars
=============================================================================
