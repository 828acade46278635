----------------------------- MODULE Scheduler ------------------------------
(***************************************************************************)
(* What the scheduler of proc.c promises, with sequences in place of its   *)
(* linked lists and without the messages that wake and block processes.    *)
(*                                                                         *)
(* The processor goes to the first process of the best queue that has one. *)
(* A process that has time left keeps its place in front of its equals,    *)
(* and goes behind them when its time is up; one that is woken comes       *)
(* before its equals; otherwise nobody overtakes anybody.  Only the system *)
(* task wakes others and is woken by them, makes processes and ends them.  *)
(* Slots of the process table are used again in the order they got free.   *)
(***************************************************************************)
EXTENDS Integers, Sequences

CONSTANTS NULL, NUM_PROCS, Proc, SYSTEM, IDLE, INIT, SHELL,
          ReadyQueue, FREE, SYSTEM_PRIORITY, USER_PRIORITY, IDLE_PRIORITY

VARIABLES
    queue,      \* the processes of each ready queue, and the free slots
    running,    \* the process that has the processor; NULL: the kernel stopped
    time,       \* how many ticks of its turn each process has left
    quantum     \* how many it gets when it has none left

vars == <<queue, running, time, quantum>>

Home(p) == CASE p = SYSTEM -> SYSTEM_PRIORITY
             [] p = IDLE -> IDLE_PRIORITY
             [] OTHER -> USER_PRIORITY

First(Q, p) == [Q EXCEPT ![Home(p)] = <<p>> \o @]
Last(Q, p)  == [Q EXCEPT ![Home(p)] = Append(@, p)]
Freed(Q, p) == [Q EXCEPT ![FREE] = Append(@, p)]

\* p neither runs nor is on a queue: it waits for a message.
Waits(p) == /\ p # running
            /\ \A q \in ReadyQueue \cup {FREE} :
                   LET s == queue[q] IN \A i \in 1 .. Len(s) : s[i] # p

\* The first process of the best queue of Q runs, T being what each has left.
Dispatch(Q, T) ==
    \E q \in ReadyQueue :
        /\ Q[q] # <<>> /\ \A r \in ReadyQueue : r < q => Q[r] = <<>>
        /\ running' = Head(Q[q])
        /\ LET p == Head(Q[q])
           IN  time' = [T EXCEPT ![p] = IF T[p] = 0 THEN quantum[p] ELSE T[p]]
        /\ queue' = [r \in DOMAIN Q |-> IF r = q THEN Tail(Q[r]) ELSE Q[r]]

\* The process that runs stays ready, or waits.
Yield(Q) == Dispatch(IF time[running] = 1 THEN Last(Q, running)
                     ELSE First(Q, running),
                     [time EXCEPT ![running] = @ - 1])
Block(Q) == Dispatch(Q, time)

Init ==
    /\ queue = [q \in ReadyQueue \cup {FREE} |->
                   CASE q = USER_PRIORITY -> <<INIT, SHELL>>
                     [] q = IDLE_PRIORITY -> <<IDLE>>
                     [] q = FREE -> [i \in 1 .. NUM_PROCS - 4 |-> i + 3]
                     [] OTHER -> <<>>]
    /\ running = SYSTEM
    /\ quantum \in [Proc -> Nat \ {0}]
    /\ time = [p \in Proc |-> IF p = SYSTEM THEN quantum[p] ELSE 0]

\* A timer tick.
Tick == Yield(queue) /\ UNCHANGED quantum

\* A process sends to the system task, which waits, and may then wait for the answer.
Request == /\ running \notin {SYSTEM, IDLE} /\ Waits(SYSTEM)
           /\ Yield(First(queue, SYSTEM)) \/ Block(First(queue, SYSTEM))
           /\ UNCHANGED quantum

\* The system task answers a process that waits.
Reply == /\ running = SYSTEM
         /\ \E p \in Proc \ {SYSTEM, IDLE} : Waits(p) /\ Yield(First(queue, p))
         /\ UNCHANGED quantum

\* The system task finds no request, and waits.
Receive == running = SYSTEM /\ Block(queue) /\ UNCHANGED quantum

\* A process is killed by a fault.
Kill == /\ running \notin {SYSTEM, IDLE}
        /\ Block(Freed(queue, running))
        /\ UNCHANGED quantum

\* The system task makes a process of the slot that has been free the longest; it
\* gets its parent's quantum and what the parent has left, and waits.
Create == /\ running = SYSTEM /\ queue[FREE] # <<>>
          /\ queue' = [queue EXCEPT ![FREE] = Tail(@)]
          /\ \E o \in Proc \ {SYSTEM, IDLE} :
                /\ Waits(o)
                /\ time' = [time EXCEPT ![Head(queue[FREE])] = time[o]]
                /\ quantum' = [quantum EXCEPT ![Head(queue[FREE])] = quantum[o]]
          /\ UNCHANGED running

\* The system task ends a process that waits.
End == /\ running = SYSTEM
       /\ \E p \in Proc \ {SYSTEM, IDLE} : Waits(p) /\ queue' = Freed(queue, p)
       /\ UNCHANGED <<running, time, quantum>>

\* The system task panics.
Halt == /\ running = SYSTEM /\ running' = NULL
        /\ UNCHANGED <<queue, time, quantum>>

Next == /\ running # NULL
        /\ \/ Tick \/ Request \/ Reply \/ Receive
           \/ Kill \/ Create \/ End \/ Halt

Spec == Init /\ [][Next]_vars
=============================================================================
