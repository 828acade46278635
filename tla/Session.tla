------------------------------ MODULE Session ------------------------------
(***************************************************************************)
(* A run of the whole system, over its memory and its terminal: main boots *)
(* it, the system task scans memory and serves requests, the user types    *)
(* commands into the shell, forks it, sends it S-record files to run, and  *)
(* other processes allocate memory, fork, exit and fault.                  *)
(*                                                                         *)
(* Scheduling and messages are Kernel's: here a request and its service    *)
(* are one step, and whichever process may make one does.  A fork of the   *)
(* shell is followed as an image, and from then on as any other program;   *)
(* the process that reads the terminal is the shell main starts.           *)
(***************************************************************************)
EXTENDS Boot, Loader, ConsoleOutput, Shell

CONSTANTS
    PROC_NAME_LEN, NAME_LEN, PREFIX_LEN,   \* 20; of the longest name; of "fork_"
    Programs,     \* what the user may have built
    ExitCodes,    \* the ints programs pass to sys_exit, and program counters
    Budgets       \* how many keys are typed, requests made, files damaged

ASSUME SessionAssumption ==
    /\ Programs \subseteq Program
    /\ ExitCodes \subseteq int /\ Proc \subseteq int
    /\ {PROC_NAME_LEN, NAME_LEN, PREFIX_LEN} \subseteq Nat \ {0}
    /\ NAME_LEN < PROC_NAME_LEN
    /\ Budgets \subseteq [keys : Nat, requests : Nat, damages : Nat]
    /\ "S" \in Printable

\* The machines for which memory is accounted for: main finds the memory it
\* assumes there is, and no addition in _sbrk wraps, whatever a program asks for and
\* a file announces (a count of two bytes, where a word has four).
LoadFits(words) == words \in Nat /\ LAST + words + 2 * BLOCK < SIZE_LIMIT
Fits ==
    /\ NoWrap /\ 2 * LAST < SIZE_LIMIT
    /\ ORIGIN + BSS_SIZE + 2 * DEFAULT_STACK_SIZE + 2 * ImageSize(INIT_LENGTH)
           + ImageSize(SHELL_LENGTH) <= LAST
    /\ \A prog \in Programs :
         \A file \in Damages(WrittenFile(prog)) \cup {WrittenFile(prog)} :
             LoadFits(winix_load_srec_words_length(Head(file)))

VARIABLES
    proc_index,     \* the field of proc_t, NULL when it holds something else
    forks,          \* how many times "fork_" was put before the name of an entry
    pending,        \* characters of a refused file the terminal has yet to deliver
    report,         \* the line kprintf has just written about the end of a process
    budget

nameVars    == <<proc_index, forks>>
sessionVars == <<bootVars, loaderVars, shellVars, pending, report, budget,
                 nameVars>>
memoryVars  == <<vars, imageVars, state>>

INIT   == BootedKernel!INIT
SHELL  == BootedKernel!SHELL

NoReport == [proc |-> NULL, number |-> 0, out |-> <<>>]
BudgetLeft == budget.requests > 0
Spend(field) == budget' = [budget EXCEPT ![field] = @ - 1]

\* The system task is in its receive, and the process may run.
Serving == /\ boot_pc = "booted" /\ FREE_MEM_END # 0
           /\ halted = "no" /\ status = "running" /\ ld_pc = "idle"

SessionInit ==
    /\ BootInit /\ LoaderInit /\ ShellInit
    /\ pending = <<>> /\ report = NoReport
    /\ budget \in Budgets
    /\ proc_index = [p \in Proc |-> p] /\ forks = [p \in Proc |-> 0]

Boots == /\ BootNext
         /\ UNCHANGED <<loaderVars, shellVars, pending, report, budget, nameVars>>

\* What the system task does before its first receive.
SystemStarts ==
    /\ boot_pc = "booted"
    /\ scan_memory
    /\ UNCHANGED <<boot_pc, tableVars, state, imageVars, loaderVars, shellVars,
                   pending, report, budget, nameVars>>
-----------------------------------------------------------------------------
(* The terminal and the shell *)

Reads ==
    /\ Serving
    /\ \/ /\ pending # <<>>
          /\ ReadChar(Head(pending)) /\ pending' = Tail(pending)
          /\ UNCHANGED budget
       \/ /\ pending = <<>> /\ budget.keys > 0
          /\ \E c \in Char : ReadChar(c)
          /\ Spend("keys")
          /\ UNCHANGED pending
    /\ report' = NoReport
    /\ UNCHANGED <<bootVars, loaderVars, nameVars>>

Decodes ==
    /\ Serving /\ RunLine /\ report' = NoReport
    /\ UNCHANGED <<bootVars, loaderVars, pending, budget, nameVars>>

\* The message that a process has ended: "Process %s (%d) exited with code %d".
Said(name, p, what, conversion, n) ==
    kprintf(<<"%s", "(", "%d", ")", what, conversion>>, <<<<name>>, p, n>>)
EndReport(p, what, conversion, n) ==
    LET said == Said("name", p, what, conversion, n) IN
    /\ report' = [proc |-> p, number |-> n, out |-> said.out]
    /\ halted' = IF said.ends THEN "no" ELSE "spin"

\* SYSCALL_EXIT.  The memory of the process stays allocated.
Exits(p, code) ==
    /\ EndReport(p, "exited", "%d", code)
    /\ state' = IF halted' = "no" THEN [state EXCEPT ![p] = "DEAD"] ELSE state
    /\ UNCHANGED <<vars, imageVars, boot_pc, tableVars, loadVars, nameVars>>

\* The name of a fork may run over the end of its field.  The fields behind it,
\* state and flags, are stored afterwards; proc_index, which is next, never again.
SPARE_FIELDS_Bug == 0             \* the number comes first in proc_t
SPARE_FIELDS == 2
Spills(n) == NAME_LEN + n * PREFIX_LEN + 1 > PROC_NAME_LEN + SPARE_FIELDS

\* SYSCALL_FORK and SYSCALL_FORK_PID, for a process o that has an image.  The
\* order of the free list is Kernel's: here any free entry may be next.
Forks(o) ==
    LET free == {q \in Proc : state[q] = "DEAD"} IN
    /\ UNCHANGED <<boot_pc, tableVars, loadVars>>
    /\ report' = NoReport
    /\ \/ \E q \in free :
            /\ ForkImage(o, q)
            /\ state' = [state EXCEPT ![q] = "RUNNABLE"]
            /\ forks' = [forks EXCEPT ![q] = forks[o] + 1]
            /\ proc_index' = [proc_index EXCEPT
                                 ![q] = IF Spills(forks[o] + 1) THEN NULL ELSE @]
            /\ UNCHANGED halted
       \/ /\ free = {} /\ halted' = "panic"
          /\ UNCHANGED <<memoryVars, nameVars>>
       \/ /\ free # {} /\ OutOfMemory(image[o].length)
          /\ halted' = "panic"
          /\ UNCHANGED <<imageVars, state, nameVars>>

\* The handler of "exit": sys_exit(0).
ShellExits ==
    /\ Serving /\ call = "exit"
    /\ Exits(SHELL, 0) /\ ShellGone
    /\ pending' = <<>>
    /\ UNCHANGED budget

ShellForks ==
    /\ Serving /\ call = "fork"
    /\ Forks(SHELL) /\ CallReturns
    /\ UNCHANGED <<pending, budget>>

\* The user sends a file made from one of the programs.
ShellExecs ==
    /\ Serving /\ call = "exec" /\ pending = <<>>
    /\ \E prog \in Programs :
         \/ exec_read_srec(SHELL, prog, WrittenFile(prog)) /\ UNCHANGED budget
         \/ /\ budget.damages > 0 /\ Spend("damages")
            /\ \E file \in Damages(WrittenFile(prog)) : exec_read_srec(SHELL, prog, file)
    /\ report' = NoReport
    /\ UNCHANGED <<bootVars, shellVars, pending, nameVars>>

SystemLoads ==
    /\ halted = "no" /\ status = "running"
    /\ Loads
    /\ IF ld_pc = "install" /\ ld_pc' = "idle" THEN ShellGone ELSE UNCHANGED shellVars
    /\ UNCHANGED <<boot_pc, tableVars, pending, report, budget, nameVars>>

\* exec_read_srec returns 0.  The shell, which was not waiting for an answer,
\* reads what is left of the file as if the user typed it.
ShellGoesOn ==
    /\ halted = "no" /\ ld_pc = "failed"
    /\ pending' = [j \in 1 .. 2 * Len(incoming) |-> IF j % 2 = 1 THEN "S" ELSE LF]
    /\ Idle /\ CallReturns
    /\ UNCHANGED <<bootVars, halted, report, budget, nameVars>>
-----------------------------------------------------------------------------
(* The other programs *)

\* A fork whose number is not its own is never sent the 0 it waits for.
Program_(p) == /\ HasImage(p) /\ p # INIT /\ (p = SHELL => sh_pc = "gone")
               /\ proc_index[p] = p

\* Requests for memory; SYSCALL_FREE frees the number of the process.
Allocates(p) ==
    /\ \/ \E size \in Sizes : _sbrk(size) \/ proc_malloc(size)
       \/ proc_free(p)
    /\ report' = NoReport
    /\ UNCHANGED <<imageVars, state, boot_pc, tableVars, loaderVars, nameVars>>

\* gpf_handler.
Faults(p, pc) ==
    /\ EndReport(p, "GPF", "%x", pc)
    /\ state' = [state EXCEPT ![p] = "DEAD"]
    /\ UNCHANGED <<vars, imageVars, boot_pc, tableVars, loadVars, nameVars>>

ProgramAsks ==
    /\ Serving /\ BudgetLeft /\ Spend("requests")
    /\ UNCHANGED <<shellVars, pending>>
    /\ \E p \in Proc :
         /\ Program_(p)
         /\ \/ Allocates(p)
            \/ \E o \in Proc : HasImage(o) /\ Forks(o)
            \/ \E code \in ExitCodes : Exits(p, code) \/ Faults(p, code)

SessionNext == \/ Boots \/ SystemStarts
               \/ Reads \/ Decodes \/ ShellExits \/ ShellForks
               \/ ShellExecs \/ SystemLoads \/ ShellGoesOn
               \/ ProgramAsks

SessionSpec == SessionInit /\ [][SessionNext]_sessionVars
-----------------------------------------------------------------------------
(* Properties *)

\* Every field has its type; once the table is set up exactly the entries not in
\* use are without an image, apart from the tasks of the kernel.
SessionTypeOK ==
    /\ TypeOK
    /\ state \in [Proc -> {"DEAD", "INITIALISING", "RUNNABLE"}]
    /\ image \in [Proc -> [rbase : Word, length : Word]]
    /\ line \in [0 .. BUF_LEN -> Char] /\ pos \in 0 .. BUF_LEN - 1
    /\ argc \in 0 .. BUF_LEN /\ token \in Buffer \cup {UNSET}
    /\ ld_for \in Proc \cup {NULL} /\ wordslength \in Nat
    /\ halted \in {"no", "panic", "wild", "spin"}
    /\ proc_index \in [Proc -> Proc \cup {NULL}]

\* Memory that was handed out is given back in one case only: when exec replaces
\* a process, and then it is the old image of that process.  (Neither exit nor a
\* fault frees anything, and SYSCALL_FREE frees an address below all of memory,
\* system.c:149; the array of the loader is not given back either.  A block of no
\* words, which _sbrk(0) gives, may start where another does.)
OnlyExecFrees ==
    [][LET freed == {b \in allocated \ allocated' : b.length > 0} IN
       freed # {} =>
           \/ boot_pc = "free the copy"
           \/ ld_pc = "replace" /\ freed = {ImageBlock(ld_for)}]_sessionVars

\* A process keeps the number it is known by, as long as it is not too many forks
\* away from a program main has named: three, with names of five characters.  (The
\* fourth generation overwrites its proc_index, proc.c:311, and is never woken.)
SafeForks == (PROC_NAME_LEN + 1 - NAME_LEN) \div PREFIX_LEN
KeepsItsNumber ==
    \A p \in Proc : state[p] # "DEAD" /\ forks[p] <= SafeForks => proc_index[p] = p

\* The report of an end shows which process ended, and the number it gave: two's
\* complement in hexadecimal, or in decimal, for every int but the smallest, which
\* is never printed to the end.
ReportTellsTheEnd ==
    report # NoReport =>
        LET out   == report.out
            close == CHOOSE i \in DOMAIN out : out[i] = ")"
            shown == SubSeq(out, close + 2, Len(out))
        IN  /\ Shown(SubSeq(out, 3, close - 1), 10) = report.proc
            /\ IF out[close + 1] = "GPF"
               THEN Shown(shown, 16) = report.number % Sixteen[HEX_DIGITS]
               ELSE IF halted = "spin" THEN report.number = INT_MIN
               ELSE Shown(shown, 10) = report.number
=============================================================================
