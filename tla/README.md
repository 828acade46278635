# A verification development for WINIX

WINIX is a teaching operating system for the WRAMP processor: a small
micro-kernel in C with a process table, five ready queues, message passing, a
system task that serves every system call, a memory allocator, a loader of
S-record files, and a shell. This directory holds TLA+ modules that model the
kernel, the loader with the tools that make its files, and the shell; TLC
configurations that check them on small instances; and TLAPS proofs of what
holds for every size of the process table, of the memory and of the buffers. `PROJECT.json` lists, by
line, what each definition stands for.

## The system

| component | state | operations | interacts with |
|---|---|---|---|
| process table and scheduler (`kernel/proc.c`) | `proc_table`, `ready_q[5]`, `free_proc`, `current_proc` | `sched`, `pick_proc`, `enqueue_*`, `dequeue`, `fork_proc`, `end_process`, `get_proc` | called by the exception handlers and by the system task; shares the queues between them |
| message passing (`kernel/proc.c`, `lib/ipc.c`) | `flags`, `sender_q`, `next_sender`, the saved `message` pointer and registers of each process | `wini_send`, `wini_receive`, `wini_sendonce`; send-receive is put together in `syscall_handler` | puts processes on the ready queues, ends in `sched` |
| exceptions (`kernel/exception.c`, `wramp.s`) | none of its own | the system call, timer, protection fault and arithmetic fault handlers | enter the kernel with interrupts off |
| system task (`kernel/system.c`) | the locals `m`, `who`, `response`; where it is in its loop | receive, one case per request, reply | an ordinary process of priority 0; calls the scheduler's and the allocator's routines directly, *with interrupts on* |
| boot (`kernel/main.c`) | - | creates SYSTEM, IDLE, init and the shell | the process table, the allocator and the images, before any interrupt is enabled |
| memory allocator (`kernel/sys_memory.c`) | `hole_table`, the lists `unused_holes`, `pending_holes`, `used_holes`, `FREE_MEM_BEGIN`, `FREE_MEM_END` | `_sbrk`, `proc_malloc`, `proc_free`, `merge_holes` | called by fork, exec and the SBRK/MALLOC/FREE requests |
| memory images (`kernel/exec.c`, `kernel/proc.c`) | `rbase`, `length`, `protection_table` of each process | `exec_proc`, the middle of `fork_proc` | blocks of the allocator |
| loader (`kernel/exec.c`) | the line being read, the array of words, `wordsLoaded` | `exec_read_srec`, `winix_load_srec_words_length`, `winix_load_srec_mem_val`, `exec_replace_existing_proc` | reads the serial port from inside the system task; allocates memory, resets and queues a process |
| build tools (`reformat_srec.java`, `gen_bin_code.c`) | - | count the words of a program and write the S6 line; turn a file into a C array | write what the loader reads |
| console output (`kernel/sys_stdio.c`, `lib/stdio.c`) | - | `kprintf`, `printf` | the system task reports the ends of processes |
| library (`lib/*.c`) | - | one stub per system call, `printf`, strings | traps |
| shell and user programs (`user/*.c`) | a line buffer, the tokens of the last line | read a line, split it, run a command | library |

### What is hard here

* **One link per process.** A process has a single `next` field. Whatever puts a
  process on a list while it is on one already cuts or merges both.
* **Who is blocked is spread over three places**: the `flags`, the sender queues
  and the ready queues. Sends are served newest first; sendrec sets RECEIVING
  before its send is known to be possible; a receive saves an absolute pointer
  into the image of the process, which fork copies.
* **The system task blocks.** It answers with a blocking send. If the addressee
  is not waiting, the system task waits for it, and everyone else for both.
  `getc` polls the serial port inside the system task.
* **Interleaving.** The timer can fall between any two calls of the system task,
  and any process can fault at any moment.
* **Failure**: an empty process table, exhausted memory and bad files are
  handled by assertions (the system stops), by a null result, or not at all.
* **The allocator's tails.** `hole_delete2` never repairs the tail of a list.
* **A file arrives over a serial line**, with no answer to the sender: lines are
  lost or changed, the header may announce the wrong number of words, and when
  the loader gives up in the middle of a file the shell reads the rest.
* **Old values in reused places**: the tokens of an earlier line, the protection
  table and the image of a process that is replaced, a `proc_index` that a long
  name has run over.

What makes each component correct: the scheduler never runs out of processes and
every ready process is queued exactly once; a reply reaches a live process that
waits for it, and only it resumes that process; requests are eventually
answered; memory handed out is disjoint and inside the machine; a process owns
its image and its protection table shows it nothing else; what is loaded is what
was built; the shell runs the command the user sees on the screen.

## The modules

* `LinkedList` - the list routines of `proc.c` and `sys_memory.c`, as operators
  on a record of head, tail and next pointers. They do to the pointers what the
  code does and assume nothing about the lists being disjoint.
* `Scheduler` - what the scheduler promises: a sequence of processes per priority and
  one of free slots, without messages. `Kernel` implements it
  (`ImplementsScheduler`).
* `Kernel` - scheduler, message passing, exceptions and system task.
* `KernelProofs` - theorems about `Kernel`: whatever calls processes make, and when
  they use the library; the latter kernel implements `Scheduler`.
* `HoleAllocator` - the memory allocator; `HoleAllocatorProofs`, theorems about it.
* `InterruptedKernel` - `Kernel` with every store of the system task's list
  operations as a step of its own, and `Kernel` as its abstract specification;
  `InterruptedProofs`, the proof that it implements that.
* `LinkedListProofs` - theorems about the list routines.
* `ProcessImages` - images and protection tables, over `HoleAllocator`.
* `Boot` - the calls of `main`, over `ProcessImages`.
* `SRecord` - S-record files as `reformat_srec` writes them and as the kernel and
  `gen_bin_code` read them; the damage a file can suffer.
* `Loader` - `exec_read_srec`, over `ProcessImages` and `SRecord`.
* `ConsoleOutput` - `kprintf` and its conversions.
* `Shell` - the shell's line editor, tokeniser and choice of a command.
* `Session` - the composition of the last six: boot, terminal, shell, loader and
  the requests of other processes, on one memory.
* `SessionProofs` - theorems about the shell in `Session`.
* `MemoryProofs` - theorems about boot, numbers, images and memory in `Session`.
* `LoaderProofs` - theorems about the loader in `Session`, and about records.
* `ConsoleProofs` - the theorem about the reports `Session` prints.
* `MCKernel`, `MCInterrupted`, `MCSession` - the sets of calls, programs and
  budgets that TLC gives to them.

A definition named `X_Bug` precedes a definition `X` and is `X` with a plausible
mistake in it. No behaviour uses it; putting it in the place of `X` shows that
the property next to it in `PROJECT.json` would notice such a mistake.

### Kernel and the code

*Steps.* An exception handler runs with interrupts off, so a handler with
everything it calls, the scheduler at its end included, is one action:
`timer_handler`, `UserCall` (a system call by a user process), `fault_handler`,
and the system task's own traps `SystemReceive`, `SystemReply`,
`SystemReplyChild`. The work the system task does between two traps is one
action per case of its `switch`. Timer ticks fall between any two of these
steps. The handlers of the other interrupts acknowledge their device and return
without touching the modelled state.

*User processes* are arbitrary: whenever one runs it may make any call of the
constant `UserCalls`, or fault. `Request` gives each stub of `lib/syscall.c` its
operation and message type. Requests that behave alike share a type: UPTIME
stands for SBRK and MALLOC too (answered with a value, no process touched), PUTC
for FREE and the overviews (not answered).

*Data.* A message is its sender, type and one integer, `NULL` where nothing
depends on the value. `message[p]` says whose buffer the pointer that p saved
points into: after a fork, the parent's. `ret[p]` is the register the result of
p's call goes to. What follows the use of a null pointer is not modelled: the model
stops with `status = "wild"`; a failed assertion stops it with `"panic"`, the
one in `sched` with `"no_process"`.

*Fork with a dead original.* A process killed by a fault or ended can be at the
head of the free list when it is forked; `ForkInto` then copies a slot onto
itself, after `get_free_proc` has given it default fields, and so no image: fork
refuses it from then on, as it refuses the tasks (`imaged` is the set of the processes
whose `length` is not 0).

*Left out here:* names, the register file, `time_used`, the interrupt mask;
`process_overview` and printing; where images lie and what exec loads (that is
`Session`'s part, which in turn leaves messages and scheduling to `Kernel`).

### Kernel and Scheduler

`Scheduler` says in which order the code gives out the processor and the slots of the
table, and nothing of how: who is first on the best queue runs; a process keeps its place
in front of its equals while it has time left and goes behind them when it has none; one
that is woken comes first among its equals; a slot that gets free is the last to be
used again. It knows the system task as the one that wakes, makes and ends processes,
but no message: that a process waits means that it is on no queue and does not run.

The mapping `Queues` reads off each list the sequence its links spell; the running
process, the ticks left and the quanta are the same. So the handlers of `Kernel`
are its actions (`timer_handler` is `Tick`, a library call `Request`, the system task's
traps `Receive` and `Reply`, a fault `Kill`), the system task's fork, exit and panic are
`Create`, `End` and `Halt`, and what else the system task does is a stutter. The
implementation holds for processes that use the library; a process queued twice, which
`exec_requeue` shows, spells no sequence. A tick of the quantum is charged by each
`sched` that finds its process ready, so a call that does not wait costs one as well.

### InterruptedKernel and the code

The system task runs with interrupts on, and `end_process`, `get_free_proc` and
`exec_proc` change lists from inside it. `Kernel` takes each as one step;
`InterruptedKernel` checks that this is justified. `pending` holds the stores
the routine has still to make; the two stores of `q[HEAD] = q[TAIL] = proc` come
in either order. A tick between two of them runs `sched` on the lists as they
are. For the free list nothing changes, since the tick returns to the system
task (nobody else has its priority: `ServesUndisturbed`): the property
`ImplementsKernel` says that every behaviour is a behaviour of `Kernel` when the
list of an unfinished operation is read as it was before. A tick or trap that would
write through a null tail is the step `WildWrite`; one after which the running process is
blocked or dead does not come to that store (`Interrupt`, `Trap`). Exec breaks this:
it queues a process on the system task's own ready queue, which the tick uses
too (`torn_enqueue`). FORK_PID is taken as one step.

### HoleAllocator and the code

Addresses count words. `proc_malloc` has its three outcomes `TakeWhole`,
`TakePart` (a hole is split) and `TakeNew` (by `_sbrk`); `proc_free` unlinks the
hole and `merge_holes` returns it to the end of memory, to an adjacent hole, or
to the unused list. `hole_delete` has no return statement and its caller tests
what it returns; the value is the 1 that `hole_delete2` left in the return
register. `allocated` is a ghost: the blocks that callers have been given and
have not given back. Until `scan_memory` has set `FREE_MEM_END` the code assumes
that memory is enough, and so does the model (`EnoughMemory`). Only the system
task, and before it `main`, calls the allocator, so each call is one step.

### ProcessImages and the code

`image[p]` is the pair `rbase`, `length`. exec and fork ask the allocator for one
block for text and stack; `protection_table[p]` is the set of the 1k blocks
whose bit is set. The code writes all bits into the word of the first block and
shifts by the number of the block, not by its remainder: `shift` is what a shift
by 32 or more gives, either zero or the remainder, chosen once. The contents of
memory are not modelled.

### Boot and the code

One action per call of `main`. The module says more than `Kernel`'s `Init`: it
starts from the zeros of the bss segment and an empty heap, and the property
`HandsOverKernel` says that it ends in `Kernel!Init`. The fields that `Kernel`
keeps and no call of `main` changes are constants in the substitution.

### SRecord, Loader and the code

A line is its type digit and its bytes; hex digits are modelled by the number
they spell, of `BYTE` values. `WrittenFile` is what the linker and
`reformat_srec` produce. `winix_load_srec_mem_val` and
`winix_load_srec_words_length` are operators on a line, with the loops that run
to the count in the line whatever its length is. In the kernel's header check a
`byte_t` is as wide as an `int` (every type has size 1 in `size.h`), so the inverse
of 0 that it compares small sums with is not a byte; on the host it is one.

`Damages` is what may happen on the way: a line is lost, its type digit is
wrong, any byte of its address, data or checksum is another one (greater by one of
`Deltas`, modulo `BYTE`), or its count is one or two too small. Counts that got larger are left out: the parser then reads
what an earlier line left in the buffer.

`Loader` reads and uses one line in a step. Nothing interleaves: the system task
has the highest priority and polls. `ReadTyped` is the loader waiting for an S7
line that was lost: it takes the next line the user types, which it refuses, or,
if the second character is a 7, ends the file with entry 0. When the loader
gives up, `ShellGoesOn` puts the lines that are left in front of what the user types.

Lines of 100 characters or more, which `exec_read_srec` cuts, are left out; the
tools write none. What the words of a line write behind the end of the array is
left out too; how many they are, and that such a file is refused, is kept. Programs
have fewer than `BYTE * BYTE` words, so two bytes count them: with a third one in the
header (65536 words or more) the array and the image would be more than all the memory.
The last, partial word that `gen_bin_code` makes of a line whose data are no whole words
has the bytes of that line only; the code pads it with what an earlier line left.

### ConsoleOutput and the code

`kputd` gives the characters printed and whether the search for the first digit
ends: for the smallest `int`, which is its own negative, it does not. The format
of `kprintf` is a sequence of characters, a conversion counting as one. The
printf of the library is a copy. `PLACES` is how many decimal digits `INT_MAX` has (the
code's 1000000000 is `Ten[PLACES - 1]`).

### Shell and the code

Names of commands are one character long in the model; that the zero behind a
full line may land on `tokens[0]` (the next variable, if the compiler puts it
there) is a choice in `EndOfLine`. `screen` is a ghost: what the user sees behind
the prompt. A call to the kernel is `sh_pc = "call"`; the commands that only
print do nothing else.

### Session and the code

`Boots` runs `main`, `SystemStarts` is `scan_memory`; from then on a request and
its service are one step, since messages and scheduling are `Kernel`'s. The
process that reads the terminal is the shell `main` starts, and it alone execs.
A forked shell and a program that exec has started are programs that may make
any request for memory, fork anybody, exit or fault (`ProgramAsks`). Which free
entry a fork takes is left open.

Names are kept as the number of times `fork_` was put in front of one. A name that
is too long runs over the fields behind it: `state` and `flags` are stored after
it, `proc_index` is not, so a process of the fourth generation has a wrong number and
is never woken. What longer names do to the next entry is left out.

`halted` is why the system task stopped: a failed assertion, a write through the
null array of the loader, or a number that is printed for ever. The system may
also simply stop when nobody types, so deadlock is not checked.

## The runs

| run | question | instance | why the bounds are enough |
|---|---|---|---|
| `kernel` | do the queues, the message protocol and the system task stay consistent when processes use the library (without exec and fork_pid)? | 5 processes, the four kinds of request, faults, the shell with a quantum of 2 | one slot beyond the booted processes, so fork succeeds, reuses the slot of a dead process, and finds the table full, the only reason to panic here (`PanicsWhenFull`); both outcomes of a tick |
| `kernel_raw` | does the scheduler always find a process, IDLE only when nothing else is queued, and does no list lose its tail? | 4 processes, no limit on the calls, allocation may fail | the three calls that do the most damage to the lists: exec, fork of another, and a message that ends its sender while it is queued; they give processes queued twice, dead processes that run, and senders queued at each other |
| `kernel_live` | is every request answered, does every computing process get its turn, and is the processor given out in the order of `Scheduler`? | 4 processes, every kind of request of the library but exec and fork_pid, faults, the shell with a quantum of 2 | requests with and without waiting for input; two processes of one priority; a killed or ended one gives back the slot that the next fork takes |
| `interrupted` | may the system task be interrupted inside `end_process` and `get_free_proc`? | 5 processes, the system task with a quantum of 2, so ticks both requeue it at the head and at the tail | every pair of a store and a tick |
| `interrupted_exec` | does the scheduler still find a process when exec is interrupted, and processes use sendonce, a bare receive and unknown operations? | 4 processes | the ready queue of the system task is torn, and written to through its null tail |
| `holes` | is memory that is handed out disjoint and inside the machine? | 3 holes, 7 words, sizes 0, 1 and 3 | an empty block, the smallest and one of several words; more blocks fit than holes exist, so splitting, merging in both directions, retracting `FREE_MEM_BEGIN` and running out of holes all happen |
| `session` | do boot, images, loader, console and shell keep their promises, together, on one memory, with lost and damaged lines? | 6 processes, 7 holes, 14 blocks of 8 words and table words of 7 bits, a line buffer of 4 | see below |
| `failed_call`, `exec_requeue`, `fork_child`, `lost_hole`, `torn_enqueue` | each states what a comment says; TLC shows a behaviour of the code that contradicts it | as small as shows it | - |

The instance of `session` is scaled: 1k becomes 8 words, a table word 7 bits, a
byte 16 values (a damaged one is greater by 1, 8 or 15), a word 3 bytes, an int one of -128 .. 127, a buffer 4 cells. Of
the four programs one is the longest that the header check refuses, one the shortest
that it lets pass, one fills its blocks exactly, and one has a count of two
bytes. Memory is large enough for a load and several forks and small enough to
run out; images lie below and beyond the first table word, and off a block
boundary after a load has taken an array of an odd length. Names have room for three
generations of forks to matter. `Budgets` bounds, per behaviour, the keys typed,
the requests of programs and the files damaged: six keys fill a line, send it
and start the next; four requests are enough for a fork of a fork, an exit and
an allocation; each file is damaged in one place. Every outcome was seen
to be reached: each of the three ways to halt, each way to refuse a file, a
damaged file that loads, an image that is not on a block boundary.

What `session` shows:

* `HandsOverKernel`: boot ends in the initial state of `Kernel`.
* `ImageIsOwned`, `NoOverlap`, `OnlyExecFrees`: no two processes share memory, at
  any moment of exec or fork; and memory is given back in exec only. Exit, faults
  and `SYSCALL_FREE` (which frees the number of the process) give nothing back.
* `ReachesItsImage`: a process whose image is in one word of the table can touch no
  block the image does not reach into. If the image is on a block boundary and in the
  first word it can touch all of it; beyond that word it may get no access, and off a
  boundary it shares its first block with its neighbour and cannot touch its last one.
* `InstalledFits`, `NoWrongWord`, `WholeProgram`: an undamaged file is loaded
  word for word; whatever happened to one line, what is loaded is the program
  up to some point, with at most one record missing. That words may be missing
  is not noticed by the code.
* `OverrunIsBounded`: only a damaged file makes the loader write behind its array, by
  at most the words of one record, and it gives up then.
* `RefusesOnlyShort`: an undamaged file is refused only if its program has
  at most 252 words (in the scale of the code).
* `AgreesWithTool`: what the kernel loads of a file is the beginning of what
  `gen_bin_code` makes of it, though the two parsers differ in what they refuse.
* `ScreenIsLine`, `StaysInBuffer`, `OnlyNamedCalls`: the line the shell runs is the
  one on the screen; the zero that a full line puts behind the buffer is never
  needed; and the stale token of an empty line never exits, forks or execs
  (unless the user has typed a zero on it, behind which another word may stand).
* `ReportTellsTheEnd`: the report of an exit or fault shows the numbers it is
  about, for every int but the smallest, on which it never ends.
* `KeepsItsNumber`: a process keeps its number through three generations of forks.

Disagreements between comments and code:

* `failed_call`: a sendrec to a destination that does not exist returns -1 to a
  process that stays blocked for ever (RECEIVING is set before the send).
* `exec_requeue`: `exec()` does not wait, so its caller is queued when
  `exec_proc` queues it again, with the priority of the system task. Its next
  request can then arrive while the system task is not waiting; `wini_receive`
  later clears only SENDING and queues a process that still waits.
* `fork_child`: the child's saved message pointer points into its parent, so
  the 0 meant for the child overwrites the parent's reply.
* `lost_hole`: a stale tail makes `hole_delete2` empty a list of several holes;
  blocks whose hole is dropped can never be freed.

* `torn_enqueue`: see above. Between `q[TAIL] = proc` and `q[HEAD] = proc` a tick
  puts the system task on the queue and takes it off, which resets the tail.

With only the library's calls (exec and fork_pid left out) none of the first three happens to
anything but the contents of fork's answer, which is what `kernel` shows.

### Fairness

`LiveSpec` assumes weak fairness of the timer (it interrupts periodically for
ever), of the system task (the processor executes it when it is the current
process; between its traps it only computes), and of serial input for the run
that reads characters: `getc` polls, so without a character nobody is ever
served. No fairness is assumed of user processes. `RoundRobin` speaks of
processes that compute from some point on: for processes that keep calling the
kernel the code makes no promise, since a process that is answered goes to the
head of its queue.

## The proofs

Each theorem below is proved for all values of the constants that satisfy the
assumptions stated with them: at least four slots in the process table, null is
not a process number, quanta are positive, calls have the type `Call`, there is a
hole descriptor, the line buffer has two cells or more, a command's name is printable,
a byte can count an address and a checksum (`BYTE > 5`), a program's bytes are bytes,
none of its records is empty or longer than its count can say, it has fewer than
`BYTE * BYTE` words, a damaged byte is another one, `kputd` starts at the
highest decimal place of an `int`, and process numbers and exit codes are `int`s.
Hypotheses beyond these are named in the theorem.

### Lists

`LinkedListProofs`: on a list that `Spells` a sequence s, `enqueue_tail` gives
`Append(s, p)` (`EnqueueTailAppends`), `enqueue_head` gives `<<p>> \o s`
(`EnqueueHeadPrepends`), `dequeue` gives `Tail(s)` (`DequeueTakesHead`), and a
list that shares no element with it is left alone (`OthersUntouched`).

For invariants, `Keeps(L, Node, List, at)` says it of a whole store: each of its
lists spells a sequence without repetitions of exactly the elements that `at` puts
there. The routines keep it, with one element moved. `KeptMembers`: walking such a
store from a head, as `ReadyExactlyOnce` and `OnOneList` do, meets exactly those
elements. (Where such an argument goes along a list it looks at the least position
that fails, so it needs no induction theorem.)

### The kernel, whatever processes do

`KernelProofs` proves, for *all* sets of user calls (raw ones included),
`TypeCorrect` (`TypeOK`), `AlwaysAProcess` (`SchedNeverNull`: the assertion in
`sched` never fails), `IdleRunsLast` (`IdleLast`) and `TailsNotNull`
(`NoNullTail`: `enqueue_tail` never writes through a null tail).

None of these is inductive. The invariant `IInv` has four parts, `TableOK`,
`IpcOK`, `SchedOK` and `SysOK`. What makes it inductive is that IDLE is isolated:
it has no flags, is no one's sender, asks nothing of the system task, is not on
the free list, and either runs or is the only member of queue 4 - with no link
of any other process leading to it, so that however the other lists are cut and
merged by raw calls they never reach IDLE, and queue 4 is never emptied but by
`sched` picking IDLE itself. `Inductive` (`Spec => []IInv`) is proved with one
lemma per operation (`sched`, `wini_send`, `wini_receive`, `wini_sendonce`,
fork, exec, end), each showing what the operation preserves.

### The kernel under the library's calls

The second part of `KernelProofs` assumes `LibraryOnly`: the calls of user processes are those the
stubs of `lib/syscall.c` make, exec and fork_pid excepted. The exception is
not a convenience: `exec_requeue` and `failed_call` show what goes wrong with exec
and with raw traps. Under it, for every table size and every interleaving:

* `OnTheRightList` (`ReadyExactlyOnce`), `RunsByPriority` (`PriorityOrder`),
  `SystemUndisturbed` (`ServesUndisturbed`);
* `PanicsForWant` (`PanicsWhenFull`): the assertions of fork fail for want of a slot or
  of memory only, since every entry that is not in use is on the free list;
* `SendersNeverQueue` (`SendsNeverBlock`), `RepliesArrive` (`ReplyReaches`),
  `ServesOne` (`OneAtATime`), `WokenByReply` (`OnlyReplyWakes`);
* `PicksRunnable` (`PickedIsRunnable`), the counterpart of the run `exec_requeue`.

They follow from one invariant, `PInv`, kept together with `IInv`. `QueuesOK`: the
lists keep the processes where their state, flags and priority say (`Placed`).
`RunsOK`: the system task runs whenever it does not wait, and it waits in its
receive only; hence nobody can send while it is busy, so a send always finds
it waiting. `LinksFree`: therefore no sender queue is ever used. `Served` and
`RequestOK`: who waits is the process the system task is working for, or
the child of the fork it is about to answer. One lemma per operation again; the
queues and the protocol need each other (that the addressee of a reply is on
no queue is what keeps the queues right, and that the system task is alone on
queue 0 is what keeps the protocol right), so neither half is inductive alone.

### The order of the lists

The third part of `KernelProofs`, under `LibraryOnly` too: `SchedulesInOrder` (`Spec =>
ImplementsScheduler`). `QueuesOK` gives the mapping its meaning: where every process is on
the one list it belongs to, each list spells a sequence without repetition, and walking it is
that sequence (`OrderSpelt`). Then each list routine is an operation on sequences
(`OrderEnqueue`, `OrderDequeue`, from `EnqueueSpelt` and `DequeueSpelt` of
`LinkedListProofs`), and one that waits is on none (`OrderWaits`). `sched` is `Dispatch`
(`SchedDispatches`), after a process with time left has been put back (`Yields`) or
not (`Blocks`). The one new invariant is `TimeOK`: ticks left are never negative
and the running process has at least one, so `--ticks_left` reaches zero by coming from one,
and testing for zero is enough. One lemma per action of `Scheduler` follows
(`TimerTicks`, `CallRequests`, `SendReplies`, `ReceiveBlocks`, `FaultKills`, `ExitEnds`,
`ForkCreates`), and `OthersStutter` for the rest.

### The interrupted kernel

`InterruptedProofs`: under `LibraryOnly`, `TicksDoNoHarm` (`FineSpec =>
ImplementsKernel`). The refinement mapping undoes the stores of the operation that is
going on: `AtomicLists` and `AtomicState` are what `Kernel` has until the last of
them, and `AtomicWho` leaves the request untaken until then. `A` is
`KernelProofs` of these three, so every lemma about `Kernel` is there to be used
of them. The invariant `FInv` is

* `A!IInv /\ A!PInv`: what is proved of `Kernel` holds of the lists as they were
  *before* the operation, with no further proof;
* `Midway`: how the lists as they are differ from those, by the stores still to be
  made (`EndAt`, `ForkAt`: one line per place the operation can have got to), and
  that the system task runs.

Each step is then one of five things. Outside an operation it is `Kernel`'s own step
(`SameStep`). The step that begins an operation, and every store but the last, changes
only pointers that the mapping restores, so it is hidden (`EndGoesOn`, `ForkGoesOn`).
The last store has the effect of the whole operation on the lists *as they are by
then* (`EndLast`, `ForkLast`). A tick changes the free list nowhere: it finds the
system task alone on its queue, puts it there and takes it off again
(`TickMidway`), so it is the same tick for the abstract kernel. And a write through a
null tail does not happen (`NoWildWrite`).

### The allocator

`HoleAllocatorProofs`, for every memory and number of descriptors:
`AllocatorTypes` (`TypeOK`), `BlocksNeverOverlap` (`NoOverlap`), `HolesOnOneList`
(`OnOneList`) and `NothingPastTheEnd` (`WithinMemory`). Hypothesis: `NoWrap`, that
no request is so large that `FREE_MEM_BEGIN + size` wraps; `_sbrk` does not look, and
for such a request its comparison passes and the break moves backwards. TLC's
instance satisfies it.

The tails of the hole lists do go wrong (`lost_hole`), so the lists are not kept
as those of the kernel are. `HInv` says that they *would* be kept if their tails
were right (`KeepsHeads`): heads and links are. The rest is that the holes and the
blocks handed out are disjoint and below the break, and that a used hole describes
a block that was handed out. Empty blocks share their address with the next one, so disjointness
is about words, not addresses.

### Boot

`BootIsKernelInit`: `SessionSpec => HandsOverKernel`. `main` is a straight line, and
its effect on the table is written out after each call (`BootOK`, with the
lists as functions of how many entries have been handed out), and which entries have an
image (`BootImages`); the last is `Kernel!Init`. So for every table size what the theorems on the kernel assume at the
start is what boot provides.

### The shell

`SessionProofs`, for every length of the line buffer, all programs, and whatever
else the system does, without further hypotheses:

* `ScreenCorrect` (`ScreenIsLine`): `LineOK` adds that the cells the loop may touch
  exist; each step of `Session` either reads a character (`ReadCharKeeps`) or clears
  the line, returns to the prompt or leaves it alone.
* `NoOverrun` (`StaysInBuffer`): `LineInv` says that the last cell of the buffer is
  always zero, since the loop stops before it, and that two tokens start at least two
  cells apart, so half as many as cells fit (a bound by an injection).
* `CallsAreNamed` (`OnlyNamedCalls`): `CallInv` says that behind what the user has
  typed so far no "exit" that stands by itself is left where `tokens[0]` of an earlier
  line points: that line would have run it, and an exit is the last thing the shell
  does. exec and fork never run on an empty line.

### Numbers, memory and images

`MemoryProofs` puts these together. Its theorems hold of the whole system: the boot,
the loads of damaged files, the requests, forks and faults of any programs.

* `NumbersStay` (`KeepsItsNumber`), without further hypotheses.
* `MemoryNeverOverlaps` (`NoOverlap`), `ImagesAreOwned` (`ImageIsOwned`) and
  `ExecFreesItsOwn` (`OnlyExecFrees`). The invariant `MemInv` adds to `HInv` that the
  image of each live process is a block handed out, different from all the others
  (`ImagesOK`), how far the break can be after each call of `main` (`BootMemory`), and
  whose image exec is working on (`LoadOK`).
* `ReachIsOwn` (`ReachesItsImage`): `TablesOK` says that a process's table is what its
  image makes it, through fork (which copies it) and exec (which does not clear it
  first); the rest is arithmetic of blocks (`WholeBlocks`, and `SomeBlocks` for an image
  that starts inside one).
* `SessionTypes` (`SessionTypeOK`).

Hypothesis of all but the first: `Fits`. The memory has room for what `main`
allocates before it knows how much there is (the code assumes it, `EnoughMemory`), and no
sum in `_sbrk` wraps: addresses have half the range of a word, and the length a file may announce,
damaged or not, is small against it (a count of two bytes, where a word has
four). `ReachIsOwn` also needs `KernelIsLow`: the kernel's variables start in the
first word of the table. `MCSession` assumes both, so TLC evaluates them for the instance of
`session`.

### The loader

`LoaderProofs`, for every set of programs, every damage in `Damages`, all sizes of a
byte and of a word:

* `LoadedFits` (`InstalledFits`), `LoadsWhole` (`WholeProgram`), `RefusesShortOnly`
  (`RefusesOnlyShort`) and `LoaderAgreesWithTool` (`AgreesWithTool`), without further
  hypotheses;
* `OverrunsAreBounded` (`OverrunIsBounded`), without further hypotheses;
* `LoadsNoWrongWord` (`NoWrongWord`) for words of more than two bytes. The code's have
  four. With two, a count that lost two would drop the last word of a record, and
  only its checksum would tell; with more, what is left is no whole number of words.

The invariant is `LoadInv`: the file is a program's, damaged in one place at most; the
loader has read its first k lines (`Rest(k)`: what is incoming is the others); each
of them but the header was accepted and held words (`Consumed`); and what is loaded is
those words, one line after the other, never more than the header announced
(`ReadUpTo`). At the end line k + 1 is the one whose type is 7 (`EndsAt`), or there is
none. That the file has not changed is not enough: without `Consumed` nothing would
follow about what an earlier line held.

The five properties then are facts about a file. What a line as the linker writes it
holds (`RecordStored`), that each place of a file holds what `WrittenFile` says (`FileIs`), that
every damage spoils one line or removes it (`FileChanges`), and for each way to spoil a
line that it is refused or stores what it was written to (`ChunkLine`, `EntryLine`): one wrong byte
changes the sum by less than a byte's range (`TotalChanged`, `OtherRest`,
`ByteNoticed`); a type that is not 3 stores nothing; a count that lost one or two
leaves a piece of a word (`NotWhole`). So a damaged file is read as the program or as the
program without a chunk (`ReadsChunks`), and what was loaded is a beginning of that
(`FlattenPrefix`).

Sums, numbers and concatenations are defined by recursion. The library's induction
theorems take an operator as a parameter and cannot be used; `InductionTo` is
induction over a *set* of numbers, and `Recursion` says that a recursive function over
0 .. m exists, whose steps are given as functions. From it, `TotalSteps`, `NumberSteps` and
`FlattenSteps` are the equations that the other lemmas use.

### What is printed

`ConsoleProofs`: `ReportsTell` (`ReportTellsTheEnd`), for every width of an `int`, every
process and every exit code, without further hypotheses.

`ReportInv` says what the last report was made from, and that the system task spins
exactly when printing it has not ended. The rest is about one line of text.
`WrittenShows`: digits from any place at which the number is exceeded show that number
(`ValueIs`: reading i digits gives the quotient by the power of the places left,
`NextDigit`). `FirstPlaceIs`: the search of `kputd` stops at such a place for every number
above zero, and passes the units for the smallest `int` only. Hence `DecimalShows` and
`HexadecimalShows`. `SaidIs` runs `kprintf` over the format, and `ReportParts` finds
the parts of the line again: nothing printed before or behind it is a ")".

### Model-checked only

* Liveness (`Answered`, `RoundRobin`): fairness and ENABLED are beyond the prover.
* That `interrupted_exec` finds a process: with torn queues `IInv` does not hold.

## Not modelled

* Requests that wrap in `_sbrk`. `system.c:137` and `system.c:143` pass on any size a
  program asks for, and for one so large that `FREE_MEM_BEGIN + size` wraps the break
  moves back over memory in use: `NoOverlap` fails then. The model adds modulo
  `SIZE_LIMIT`, but the instances ask for no such size, and the theorems on memory
  exclude them (`NoWrap`, `Fits`).
* What makes the system stop: a null process forked by fork_pid, a split without a free
  hole, a load without memory for its array. They end the model (`status`, `halted`), and
  no property forbids them.
* The contents of memory, so what `memcpy` in exec and fork copies (exec copies
  `length` words from an array that may be shorter), what an overrun of the loader's
  array or of a name overwrites, and what programs compute.
* Time: `system_uptime` and `time_used` are only printed. (`uptime` prints `ticks
  % 100` behind the point although there are 60 ticks in a second.)
* `user/parallel_task.c`, `user/rocks.s`: demonstrations that compute and draw;
  to the kernel they are user processes.
* `delete` and `kernel_fork_proc` (`kernel/proc.c`), `putc2`, `strlen`,
  `size_t_to_binary`: never called.
* The overviews (`process_overview`, `hole_list_overview`): they print and change
  nothing.
* The devices: serial ports are ready or not, the parallel and button interrupts
  are acknowledged.
* `a.c`, an older experiment that is not built.
