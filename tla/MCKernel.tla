------------------------------ MODULE MCKernel ------------------------------
(* Instances of Kernel for TLC: the sets of calls its runs give to processes. *)
EXTENDS Kernel

\* Processes that use the system call library, except for exec and fork_pid (and
\* in LibraryCalls for getc, which differs from UPTIME in waiting for input).
LibraryCalls == {Request(t) : t \in {"UPTIME", "PUTC", "EXIT", "FORK"}}
LibraryCallsWithGetc == LibraryCalls \cup {Request("GETC")}
LibraryCallsWithExec == {Request(t) : t \in {"UPTIME", "EXIT", "EXEC"}}

\* Processes that trap with operations and arguments of their own.
RawCall(op, dest, type) == [op |-> op, dest |-> dest, type |-> type, i1 |-> NULL]
ForkOther == [RawCall("SENDREC", SYSTEM, "FORK_PID") EXCEPT !.i1 = SHELL]
BadDestination == {RawCall("SENDREC", NUM_PROCS, "UPTIME"), Request("UPTIME")}
RawCalls == {RawCall("SEND", SYSTEM, "UNKNOWN"), RawCall("SEND", SYSTEM, "EXEC"),
             ForkOther}
ForkOnly == {Request("FORK")}
=============================================================================
