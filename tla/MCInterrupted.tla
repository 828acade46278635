--------------------------- MODULE MCInterrupted ---------------------------
(* Instances of InterruptedKernel for TLC. *)
EXTENDS MCKernel, InterruptedKernel

EndAndFork == {Request(t) : t \in {"UPTIME", "EXIT", "FORK"}}
ExecCalls  == {Request(t) : t \in {"UPTIME", "EXEC"}}

\* Exec, and calls with operations and arguments the library never uses.
ExecAndRaw == {Request("EXEC"), RawCall("SENDONCE", SYSTEM, "PUTC"),
               RawCall("SENDONCE", -1, "PUTC"), RawCall("RECEIVE", -1, "NONE"),
               RawCall("OTHER", -1, "NONE")}
=============================================================================
