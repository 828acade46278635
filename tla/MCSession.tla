----------------------------- MODULE MCSession -----------------------------
(* An instance of Session for TLC. *)
EXTENDS Session

\* A program of n words, its records k words long, whose bytes tell where they
\* are, and its entry point.
Numbered(n, k, e) ==
    LET Bytes(w) == [b \in 1 .. WORD_BYTES |-> (3 * w + b) % BYTE]
    IN  [entry |-> e,
         chunks |-> [i \in 1 .. (n + k - 1) \div k |->
                        [j \in 1 .. Min({k, n - k * (i - 1)}) |->
                            Bytes(k * (i - 1) + j - 1)]]]

\* The longest that the header check refuses, the shortest that it does not; one
\* whose array and image both end on a block; one whose count needs both bytes.
MCPrograms == {Numbered(12, 3, 3), Numbered(13, 3, 2), Numbered(16, 2, 0),
               Numbered(33, 3, 1)}

\* Long command lines; many requests; a load of each program with damage of every
\* kind, and a request of the program loaded; a load while a fork makes a request.
MCBudgets == {[keys |-> 6, requests |-> 0, damages |-> 0],
              [keys |-> 2, requests |-> 4, damages |-> 0],
              [keys |-> 2, requests |-> 2, damages |-> 1],
              [keys |-> 4, requests |-> 1, damages |-> 0]}

\* The machine of the run is large enough for the theorems about memory.
ASSUME Fits /\ KernelIsLow

Codes == {-128, -10, 0, 7, 127}
=============================================================================
