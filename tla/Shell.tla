------------------------------- MODULE Shell -------------------------------
(***************************************************************************)
(* The shell (user/shell.c): it reads a line from the terminal character   *)
(* by character, splits it into tokens where it stands, and runs the       *)
(* command the first token names.                                          *)
(*                                                                         *)
(* The names of commands are one printable character long.  NUL is the     *)
(* zero that ends a string.                                                *)
(***************************************************************************)
EXTENDS Integers, SequencesExt, FiniteSetsExt

CONSTANTS
    UNSET,        \* the value of tokens[0] before the first token: a null pointer
    BUF_LEN,      \* the length of the line buffer (100)
    Printable     \* the printable characters, names of commands among them

NUL == "NUL"
CR  == "CR"
LF  == "LF"
BS  == "BS"
SPACE == " "
Char == Printable \cup {NUL, CR, LF, BS, SPACE}

\* The names the shell looks for; "exec" and "fork" are tested by the handler
\* of unknown commands.
Commands == {"uptime", "shutdown", "exit", "ps", "testmal"}
GenericCommands == {"exec", "fork"}
Calls == {"none", "exit", "exec", "fork"}

ASSUME ShellAssumption ==
    /\ BUF_LEN \in Nat /\ BUF_LEN > 1
    /\ Printable \cap {NUL, CR, LF, BS, SPACE} = {}
    /\ {"exit", "exec", "fork"} \subseteq Printable

VARIABLES
    line,      \* buf, and at BUF_LEN the word of memory behind it
    pos,       \* i
    argc,
    token,     \* tokens[0], as an index into line
    sh_pc,     \* "read", "decode", "call" (a system call is being made), or
               \* "gone": the process is no longer this shell
    call,      \* the system call being made
    screen     \* ghost: what the terminal shows behind the prompt

shellVars == <<line, pos, argc, token, sh_pc, call, screen>>

Buffer == 0 .. BUF_LEN - 1

ShellInit ==
    /\ line = [j \in 0 .. BUF_LEN |-> NUL]
    /\ pos = 0 /\ argc = 0 /\ token = UNSET
    /\ sh_pc = "read" /\ call = "none" /\ screen = <<>>
-----------------------------------------------------------------------------
(* Reading a line *)

\* "buf[++i] = '\0'", after the loop has stopped at i.  Behind the buffer the zero
\* lands where the compiler put the next variable, which may be tokens[0].
Terminated(l, i) == [l EXCEPT ![i + 1] = NUL]

EndOfLine(l, i) == /\ line' = Terminated(l, i)
                   /\ sh_pc' = "decode"
                   /\ pos' = i
                   /\ token' \in IF i + 1 \in Buffer THEN {token} ELSE {token, UNSET}

\* A character c stored at i is shown and the loop goes on at next, or ends with
\* the buffer full.
GoOn_Bug(l, next) ==              \* the buffer may be filled to its end
    \/ /\ next < BUF_LEN
       /\ line' = l /\ pos' = next
       /\ UNCHANGED <<sh_pc, token>>
    \/ /\ next >= BUF_LEN
       /\ EndOfLine(l, next)
GoOn(l, next) ==
    \/ /\ next < BUF_LEN - 1
       /\ line' = l /\ pos' = next
       /\ UNCHANGED <<sh_pc, token>>
    \/ /\ next >= BUF_LEN - 1
       /\ EndOfLine(l, next)

ReadChar_Bug(c) ==                \* a backspace at the start moves left too
    LET l == [line EXCEPT ![pos] = c] IN
    /\ sh_pc = "read"
    /\ UNCHANGED <<argc, call>>
    /\ \/ /\ c = CR /\ EndOfLine(l, pos) /\ UNCHANGED screen
       \/ /\ c = BS /\ GoOn(l, IF pos < 2 THEN 0 ELSE pos - 2)
          /\ screen' = IF pos = 0 THEN screen ELSE Front(screen)
       \/ /\ c \notin {CR, BS} /\ GoOn(l, pos + 1)
          /\ screen' = Append(screen, c)
ReadChar(c) ==
    LET l == [line EXCEPT ![pos] = c] IN
    /\ sh_pc = "read"
    /\ UNCHANGED <<argc, call>>
    /\ \/ /\ c = CR /\ EndOfLine(l, pos) /\ UNCHANGED screen
       \/ /\ c = BS /\ pos = 0 /\ GoOn(l, 0) /\ UNCHANGED screen
       \/ /\ c = BS /\ pos # 0 /\ GoOn(l, pos - 1) /\ screen' = Front(screen)
       \/ /\ c \notin {CR, BS} /\ GoOn(l, pos + 1)
          /\ screen' = Append(screen, c)
-----------------------------------------------------------------------------
(* Splitting and running it *)

\* The end of the string that starts at s, which may be the word behind the
\* buffer, or beyond.
StringEnd(l, s) == Min({j \in s .. BUF_LEN : l[j] = NUL} \cup {BUF_LEN + 1})

isPrintable(c) == c \in Printable

\* Where the tokens of the line start, and the characters behind them, which
\* become zeros.
Starts(l) == {j \in 0 .. StringEnd(l, 0) - 1 :
                 isPrintable(l[j]) /\ (j = 0 \/ ~isPrintable(l[j - 1]))}
Split(l) == [j \in 0 .. BUF_LEN |->
                IF /\ 0 < j /\ j < StringEnd(l, 0)
                   /\ ~isPrintable(l[j]) /\ isPrintable(l[j - 1])
                THEN NUL ELSE l[j]]

\* strcmp(tokens[0], name) = 0.  A pointer that was never set points at the
\* program itself, which no command is named after.
TokenIs(l, t, name) == t # UNSET /\ l[t] = name /\ l[t + 1] = NUL

\* The command that runs: one of the table, or the handler of the others, which
\* does nothing for an empty line.
Chosen_Bug(l, t, n) ==            \* the empty line is not told apart
    LET found == {c \in Commands \cup GenericCommands : TokenIs(l, t, c)}
    IN  IF found = {} THEN "unknown" ELSE CHOOSE c \in found : TRUE
Chosen(l, t, n) ==
    LET found == {c \in Commands \cup GenericCommands : TokenIs(l, t, c)}
    IN  IF found \cap Commands # {} THEN CHOOSE c \in found \cap Commands : TRUE
        ELSE IF n = 0 THEN "quiet"
        ELSE IF found = {} THEN "unknown" ELSE CHOOSE c \in found : TRUE

RunLine ==
    LET starts == Starts(line)
        l == Split(line)
        t == IF starts = {} THEN token ELSE Min(starts)
        c == Chosen(l, t, Cardinality(starts))
    IN  /\ sh_pc = "decode"
        /\ line' = l
        /\ argc' = Cardinality(starts)
        /\ token' = t
        /\ \/ /\ c \in Calls
              /\ sh_pc' = "call" /\ call' = c
              /\ UNCHANGED <<pos, screen>>
           \/ /\ c \notin Calls
              /\ sh_pc' = "read" /\ pos' = 0 /\ screen' = <<>>
              /\ UNCHANGED call

\* The call returns and the loop starts again with a prompt, or the process ends
\* or becomes another program.
CallReturns ==
    /\ sh_pc' = "read" /\ call' = "none" /\ pos' = 0 /\ screen' = <<>>
    /\ UNCHANGED <<line, argc, token>>
ShellGone ==
    /\ sh_pc' = "gone" /\ call' = "none" /\ pos' = 0 /\ screen' = <<>>
    /\ line' = [j \in 0 .. BUF_LEN |-> NUL] /\ argc' = 0 /\ token' = UNSET
-----------------------------------------------------------------------------
(* Properties *)

\* The cells of the buffer before i are what the user sees: a backspace removes
\* the same character from both, and none too many at the left margin.
ScreenIsLine ==
    sh_pc = "read" => screen = [j \in 1 .. pos |-> line[j - 1]]

\* The tokeniser, and the comparison of the first token, find a zero inside the
\* buffer even when a full line has put its zero behind it (shell.c:213), and
\* the tokens fit into their array.
StaysInBuffer ==
    /\ sh_pc = "decode" => StringEnd(line, 0) \in Buffer
    /\ token # UNSET => StringEnd(line, token) \in Buffer
    /\ argc <= BUF_LEN \div 2

\* The words on the screen.
FirstWord ==
    LET p(j) == j \in 1 .. Len(screen) /\ isPrintable(screen[j])
        from == Min({j \in 1 .. Len(screen) : p(j)} \cup {Len(screen) + 1})
        to   == Min({j \in from .. Len(screen) : ~p(j)} \cup {Len(screen) + 1}) - 1
    IN  SubSeq(screen, from, to)

\* tokens[0] outlives its line, and an empty line is compared with it: a command
\* without arguments may run again.  None that ends, copies or replaces the shell
\* does: these run only when their name is the first word the user sees.  (Unless
\* the user types a zero, which ends the line the shell sees: what was typed behind
\* it may stand where the stale token points.)
OnlyNamedCalls ==
    sh_pc = "call" /\ (argc # 0 \/ NUL \notin Range(screen)) => FirstWord = <<call>>
=============================================================================
