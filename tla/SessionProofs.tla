--------------------------- MODULE SessionProofs ---------------------------
(***************************************************************************)
(* What is proved of Session for every size of the line buffer, every set  *)
(* of programs, and every number of processes and of holes.                *)
(***************************************************************************)
EXTENDS Session, LinkedListProofs, SequenceTheorems, FiniteSetTheorems, TLAPS

\* What the shell's line has to satisfy for ScreenIsLine to be kept: the cells it
\* may touch exist, and the loop that reads a line has not gone past the end.
LineOK ==
    /\ line = [j \in 0 .. BUF_LEN |-> line[j]]
    /\ sh_pc = "read" => pos \in 0 .. BUF_LEN - 2
    /\ ScreenIsLine

\* A sequence given by its elements has the expected length.
LEMMA Elements ==
    ASSUME NEW n \in Nat, NEW f, NEW s, s = [j \in 1 .. n |-> f[j - 1]]
    PROVE  /\ s \in Seq({f[j - 1] : j \in 1 .. n})
           /\ Len(s) = n
           /\ \A j \in 1 .. n : s[j] = f[j - 1]
  <1> DEFINE S == {f[j - 1] : j \in 1 .. n}
  <1>1. s \in [1 .. n -> S]
    OBVIOUS
  <1> HIDE DEF S
  <1>2. s \in Seq(S)
    BY <1>1, SeqDef
  <1> QED
    BY <1>1, <1>2, LenProperties DEF S

\* A character that is echoed extends the screen by a cell of the line.
LEMMA EchoedCell ==
    ASSUME NEW n \in Nat, NEW c, NEW l, NEW s, NEW f,
           s = [j \in 1 .. n |-> f[j - 1]],
           \A j \in 1 .. n : l[j - 1] = f[j - 1],
           l[n] = c
    PROVE  Append(s, c) = [j \in 1 .. n + 1 |-> l[j - 1]]
  <1> DEFINE S == {f[j - 1] : j \in 1 .. n} \cup {c}
  <1>0. s \in [1 .. n -> S] /\ c \in S
    OBVIOUS
  <1> HIDE DEF S
  <1>1. s \in Seq(S) /\ Len(s) = n
    <2>1. s \in [1 .. n -> S]
      BY <1>0
    <2>2. s \in Seq(S)
      BY <2>1, SeqDef
    <2> QED BY <2>1, <2>2, LenProperties
  <1>2. Append(s, c) \in Seq(S) /\ Len(Append(s, c)) = n + 1
    BY <1>0, <1>1
  <1>3. ASSUME NEW j \in 1 .. n + 1 PROVE Append(s, c)[j] = l[j - 1]
    BY <1>1
  <1>4. Append(s, c) = [j \in 1 .. n + 1 |-> Append(s, c)[j]]
    <2>1. Append(s, c) \in [1 .. n + 1 -> S]
      BY <1>2, LenProperties
    <2> QED BY <2>1
  <1> QED
    BY <1>3, <1>4

\* The sequence s is the first n cells of f.
ShowsCells(s, f, n) == s = [j \in 1 .. n |-> f[j - 1]]
SameCells(l, f, n) == \A j \in 1 .. n : l[j - 1] = f[j - 1]

\* A backspace removes the last one.
LEMMA ErasedCell ==
    ASSUME NEW n \in Nat \ {0}, NEW l, NEW s, NEW f, ShowsCells(s, f, n), SameCells(l, f, n - 1)
    PROVE  ShowsCells(Front(s), l, n - 1)
  <1> DEFINE S == {f[j - 1] : j \in 1 .. n}
  <1>0. /\ s = [j \in 1 .. n |-> f[j - 1]]
        /\ \A j \in 1 .. n - 1 : l[j - 1] = f[j - 1]
    BY DEF ShowsCells, SameCells
  <1>1. s \in Seq(S) /\ Len(s) = n
    BY <1>0, Elements
  <1>2. Front(s) = SubSeq(s, 1, n - 1)
    BY <1>1 DEF Front
  <1>3. SubSeq(s, 1, n - 1) = [j \in 1 .. n - 1 |-> s[j]]
    BY <1>1
  <1>4. Front(s) = [j \in 1 .. n - 1 |-> l[j - 1]]
    BY <1>0, <1>2, <1>3
  <1> QED BY <1>4 DEF ShowsCells

LEMMA NothingShown ==
    ASSUME NEW l PROVE <<>> = [j \in 1 .. 0 |-> l[j - 1]]
  OBVIOUS

\* Reading a character keeps the line and the screen together.
LEMMA ReadCharKeeps ==
    ASSUME LineOK, NEW c, ReadChar(c) PROVE LineOK'
  <1> DEFINE l == [line EXCEPT ![pos] = c]
  <1>0. BUF_LEN \in Nat /\ BUF_LEN > 1
    BY ShellAssumption
  <1>1. /\ sh_pc = "read" /\ pos \in 0 .. BUF_LEN - 2
        /\ screen = [j \in 1 .. pos |-> line[j - 1]]
    BY DEF LineOK, ScreenIsLine, ReadChar
  <1>2. l = [j \in 0 .. BUF_LEN |-> l[j]]
    BY DEF LineOK
  <1>3. l[pos] = c /\ \A j \in 0 .. BUF_LEN : j # pos => l[j] = line[j]
    BY <1>0, <1>1 DEF LineOK
  <1> HIDE DEF l
  <1>4. ASSUME NEW i, EndOfLine(l, i) PROVE LineOK'
    <2>1. sh_pc' = "decode"
      BY <1>4 DEF EndOfLine
    <2>2. line' = [j \in 0 .. BUF_LEN |-> line'[j]]
      BY <1>4, <1>2 DEF EndOfLine, Terminated
    <2> QED
      BY <2>1, <2>2 DEF LineOK, ScreenIsLine
  <1>5. ASSUME NEW next \in Nat, GoOn(l, next),
               screen' = [j \in 1 .. next |-> l[j - 1]]
        PROVE  LineOK'
    <2>1. CASE next < BUF_LEN - 1 /\ line' = l /\ pos' = next /\ UNCHANGED sh_pc
      BY <2>1, <1>0, <1>1, <1>2, <1>5 DEF LineOK, ScreenIsLine
    <2>2. CASE EndOfLine(l, next)
      BY <2>2, <1>4
    <2> QED
      BY <1>5, <2>1, <2>2 DEF GoOn
  <1>6. CASE c = CR /\ EndOfLine(l, pos)
    BY <1>6, <1>4
  <1>7. CASE c = BS /\ pos = 0 /\ GoOn(l, 0) /\ UNCHANGED screen
    <2>1. screen' = [j \in 1 .. 0 |-> l[j - 1]]
      BY <1>1, <1>7, NothingShown
    <2> QED
      BY <2>1, <1>5, <1>7
  <1>8. CASE c = BS /\ pos # 0 /\ GoOn(l, pos - 1) /\ screen' = Front(screen)
    <2>1. pos \in Nat \ {0} /\ \A j \in 1 .. pos - 1 : l[j - 1] = line[j - 1]
      BY <1>0, <1>1, <1>3, <1>8
    <2>2. Front(screen) = [j \in 1 .. pos - 1 |-> l[j - 1]]
      <3>1. pos \in Nat \ {0}
        BY <2>1
      <3>2. ShowsCells(screen, line, pos)
        BY <1>1 DEF ShowsCells
      <3>3. SameCells(l, line, pos - 1)
        BY <2>1 DEF SameCells
      <3>4. ShowsCells(Front(screen), l, pos - 1)
        BY <3>1, <3>2, <3>3, ErasedCell
      <3> QED BY <3>4 DEF ShowsCells
    <2> QED
      BY <2>1, <2>2, <1>5, <1>8
  <1>9. CASE GoOn(l, pos + 1) /\ screen' = Append(screen, c)
    <2>1. pos \in Nat /\ \A j \in 1 .. pos : l[j - 1] = line[j - 1]
      BY <1>0, <1>1, <1>3
    <2>2. Append(screen, c) = [j \in 1 .. pos + 1 |-> l[j - 1]]
      BY <2>1, <1>1, <1>3, EchoedCell
    <2> QED
      BY <2>1, <2>2, <1>5, <1>9
  <1> QED
    BY <1>6, <1>7, <1>8, <1>9 DEF ReadChar, l

\* Running the line and coming back from a call start an empty one.
LEMMA OthersKeep ==
    ASSUME LineOK, RunLine \/ CallReturns \/ ShellGone \/ UNCHANGED shellVars
    PROVE  LineOK'
  <1>0. BUF_LEN \in Nat /\ BUF_LEN > 1
    BY ShellAssumption
  <1>1. CASE RunLine
    <2>1. line' = [j \in 0 .. BUF_LEN |-> line'[j]]
      <3>1. line' = Split(line)
        BY <1>1 DEF RunLine
      <3> QED BY <3>1 DEF Split
    <2>2. CASE sh_pc' = "call"
      BY <2>1, <2>2 DEF LineOK, ScreenIsLine
    <2>3. CASE sh_pc' = "read" /\ pos' = 0 /\ screen' = <<>>
      BY <2>1, <2>3, <1>0, NothingShown DEF LineOK, ScreenIsLine
    <2> QED
      BY <1>1, <2>2, <2>3 DEF RunLine
  <1>2. CASE CallReturns
    BY <1>2, <1>0, NothingShown DEF CallReturns, LineOK, ScreenIsLine
  <1>3. CASE ShellGone
    <2>1. line' = [j \in 0 .. BUF_LEN |-> line'[j]]
      BY <1>3 DEF ShellGone
    <2> QED
      BY <2>1, <1>3 DEF ShellGone, LineOK, ScreenIsLine
  <1>4. CASE UNCHANGED shellVars
    BY <1>4 DEF shellVars, LineOK, ScreenIsLine
  <1> QED
    BY <1>1, <1>2, <1>3, <1>4

\* What a step of the system does to the shell.
LEMMA ShellSteps ==
    ASSUME [SessionNext]_sessionVars
    PROVE  \/ \E c : ReadChar(c)
           \/ RunLine \/ CallReturns \/ ShellGone \/ UNCHANGED shellVars
  <1>1. CASE Boots
    BY <1>1 DEF Boots
  <1>2. CASE SystemStarts
    BY <1>2 DEF SystemStarts
  <1>3. CASE Reads
    BY <1>3 DEF Reads
  <1>4. CASE Decodes
    BY <1>4 DEF Decodes
  <1>5. CASE ShellExits
    BY <1>5 DEF ShellExits
  <1>6. CASE ShellForks
    BY <1>6 DEF ShellForks
  <1>7. CASE ShellExecs
    BY <1>7 DEF ShellExecs
  <1>8. CASE SystemLoads
    BY <1>8 DEF SystemLoads
  <1>9. CASE ShellGoesOn
    BY <1>9 DEF ShellGoesOn
  <1>10. CASE ProgramAsks
    BY <1>10 DEF ProgramAsks
  <1>11. CASE UNCHANGED sessionVars
    BY <1>11 DEF sessionVars
  <1> QED
    BY <1>1, <1>2, <1>3, <1>4, <1>5, <1>6, <1>7, <1>8, <1>9, <1>10, <1>11
       DEF SessionNext

LEMMA LineInvariant == SessionSpec => []LineOK
  <1>1. SessionInit => LineOK
    <2> SUFFICES ASSUME SessionInit PROVE LineOK
      OBVIOUS
    <2>1. BUF_LEN \in Nat /\ BUF_LEN > 1
      BY ShellAssumption
    <2> QED
      BY <2>1, NothingShown DEF SessionInit, ShellInit, LineOK, ScreenIsLine
  <1>2. LineOK /\ [SessionNext]_sessionVars => LineOK'
    BY ShellSteps, ReadCharKeeps, OthersKeep
  <1> QED
    BY <1>1, <1>2, PTL DEF SessionSpec

\* For every length of the buffer, and whatever the user types, loads and runs: the
\* line the shell will split is the one the terminal shows (shell.c:194-213).
THEOREM ScreenCorrect == SessionSpec => []ScreenIsLine
  <1>1. LineOK => ScreenIsLine
    BY DEF LineOK
  <1> QED
    BY <1>1, LineInvariant, PTL

-----------------------------------------------------------------------------
(* The tokens of a line. *)

LEMMA MinOf ==
    ASSUME NEW S, S \subseteq Nat, S # {}
    PROVE  Min(S) \in S /\ \A n \in S : Min(S) <= n
  BY Least DEF Min

LEMMA BufferSize == BUF_LEN \in Nat /\ BUF_LEN > 1
  BY ShellAssumption

\* A string that starts before a zero ends there at the latest.
LEMMA StringEnds ==
    ASSUME NEW l, NEW s \in Nat, NEW z \in s .. BUF_LEN, l[z] = NUL
    PROVE  StringEnd(l, s) \in s .. z
  <1> DEFINE S == {j \in s .. BUF_LEN : l[j] = NUL} \cup {BUF_LEN + 1}
  <1>1. S \subseteq Nat /\ z \in S
    BY BufferSize
  <1>2. Min(S) \in S /\ Min(S) <= z
    BY <1>1, MinOf
  <1>3. \A n \in S : n >= s
    BY BufferSize
  <1>4. StringEnd(l, s) = Min(S)
    BY DEF StringEnd
  <1> QED BY <1>1, <1>2, <1>3, <1>4

\* Two tokens do not touch, so the tokens of a line of n cells are n / 2 at most.
LEMMA FewTokens ==
    ASSUME NEW l, l[BUF_LEN - 1] = NUL
    PROVE  /\ Starts(l) \subseteq 0 .. BUF_LEN - 2
           /\ IsFiniteSet(Starts(l))
           /\ Cardinality(Starts(l)) \in Nat
           /\ Cardinality(Starts(l)) <= BUF_LEN \div 2
  <1> DEFINE half == BUF_LEN \div 2
             R == 0 .. half - 1
             f == [j \in Starts(l) |-> j \div 2]
  <1>1. StringEnd(l, 0) \in 0 .. BUF_LEN - 1
    BY BufferSize, StringEnds
  <1>2. Starts(l) \subseteq 0 .. BUF_LEN - 2
    BY BufferSize, <1>1 DEF Starts
  <1>3. \A j \in Starts(l) : isPrintable(l[j]) /\ (j = 0 \/ ~isPrintable(l[j - 1]))
    BY DEF Starts
  <1>4. half \in Nat /\ \A j \in 0 .. BUF_LEN - 2 : j \div 2 \in 0 .. half - 1
    BY BufferSize
  <1>5. f \in [Starts(l) -> R]
    BY <1>2, <1>4
  <1>6. ASSUME NEW i \in Starts(l), NEW j \in Starts(l), i \div 2 = j \div 2
        PROVE  i = j
    <2>1. i \in Nat /\ j \in Nat
      BY <1>2
    <2>2. i = j \/ i = j - 1 \/ j = i - 1
      BY <2>1, <1>6
    <2>3. i # j - 1
      BY <1>3, <2>1
    <2>4. j # i - 1
      BY <1>3, <2>1
    <2> QED BY <2>2, <2>3, <2>4
  <1>7. f \in Injection(Starts(l), R)
    BY <1>5, <1>6 DEF Injection, IsInjective
  <1>8. IsFiniteSet(R) /\ Cardinality(R) = half
    <2>1. 0 \in Int /\ half - 1 \in Int
      BY <1>4
    <2> QED BY <1>4, <2>1, FS_Interval
  <1>9. IsFiniteSet(Starts(l)) /\ Cardinality(Starts(l)) <= Cardinality(R)
    BY <1>7, <1>8, FS_Injection
  <1>10. Cardinality(Starts(l)) \in Nat
    BY <1>9, FS_CardinalityType
  <1> QED BY <1>2, <1>8, <1>9, <1>10

-----------------------------------------------------------------------------
(* The buffer and its tokens. *)

\* The last cell of the buffer is always zero: the loop stops before it, and what a
\* line is terminated with, or split by, are zeros.
LineInv ==
    /\ line[BUF_LEN - 1] = NUL
    /\ token \in Buffer \cup {UNSET}
    /\ argc \in Nat /\ argc <= BUF_LEN \div 2

LEMMA ReadCharBuffers ==
    ASSUME LineOK, LineInv, NEW c, ReadChar(c) PROVE LineInv'
  <1> DEFINE l == [line EXCEPT ![pos] = c]
  <1>1. pos \in 0 .. BUF_LEN - 2 /\ line = [j \in 0 .. BUF_LEN |-> line[j]]
    BY DEF LineOK, ReadChar
  <1>2. l[BUF_LEN - 1] = NUL /\ l = [j \in 0 .. BUF_LEN |-> l[j]]
    BY <1>1, BufferSize DEF LineInv
  <1>3. UNCHANGED argc
    BY DEF ReadChar
  <1> HIDE DEF l
  <1>4. ASSUME NEW i, EndOfLine(l, i) PROVE LineInv'
    <2>1. line' = [l EXCEPT ![i + 1] = NUL] /\ token' \in {token, UNSET}
      BY <1>4 DEF EndOfLine, Terminated
    <2>2. line'[BUF_LEN - 1] = NUL
      BY <1>2, <2>1, BufferSize
    <2> QED BY <1>3, <2>1, <2>2 DEF LineInv
  <1>5. ASSUME NEW next, GoOn(l, next) PROVE LineInv'
    BY <1>2, <1>3, <1>4, <1>5 DEF GoOn, LineInv
  <1> QED BY <1>4, <1>5 DEF ReadChar, l

LEMMA OthersBuffer ==
    ASSUME LineOK, LineInv, RunLine \/ CallReturns \/ ShellGone \/ UNCHANGED shellVars
    PROVE  LineInv'
  <1>1. CASE RunLine
    <2> DEFINE starts == Starts(line)
    <2>1. /\ line' = Split(line) /\ argc' = Cardinality(starts)
          /\ token' = IF starts = {} THEN token ELSE Min(starts)
      BY <1>1 DEF RunLine
    <2>2. /\ starts \subseteq 0 .. BUF_LEN - 2
          /\ Cardinality(starts) \in Nat /\ Cardinality(starts) <= BUF_LEN \div 2
      BY FewTokens DEF LineInv
    <2> HIDE DEF starts
    <2>3. line'[BUF_LEN - 1] = NUL
      BY <2>1, BufferSize DEF Split, LineInv
    <2>4. starts # {} => Min(starts) \in 0 .. BUF_LEN - 2
      <3>1. starts \subseteq Nat
        BY <2>2, BufferSize
      <3> QED BY <2>2, <3>1, MinOf
    <2>5. token' \in Buffer \cup {UNSET}
      BY <2>1, <2>4, BufferSize DEF LineInv, Buffer
    <2> QED BY <2>1, <2>2, <2>3, <2>5 DEF LineInv
  <1>2. CASE CallReturns
    BY <1>2 DEF CallReturns, LineInv
  <1>3. CASE ShellGone
    <2>1. line'[BUF_LEN - 1] = NUL
      BY <1>3, BufferSize DEF ShellGone
    <2> QED BY <1>3, <2>1, BufferSize DEF ShellGone, LineInv
  <1>4. CASE UNCHANGED shellVars
    BY <1>4 DEF shellVars, LineInv
  <1> QED BY <1>1, <1>2, <1>3, <1>4

LEMMA BufferInvariant == SessionSpec => [](LineOK /\ LineInv)
  <1>1. SessionInit => LineInv
    <2> SUFFICES ASSUME SessionInit PROVE LineInv
      OBVIOUS
    <2> QED BY BufferSize DEF SessionInit, ShellInit, LineInv
  <1>2. LineOK /\ LineInv /\ [SessionNext]_sessionVars => LineInv'
    <2> SUFFICES ASSUME LineOK, LineInv, [SessionNext]_sessionVars PROVE LineInv'
      OBVIOUS
    <2>1. \/ \E c : ReadChar(c)
          \/ RunLine \/ CallReturns \/ ShellGone \/ UNCHANGED shellVars
      BY ShellSteps
    <2> QED BY <2>1, ReadCharBuffers, OthersBuffer
  <1> QED BY <1>1, <1>2, LineInvariant, PTL DEF SessionSpec

\* For every length of the buffer: the loop that splits a line and the comparison of
\* its first token with the names of the commands find a zero inside the buffer, and
\* a line has no more tokens than their array has room for.
THEOREM NoOverrun == SessionSpec => []StaysInBuffer
  <1>1. LineInv => StaysInBuffer
    <2> SUFFICES ASSUME LineInv PROVE StaysInBuffer
      OBVIOUS
    <2>1. ASSUME NEW s \in Buffer PROVE StringEnd(line, s) \in Buffer
      BY BufferSize, StringEnds DEF LineInv, Buffer
    <2>2. 0 \in Buffer
      BY BufferSize DEF Buffer
    <2> QED BY <2>1, <2>2 DEF LineInv, StaysInBuffer
  <1> QED BY <1>1, BufferInvariant, PTL

-----------------------------------------------------------------------------
(* The command that runs. *)

LEMMA WhatIsChosen ==
    ASSUME NEW l, NEW t, NEW n
    PROVE  /\ Chosen(l, t, n) \in Calls =>
                /\ Chosen(l, t, n) \in {"exit", "exec", "fork"}
                /\ TokenIs(l, t, Chosen(l, t, n))
                /\ n = 0 => Chosen(l, t, n) = "exit"
           /\ TokenIs(l, t, "exit") => Chosen(l, t, n) = "exit"
  <1> DEFINE found == {c \in Commands \cup GenericCommands : TokenIs(l, t, c)}
             chosen == Chosen(l, t, n)
  <1>1. \/ chosen \in found \cap Commands
        \/ found \cap Commands = {} /\ n = 0 /\ chosen = "quiet"
        \/ found \cap Commands = {} /\ n # 0 /\ chosen \in found \cup {"unknown"}
    BY DEF Chosen
  <1>2. \A c \in found : c \in Commands \cup GenericCommands /\ TokenIs(l, t, c)
    OBVIOUS
  <1>3. TokenIs(l, t, "exit") => "exit" \in found \cap Commands
    BY DEF Commands
  <1>4. \A c \in found : TokenIs(l, t, "exit") => c = "exit"
    BY <1>2 DEF TokenIs
  <1> HIDE DEF found, chosen
  <1>5. chosen \in Calls => chosen \in found
    BY <1>1 DEF Calls
  <1>6. chosen \in found /\ chosen \in Calls => chosen \in {"exit", "exec", "fork"}
    BY <1>2 DEF Calls, Commands, GenericCommands
  <1>7. chosen \in found /\ chosen \in Calls /\ n = 0 => chosen = "exit"
    BY <1>1 DEF Calls, Commands
  <1>8. TokenIs(l, t, "exit") => chosen = "exit"
    BY <1>1, <1>3, <1>4
  <1> QED BY <1>2, <1>5, <1>6, <1>7, <1>8 DEF chosen

\* The line that is to be split is what the user typed, and a return or zero.
TypedLine ==
    /\ pos \in 0 .. BUF_LEN - 1
    /\ screen = [j \in 1 .. pos |-> line[j - 1]]
    /\ line[pos] \in {CR, NUL}
    /\ pos < BUF_LEN - 1 => line[pos + 1] = NUL

\* Behind what the user has typed, no "exit" is left that stands by itself where the
\* token of an earlier line started: it would have been run.
StaleExit == TokenIs(line, token, "exit")
CallInv ==
    /\ sh_pc \in {"read", "decode", "call", "gone"}
    /\ sh_pc # "call" => call = "none"
    /\ sh_pc = "call" => call \in {"exit", "exec", "fork"}
    /\ ld_pc # "idle" => call = "exec"
    /\ sh_pc = "read"   => ~(StaleExit /\ token > pos)
    /\ sh_pc = "decode" => ~(StaleExit /\ token > pos) /\ TypedLine
    /\ sh_pc = "call" /\ call # "exit" => ~StaleExit
    /\ OnlyNamedCalls

LEMMA ReadCharCalls ==
    ASSUME LineOK, LineInv, CallInv, NEW c, ReadChar(c), UNCHANGED ld_pc PROVE CallInv'
  <1> DEFINE l == [line EXCEPT ![pos] = c]
  <1>1. pos \in 0 .. BUF_LEN - 2 /\ line = [j \in 0 .. BUF_LEN |-> line[j]]
    BY DEF LineOK, ReadChar
  <1>2. /\ l = [j \in 0 .. BUF_LEN |-> l[j]] /\ l[pos] = c
        /\ \A j \in 0 .. BUF_LEN : j # pos => l[j] = line[j]
    BY <1>1, BufferSize
  <1>3. /\ sh_pc = "read" /\ call = "none" /\ call' = "none" /\ ld_pc = "idle"
        /\ ld_pc' = "idle"
    BY DEF ReadChar, CallInv
  <1>4. LineOK' /\ LineInv'
    BY ReadCharKeeps, ReadCharBuffers
  <1>5. token \in 0 .. BUF_LEN - 1 \/ token = UNSET
    BY DEF LineInv, Buffer
  <1> HIDE DEF l
  <1>6. ASSUME token \in Int, token > pos PROVE ~TokenIs(l, token, "exit")
    <2>1. CASE token # UNSET
      <3>1. token \in 0 .. BUF_LEN - 1
        BY <1>5, <2>1
      <3>2. l[token] = line[token] /\ l[token + 1] = line[token + 1]
        BY <1>1, <1>2, <1>6, <3>1, BufferSize
      <3> QED BY <1>3, <1>6, <3>2 DEF CallInv, StaleExit, TokenIs
    <2> QED BY <2>1 DEF TokenIs
  <1>7. ASSUME EndOfLine(l, pos), c = CR, UNCHANGED screen PROVE CallInv'
    <2>1. /\ line' = [l EXCEPT ![pos + 1] = NUL] /\ token' \in {token, UNSET}
          /\ sh_pc' = "decode" /\ pos' = pos
      BY <1>7 DEF EndOfLine, Terminated
    <2>2. /\ line'[pos] = CR /\ line'[pos + 1] = NUL
          /\ \A j \in 1 .. pos : line'[j - 1] = line[j - 1]
      BY <1>1, <1>2, <1>7, <2>1, BufferSize
    <2>3. screen = [j \in 1 .. pos |-> line[j - 1]]
      BY <1>3 DEF LineOK, ScreenIsLine
    <2>4. screen' = [j \in 1 .. pos' |-> line'[j - 1]]
      BY <1>7, <2>1, <2>2, <2>3
    <2>5. TypedLine'
      BY <1>1, <2>1, <2>2, <2>4, BufferSize DEF TypedLine
    <2>6. ~(StaleExit' /\ token' > pos')
      <3> SUFFICES ASSUME StaleExit', token' > pos' PROVE FALSE
        OBVIOUS
      <3>1. token' # UNSET /\ token' = token /\ token \in 0 .. BUF_LEN - 1
        BY <1>5, <2>1 DEF StaleExit, TokenIs
      <3>2. token > pos /\ token \in Int
        BY <2>1, <3>1
      <3>3. CASE token = pos + 1
        <4>1. line'[token] = NUL
          BY <2>2, <3>3
        <4> QED BY <3>1, <4>1 DEF StaleExit, TokenIs, NUL
      <3>4. CASE token > pos + 1
        <4>1. line'[token] = l[token] /\ line'[token + 1] = l[token + 1]
          BY <1>1, <1>2, <2>1, <3>1, <3>4, BufferSize
        <4> QED BY <1>6, <3>1, <3>2, <4>1 DEF StaleExit, TokenIs
      <3> QED BY <1>1, <3>1, <3>2, <3>3, <3>4
    <2> QED BY <1>3, <2>1, <2>5, <2>6 DEF CallInv, OnlyNamedCalls
  <1>8. ASSUME NEW next \in 0 .. BUF_LEN - 1, GoOn(l, next),
               next = pos + 1 \/ (c = BS /\ (next = pos - 1 \/ pos = 0)),
               screen' = [j \in 1 .. next |-> l[j - 1]]
        PROVE  CallInv'
    <2>1. CASE line' = l /\ pos' = next /\ UNCHANGED <<sh_pc, token>>
      <3>1. ~(StaleExit' /\ token' > pos')
        <4> SUFFICES ASSUME StaleExit', token' > pos' PROVE FALSE
          OBVIOUS
        <4>1. token # UNSET /\ token \in 0 .. BUF_LEN - 1 /\ TokenIs(l, token, "exit")
          BY <1>5, <2>1 DEF StaleExit, TokenIs
        <4>2. token > next /\ ~(token > pos)
          BY <1>6, <2>1, <4>1
        <4>3. token = pos /\ c = BS
          BY <1>1, <1>8, <4>1, <4>2, BufferSize
        <4> QED BY <1>2, <4>1, <4>3 DEF TokenIs, BS
      <3> QED BY <1>3, <2>1, <3>1 DEF CallInv, OnlyNamedCalls
    <2>2. CASE next >= BUF_LEN - 1 /\ EndOfLine(l, next)
      <3>1. /\ line' = [l EXCEPT ![next + 1] = NUL] /\ token' \in {token, UNSET}
            /\ sh_pc' = "decode" /\ pos' = next /\ next = BUF_LEN - 1
        BY <2>2, BufferSize DEF EndOfLine, Terminated
      <3>2. /\ line'[next] = NUL
            /\ \A j \in 1 .. next : line'[j - 1] = l[j - 1]
        BY <1>1, <1>2, <1>4, <3>1, BufferSize DEF LineInv
      <3>3. screen' = [j \in 1 .. pos' |-> line'[j - 1]]
        BY <1>8, <3>1, <3>2
      <3>4. TypedLine'
        BY <3>1, <3>2, <3>3, BufferSize DEF TypedLine
      <3>5. ~(StaleExit' /\ token' > pos')
        <4> SUFFICES ASSUME StaleExit', token' > pos' PROVE FALSE
          OBVIOUS
        <4>1. token' \in 0 .. BUF_LEN - 1
          BY <1>4 DEF LineInv, Buffer, StaleExit, TokenIs
        <4> QED BY <3>1, <4>1, BufferSize
      <3> QED BY <1>3, <3>1, <3>4, <3>5 DEF CallInv, OnlyNamedCalls
    <2> QED BY <1>8, <2>1, <2>2 DEF GoOn
  <1>9. screen = [j \in 1 .. pos |-> line[j - 1]]
    BY <1>3 DEF LineOK, ScreenIsLine
  <1>10. CASE c = CR /\ EndOfLine(l, pos) /\ UNCHANGED screen
    BY <1>7, <1>10
  <1>11. CASE c = BS /\ pos = 0 /\ GoOn(l, 0) /\ UNCHANGED screen
    <2>1. screen' = [j \in 1 .. 0 |-> l[j - 1]]
      BY <1>9, <1>11, NothingShown
    <2>2. 0 \in 0 .. BUF_LEN - 1
      BY BufferSize
    <2> QED BY <1>8, <1>11, <2>1, <2>2
  <1>12. CASE c = BS /\ pos # 0 /\ GoOn(l, pos - 1) /\ screen' = Front(screen)
    <2>1. \A j \in 1 .. pos - 1 : l[j - 1] = line[j - 1]
      BY <1>1, <1>2, BufferSize
    <2>2. pos \in Nat \ {0}
      BY <1>1, <1>12, BufferSize
    <2>3. Front(screen) = [j \in 1 .. pos - 1 |-> l[j - 1]]
      <3>1. ShowsCells(screen, line, pos)
        BY <1>9 DEF ShowsCells
      <3>2. SameCells(l, line, pos - 1)
        BY <2>1 DEF SameCells
      <3>3. ShowsCells(Front(screen), l, pos - 1)
        BY <2>2, <3>1, <3>2, ErasedCell
      <3> QED BY <3>3 DEF ShowsCells
    <2>4. pos - 1 \in 0 .. BUF_LEN - 1
      BY <1>1, <2>2, BufferSize
    <2> QED BY <1>8, <1>12, <2>3, <2>4
  <1>13. CASE GoOn(l, pos + 1) /\ screen' = Append(screen, c)
    <2>1. pos \in Nat /\ \A j \in 1 .. pos : l[j - 1] = line[j - 1]
      BY <1>1, <1>2, BufferSize
    <2>2. Append(screen, c) = [j \in 1 .. pos + 1 |-> l[j - 1]]
      BY ONLY <2>1, <1>2, <1>9, EchoedCell
    <2>3. pos + 1 \in 0 .. BUF_LEN - 1
      BY <1>1, BufferSize
    <2> QED BY <1>8, <1>13, <2>2, <2>3
  <1> QED BY <1>10, <1>11, <1>12, <1>13 DEF ReadChar, l

-----------------------------------------------------------------------------
\* The tokens of a typed line start in front of its end, the first of them with the
\* first printable character the user sees.
LEMMA TypedStarts ==
    ASSUME LineInv, TypedLine
    PROVE  /\ Starts(line) \subseteq 0 .. pos - 1
           /\ Starts(line) # {} =>
                LET t == Min(Starts(line)) IN
                /\ t \in 0 .. pos - 1 /\ isPrintable(line[t])
                /\ \A j \in 0 .. t - 1 : ~isPrintable(line[j])
                /\ Split(line)[t] = line[t]
                /\ Split(line)[t + 1] = NUL => ~isPrintable(line[t + 1])
           /\ Starts(line) = {} /\ (\A j \in 0 .. pos - 1 : line[j] # NUL) =>
                \A j \in 0 .. pos : ~isPrintable(line[j])
  <1> DEFINE S == Starts(line)
             e == StringEnd(line, 0)
  <1>1. pos \in 0 .. BUF_LEN - 1 /\ ~isPrintable(line[pos]) /\ ~isPrintable(NUL)
    BY ShellAssumption DEF TypedLine, isPrintable
  <1>2. e \in 0 .. pos + 1 /\ e <= BUF_LEN - 1
    <2>1. e \in 0 .. BUF_LEN - 1
      BY StringEnds, BufferSize DEF LineInv
    <2>2. CASE pos < BUF_LEN - 1
      <3>1. line[pos + 1] = NUL /\ pos + 1 \in 0 .. BUF_LEN
        BY <1>1, <2>2, BufferSize DEF TypedLine
      <3>2. e \in 0 .. pos + 1
        BY <3>1, StringEnds
      <3> QED BY <2>1, <3>2
    <2> QED BY <1>1, <2>1, <2>2, BufferSize
  <1>3. line[e] = NUL /\ \A j \in 0 .. e - 1 : line[j] # NUL
    <2> DEFINE Z == {j \in 0 .. BUF_LEN : line[j] = NUL} \cup {BUF_LEN + 1}
    <2>1. Z \subseteq Nat /\ BUF_LEN + 1 \in Z
      BY BufferSize
    <2>2. Min(Z) \in Z /\ \A n \in Z : Min(Z) <= n
      BY <2>1, MinOf
    <2>3. e = Min(Z)
      BY DEF StringEnd
    <2> HIDE DEF e
    <2>4. e \in Z /\ \A n \in Z : e <= n
      BY <2>2, <2>3
    <2>5. ASSUME NEW j \in 0 .. e - 1, line[j] = NUL PROVE FALSE
      BY <1>2, <2>4, <2>5, BufferSize
    <2> QED BY <1>2, <2>4, <2>5, BufferSize
  <1>4. S = {j \in 0 .. e - 1 : isPrintable(line[j]) /\ (j = 0 \/ ~isPrintable(line[j - 1]))}
    BY DEF Starts
  <1> HIDE DEF S, e
  <1>5. S \subseteq 0 .. pos - 1
    <2> SUFFICES ASSUME NEW j \in S PROVE j \in 0 .. pos - 1
      OBVIOUS
    <2>1. j \in 0 .. e - 1 /\ j # pos
      BY <1>1, <1>4
    <2> QED BY <1>1, <1>2, <2>1
  \* The first printable character in front of the first zero starts a token.
  <1>6. ASSUME NEW k \in 0 .. e - 1, isPrintable(line[k])
        PROVE  \E j \in S : j <= k
    <2> DEFINE P == {j \in 0 .. e - 1 : isPrintable(line[j])}
    <2>1. P \subseteq Nat /\ k \in P
      BY <1>2, <1>6
    <2>2. Min(P) \in P /\ \A n \in P : Min(P) <= n
      BY <2>1, MinOf
    <2> DEFINE m == Min(P)
    <2> HIDE DEF m
    <2>3. m \in P /\ \A n \in P : m <= n
      BY <2>2 DEF m
    <2>4. m - 1 \notin P
      BY <1>2, <2>3
    <2>5. m = 0 \/ ~isPrintable(line[m - 1])
      BY <1>2, <2>3, <2>4
    <2> QED BY <1>4, <2>1, <2>3, <2>5
  <1>7. ASSUME S # {}
        PROVE  LET t == Min(S) IN
                /\ t \in 0 .. pos - 1 /\ isPrintable(line[t])
                /\ \A j \in 0 .. t - 1 : ~isPrintable(line[j])
                /\ Split(line)[t] = line[t]
                /\ Split(line)[t + 1] = NUL => ~isPrintable(line[t + 1])
    <2> DEFINE t == Min(S)
    <2>0. S \subseteq Nat
      BY <1>1, <1>5
    <2>1. t \in S /\ \A n \in S : t <= n
      BY <1>7, <2>0, MinOf
    <2> HIDE DEF t
    <2>2. t \in 0 .. pos - 1 /\ t \in 0 .. e - 1 /\ isPrintable(line[t])
      BY <1>4, <1>5, <2>1
    <2>3. ASSUME NEW j \in 0 .. t - 1, isPrintable(line[j]) PROVE FALSE
      <3>1. j \in 0 .. e - 1 /\ j < t /\ j \in Int
        BY <1>2, <2>2, <2>3
      <3>2. PICK i \in S : i <= j
        BY <1>6, <2>3, <3>1
      <3> QED BY <2>0, <2>1, <2>2, <3>1, <3>2
    <2>4. t \in 0 .. BUF_LEN /\ t + 1 \in 0 .. BUF_LEN
      BY <1>1, <2>2, BufferSize
    <2>5. Split(line)[t] = line[t]
      BY <2>2, <2>4 DEF Split
    <2>6. Split(line)[t + 1] = NUL => ~isPrintable(line[t + 1])
      BY <1>1, <2>4 DEF Split
    <2> QED BY <2>2, <2>3, <2>5, <2>6 DEF t
  <1>8. ASSUME S = {}, \A j \in 0 .. pos - 1 : line[j] # NUL, NEW j \in 0 .. pos
        PROVE  ~isPrintable(line[j])
    <2>1. e >= pos
      BY <1>1, <1>2, <1>3, <1>8
    <2>2. CASE j = pos
      BY <1>1, <2>2
    <2>3. CASE j # pos
      <3>1. j \in 0 .. e - 1
        BY <1>1, <1>2, <2>1, <2>3
      <3> QED BY <1>6, <1>8, <3>1
    <2> QED BY <2>2, <2>3
  <1> QED BY <1>5, <1>7, <1>8 DEF S

LEMMA FirstWordIs ==
    ASSUME LineInv, TypedLine, Starts(line) # {}, NEW c,
           TokenIs(Split(line), Min(Starts(line)), c)
    PROVE  FirstWord = <<c>>
  <1> DEFINE t == Min(Starts(line))
             n == Len(screen)
             p(j) == j \in 1 .. n /\ isPrintable(screen[j])
             A == {j \in 1 .. n : p(j)} \cup {n + 1}
             B == {j \in t + 1 .. n : ~p(j)} \cup {n + 1}
  <1>1. /\ t \in 0 .. pos - 1 /\ isPrintable(line[t])
        /\ \A j \in 0 .. t - 1 : ~isPrintable(line[j])
        /\ Split(line)[t] = line[t]
        /\ Split(line)[t + 1] = NUL => ~isPrintable(line[t + 1])
    BY TypedStarts
  <1>2. line[t] = c /\ ~isPrintable(line[t + 1])
    BY <1>1 DEF TokenIs
  <1> HIDE DEF t
  <1>3. pos \in Nat /\ screen = [j \in 1 .. pos |-> line[j - 1]]
    BY BufferSize DEF TypedLine
  <1>4. n = pos /\ \A j \in 1 .. pos : screen[j] = line[j - 1]
    BY <1>3, Elements
  <1> HIDE DEF n
  <1>5. p(t + 1) /\ t + 1 \in 1 .. n /\ \A j \in 1 .. t : ~p(j)
    BY <1>1, <1>3, <1>4
  <1>6. t + 2 \in 1 .. n => ~p(t + 2)
    BY <1>1, <1>2, <1>3, <1>4
  <1>7. Min(A) = t + 1
    <2>1. A \subseteq Nat /\ t + 1 \in A
      BY <1>3, <1>4, <1>5
    <2>2. Min(A) \in A /\ Min(A) <= t + 1
      BY <2>1, MinOf
    <2>3. \A j \in A : j >= t + 1
      BY <1>1, <1>3, <1>4, <1>5
    <2> HIDE DEF A
    <2>4. Min(A) \in Nat /\ Min(A) >= t + 1
      BY <2>1, <2>2, <2>3
    <2>5. t \in Nat
      BY <1>1, <1>3
    <2> QED BY <2>2, <2>4, <2>5
  <1>8. Min(B) = t + 2
    <2>1. B \subseteq Nat /\ t + 2 \in B
      BY <1>1, <1>3, <1>4, <1>6
    <2>2. Min(B) \in B /\ Min(B) <= t + 2
      BY <2>1, MinOf
    <2>3. \A j \in B : j >= t + 2
      BY <1>1, <1>3, <1>4, <1>5
    <2> QED BY <1>1, <2>1, <2>2, <2>3
  <1>9. FirstWord = SubSeq(screen, t + 1, t + 1)
    <2>1. FirstWord = LET from == Min(A)
                          to   == Min({j \in from .. n : ~p(j)} \cup {n + 1}) - 1
                      IN  SubSeq(screen, from, to)
      BY DEF FirstWord, n
    <2>2. FirstWord = SubSeq(screen, t + 1, Min(B) - 1)
      BY <1>7, <2>1
    <2> HIDE DEF B
    <2>3. Min(B) - 1 = t + 1
      BY <1>1, <1>8
    <2> QED BY <2>2, <2>3
  <1>10. SubSeq(screen, t + 1, t + 1) = <<screen[t + 1]>>
    <2>1. screen \in Seq({line[j - 1] : j \in 1 .. pos})
      BY <1>3, Elements
    <2> DEFINE S == {line[j - 1] : j \in 1 .. pos}
               k == t + 1
    <2> HIDE DEF S
    <2>2. k \in 1 .. Len(screen) /\ screen \in Seq(S)
      BY <1>5, <2>1 DEF n, S
    <2> HIDE DEF k
    <2>3. SubSeq(screen, k, k) = [i \in 1 .. 1 |-> screen[k]]
      <3>1. SubSeq(screen, k, k) = [i \in 1 .. 1 + k - k |-> screen[i + k - 1]]
        BY <2>2
      <3>2. 1 + k - k = 1 /\ 1 + k - 1 = k
        BY <2>2
      <3> QED BY <3>1, <3>2
    <2>4. <<screen[k]>> = [i \in 1 .. 1 |-> screen[k]]
      OBVIOUS
    <2> QED BY <2>3, <2>4 DEF k
  <1>11. screen[t + 1] = c
    BY <1>1, <1>2, <1>4, <1>5
  <1> QED BY <1>9, <1>10, <1>11

LEMMA RunLineCalls ==
    ASSUME LineOK, LineInv, CallInv, RunLine, UNCHANGED ld_pc PROVE CallInv'
  <1> DEFINE starts == Starts(line)
             l == Split(line)
             t == IF starts = {} THEN token ELSE Min(starts)
             c == Chosen(l, t, Cardinality(starts))
  <1>1. /\ sh_pc = "decode" /\ line' = l /\ token' = t /\ argc' = Cardinality(starts)
        /\ \/ c \in Calls /\ sh_pc' = "call" /\ call' = c /\ UNCHANGED <<pos, screen>>
           \/ c \notin Calls /\ sh_pc' = "read" /\ pos' = 0 /\ screen' = <<>>
              /\ UNCHANGED call
    BY DEF RunLine
  <1>2. /\ c \in Calls => /\ c \in {"exit", "exec", "fork"}
                          /\ TokenIs(l, t, c)
                          /\ Cardinality(starts) = 0 => c = "exit"
        /\ TokenIs(l, t, "exit") => c = "exit"
    BY WhatIsChosen
  <1>3. TypedLine /\ call = "none" /\ ld_pc = "idle" /\ ~(StaleExit /\ token > pos)
    BY <1>1 DEF CallInv
  <1>4. Cardinality(starts) = 0 <=> starts = {}
    BY FewTokens, FS_EmptySet DEF LineInv
  <1>5. "exit" \in Calls
    BY DEF Calls
  <1>6. CASE c \notin Calls
    <2>1. ~StaleExit'
      BY <1>1, <1>2, <1>5, <1>6 DEF StaleExit
    <2> QED BY <1>1, <1>3, <1>6, <2>1 DEF CallInv, OnlyNamedCalls
  <1>7. CASE c \in Calls
    <2>1. c # "exit" => ~StaleExit'
      BY <1>1, <1>2 DEF StaleExit
    <2>2. CASE starts # {}
      <3>1. FirstWord = <<c>>
        BY <1>2, <1>3, <1>7, <2>2, FirstWordIs
      <3>2. FirstWord' = <<c>>
        BY <1>1, <1>7, <3>1 DEF FirstWord
      <3>3. OnlyNamedCalls'
        BY <1>1, <1>7, <3>2 DEF OnlyNamedCalls
      <3> QED BY <1>1, <1>2, <1>3, <1>7, <2>1, <3>3 DEF CallInv
    <2>3. CASE starts = {}
      <3>1. c = "exit" /\ TokenIs(l, token, "exit")
        BY <1>2, <1>4, <1>7, <2>3
      <3>2. pos \in 0 .. BUF_LEN - 1 /\ screen = [j \in 1 .. pos |-> line[j - 1]]
        BY <1>3 DEF TypedLine
      <3>3. ASSUME NUL \notin Range(screen) PROVE FALSE
        <4>1. \A j \in 0 .. pos - 1 : line[j] # NUL
          <5> SUFFICES ASSUME NEW j \in 0 .. pos - 1 PROVE line[j] # NUL
            OBVIOUS
          <5>1. j + 1 \in 1 .. pos /\ screen[j + 1] = line[j]
            BY <3>2, BufferSize
          <5>2. j + 1 \in DOMAIN screen
            BY <3>2, <5>1
          <5> QED BY <3>3, <5>1, <5>2 DEF Range
        <4>2. \A j \in 0 .. pos : ~isPrintable(line[j])
          BY <1>3, <2>3, <4>1, TypedStarts
        <4>3. token # UNSET /\ token \in 0 .. BUF_LEN - 1
          BY <3>1 DEF TokenIs, LineInv, Buffer
        <4>4. isPrintable("exit") /\ "exit" # NUL
          BY ShellAssumption DEF isPrintable, NUL
        <4>5. l[token] = "exit" /\ l[token + 1] = NUL
          BY <3>1 DEF TokenIs
        <4>6. line[token] = "exit"
          <5>1. token \in 0 .. BUF_LEN
            BY <4>3, BufferSize
          <5> QED BY <4>4, <4>5, <5>1 DEF Split
        <4>7. token > pos
          BY <3>2, <4>2, <4>3, <4>4, <4>6, BufferSize
        <4>8. line[token + 1] = NUL
          <5>1. token + 1 \in 0 .. BUF_LEN /\ ~(token + 1 < StringEnd(line, 0))
            <6>1. StringEnd(line, 0) <= pos + 1
              <7>1. CASE pos < BUF_LEN - 1
                <8>1. line[pos + 1] = NUL /\ pos + 1 \in 0 .. BUF_LEN
                  BY <1>3, <3>2, <7>1, BufferSize DEF TypedLine
                <8>2. StringEnd(line, 0) \in 0 .. pos + 1
                  BY <8>1, StringEnds
                <8> QED BY <3>2, <8>2, BufferSize
              <7>2. CASE pos = BUF_LEN - 1
                BY <3>2, <4>3, <4>7, <7>2, BufferSize
              <7> QED BY <3>2, <7>1, <7>2, BufferSize
            <6>2. StringEnd(line, 0) \in 0 .. BUF_LEN - 1
              BY StringEnds, BufferSize DEF LineInv
            <6> QED BY <3>2, <4>3, <4>7, <6>1, <6>2, BufferSize
          <5>2. l[token + 1] = line[token + 1]
            BY <5>1 DEF Split
          <5> QED BY <4>5, <5>2
        <4> QED BY <1>3, <4>3, <4>6, <4>7, <4>8 DEF StaleExit, TokenIs
      <3>4. argc' = 0 /\ NUL \in Range(screen) /\ screen' = screen
        BY <1>1, <1>4, <1>7, <2>3, <3>3
      <3>5. OnlyNamedCalls'
        BY <3>4 DEF OnlyNamedCalls, Range
      <3> QED BY <1>1, <1>2, <1>3, <1>7, <2>1, <3>5 DEF CallInv
    <2> QED BY <2>2, <2>3
  <1> QED BY <1>6, <1>7

\* What the shell does when a call returns, or when it is gone.
LEMMA OthersCalls ==
    ASSUME CallInv, UNCHANGED ld_pc \/ ld_pc' = "idle" \/ call = "exec"
    PROVE  /\ CallReturns /\ ld_pc' = "idle" /\ call # "exit" /\ sh_pc = "call" => CallInv'
           /\ ShellGone /\ ld_pc' = "idle" => CallInv'
           /\ UNCHANGED shellVars => CallInv'
  <1>1. ASSUME CallReturns, ld_pc' = "idle", call # "exit", sh_pc = "call" PROVE CallInv'
    <2>1. ~StaleExit'
      BY <1>1 DEF CallInv, CallReturns, StaleExit
    <2> QED BY <1>1, <2>1 DEF CallInv, CallReturns, OnlyNamedCalls
  <1>2. ASSUME ShellGone, ld_pc' = "idle" PROVE CallInv'
    BY <1>2 DEF CallInv, ShellGone, OnlyNamedCalls
  <1>3. ASSUME UNCHANGED shellVars PROVE CallInv'
    <2>1. StaleExit' = StaleExit /\ TypedLine' = TypedLine /\ OnlyNamedCalls' = OnlyNamedCalls
      BY <1>3 DEF shellVars, StaleExit, TypedLine, OnlyNamedCalls, FirstWord
    <2>2. ld_pc' # "idle" => call = "exec"
      BY DEF CallInv
    <2> QED BY <1>3, <2>1, <2>2 DEF CallInv, shellVars
  <1> QED BY <1>1, <1>2, <1>3

LEMMA CallStep ==
    ASSUME LineOK, LineInv, CallInv, [SessionNext]_sessionVars PROVE CallInv'
  <1>1. CASE UNCHANGED shellVars /\ UNCHANGED ld_pc
    BY <1>1, OthersCalls
  <1>2. CASE Boots
    BY <1>1, <1>2 DEF Boots, loaderVars, loadVars
  <1>3. CASE SystemStarts
    BY <1>1, <1>3 DEF SystemStarts, loaderVars, loadVars
  <1>4. CASE Reads
    BY <1>4, ReadCharCalls DEF Reads, loaderVars, loadVars
  <1>5. CASE Decodes
    <2>1. RunLine /\ UNCHANGED ld_pc
      BY <1>5 DEF Decodes, loaderVars, loadVars
    <2> QED BY <2>1, RunLineCalls
  <1>6. CASE ShellExits
    BY <1>6, OthersCalls DEF ShellExits, Exits, loadVars, Serving
  <1>7. CASE ShellForks
    <2>1. /\ call = "fork" /\ CallReturns /\ ld_pc = "idle" /\ UNCHANGED ld_pc
      BY <1>7 DEF ShellForks, Forks, loadVars, Serving
    <2>2. sh_pc = "call"
      BY <2>1 DEF CallInv
    <2> QED BY <2>1, <2>2, OthersCalls
  <1>8. CASE ShellExecs
    <2>1. UNCHANGED shellVars /\ call = "exec"
      BY <1>8 DEF ShellExecs
    <2> QED BY <2>1, OthersCalls
  <1>9. CASE SystemLoads
    <2>1. ld_pc # "idle"
      BY <1>9 DEF SystemLoads, Loads, ReadHeader, ReadRecord, ReadEntry, ReadTyped,
                  Replace, Install, NoMemory
    <2>2. call = "exec"
      BY <2>1 DEF CallInv
    <2>3. CASE ld_pc = "install" /\ ld_pc' = "idle"
      BY <1>9, <2>2, <2>3, OthersCalls DEF SystemLoads
    <2>4. CASE UNCHANGED shellVars
      BY <2>2, <2>4, OthersCalls
    <2> QED BY <1>9, <2>3, <2>4 DEF SystemLoads
  <1>10. CASE ShellGoesOn
    <2>1. ld_pc = "failed" /\ ld_pc' = "idle" /\ CallReturns
      BY <1>10 DEF ShellGoesOn, Idle
    <2>2. call = "exec" /\ sh_pc = "call"
      BY <2>1 DEF CallInv
    <2> QED BY <2>1, <2>2, OthersCalls
  <1>11. CASE ProgramAsks
    <2>1. UNCHANGED shellVars
      BY <1>11 DEF ProgramAsks
    <2>2. UNCHANGED ld_pc
      BY <1>11 DEF ProgramAsks, Allocates, Forks, Exits, Faults, loaderVars, loadVars
    <2> QED BY <1>1, <2>1, <2>2
  <1>12. CASE UNCHANGED sessionVars
    BY <1>1, <1>12 DEF sessionVars, loaderVars, loadVars
  <1> QED
    BY <1>2, <1>3, <1>4, <1>5, <1>6, <1>7, <1>8, <1>9, <1>10, <1>11, <1>12
       DEF SessionNext

\* For every length of the buffer: when the shell ends, forks or is replaced, the first
\* word the user sees is the name of that call, though the token of an earlier line
\* is compared with an empty one (shell.c:247), unless a zero was typed.
THEOREM CallsAreNamed == SessionSpec => []OnlyNamedCalls
  <1>1. SessionInit => CallInv
    <2> SUFFICES ASSUME SessionInit PROVE CallInv
      OBVIOUS
    <2>1. token = UNSET /\ ld_pc = "idle" /\ sh_pc = "read" /\ call = "none"
      BY DEF SessionInit, ShellInit, LoaderInit
    <2> QED BY <2>1 DEF CallInv, StaleExit, TokenIs, OnlyNamedCalls
  <1>2. LineOK /\ LineInv /\ CallInv /\ [SessionNext]_sessionVars => CallInv'
    BY CallStep
  <1>3. CallInv => OnlyNamedCalls
    BY DEF CallInv
  <1> QED BY <1>1, <1>2, <1>3, BufferInvariant, PTL DEF SessionSpec
=============================================================================
