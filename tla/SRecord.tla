------------------------------ MODULE SRecord ------------------------------
(***************************************************************************)
(* The S-record files programs travel in, as the three programs that       *)
(* handle them see a file: reformat_srec (a host tool) counts the words of *)
(* a linked program and puts an S6 record with that count in front;        *)
(* gen_bin_code (a host tool) prints a file as a C array, for the programs *)
(* compiled into the kernel; the kernel's loader (exec.c) reads a file     *)
(* from the serial port.                                                   *)
(*                                                                         *)
(* A line is a record type and the bytes its pairs of hex digits stand     *)
(* for: a count of the bytes that follow, an address, data, a checksum.    *)
(***************************************************************************)
EXTENDS Integers, SequencesExt

CONSTANTS
    BYTE,         \* the number of values of a byte (256)
    WORD_BYTES,   \* the bytes of a word (4)
    Deltas        \* what a damaged byte may be greater by, modulo BYTE

\* A byte can count an address and a checksum, and a word has bytes.
ASSUME ByteAssumption == BYTE \in Nat /\ BYTE > 5 /\ WORD_BYTES \in Nat \ {0}
ASSUME DeltaAssumption == Deltas \subseteq 1 .. BYTE - 1

Line(type, bytes) == [type |-> type, bytes |-> bytes]

Total(s) ==
    LET sum[n \in 0 .. Len(s)] == IF n = 0 THEN 0 ELSE sum[n - 1] + s[n]
    IN  sum[Len(s)]

\* The number the hex digits of several bytes spell (hex2int).
Number(s) ==
    LET num[n \in 0 .. Len(s)] == IF n = 0 THEN 0 ELSE num[n - 1] * BYTE + s[n]
    IN  num[Len(s)]

\* "Inverted LSB of the sum of values" (exec.c:204).
Inverted(sum) == BYTE - 1 - (sum % BYTE)

AddressLength(type) == CASE type \in {0, 1, 9} -> 2
                         [] type \in {2, 8}    -> 3
                         [] type \in {3, 7}    -> 4
                         [] OTHER              -> 0
KnownTypes == {0, 1, 2, 3, 5, 6, 7, 8, 9}
-----------------------------------------------------------------------------
(* What the linker and reformat_srec write *)

\* A record of type 3 or 7 as the linker writes it.
Record(type, address, data) ==
    LET body == <<Len(address) + Len(data) + 1>> \o address \o data
    IN  Line(type, Append(body, Inverted(Total(body))))

\* The S6 record: the count has two bytes, and is summed as one number.  The
\* sum is inverted only when it does not fit in a byte.
WrittenHeader(count) ==
    LET sum == 3 + count
    IN  Line(6, <<3, count \div BYTE, count % BYTE,
                  IF sum > BYTE - 1 THEN Inverted(sum) ELSE sum>>)

\* A program is a sequence of chunks of words, one to a record, and an entry
\* point; the bytes of an address are all but the last 0 in these files.  No record
\* is empty or has more bytes than its count can say.  The words are so few that two
\* bytes can count them (with a third one in the header a program of that size, as an
\* array and as an image, is more than all the memory there is).
ProgramWord == [1 .. WORD_BYTES -> 0 .. BYTE - 1]
ProgramWords(prog) == FlattenSeq(prog.chunks)
Program ==
    {prog \in [chunks : Seq(Seq(ProgramWord)), entry : 0 .. BYTE - 1] :
        /\ \A i \in DOMAIN prog.chunks :
               Len(prog.chunks[i]) \in 1 .. (BYTE - 6) \div WORD_BYTES
        /\ Len(ProgramWords(prog)) < BYTE * BYTE}
Address(a) == <<0, 0, 0, a>>

WrittenFile(prog) ==
    <<WrittenHeader(Len(ProgramWords(prog)))>>
    \o [i \in 1 .. Len(prog.chunks) |->
           Record(3, Address(i), FlattenSeq(prog.chunks[i]))]
    \o <<Record(7, Address(prog.entry), <<>>)>>
-----------------------------------------------------------------------------
(* What happens to a file between the tools and the kernel *)

Changed(file, i, b, delta) ==
    [file EXCEPT ![i].bytes[b] = (@ + delta) % BYTE]

\* A line is lost, the digit of a record type is wrong, or any byte is; the count
\* of a line is one or two too small.  (A count that got larger is left out: the
\* parsers then read behind the line, what an earlier line or the stack left there.)
Damages(file) ==
    LET at == 1 .. Len(file) IN
    {RemoveAt(file, i) : i \in at}
    \cup {[file EXCEPT ![i].type = t] : i \in at, t \in 0 .. 9}
    \cup (UNION {{Changed(file, i, b, d) : b \in 2 .. Len(file[i].bytes), d \in Deltas} :
                     i \in at})
    \cup {Changed(file, i, 1, BYTE - d) : i \in at, d \in 1 .. 2}
-----------------------------------------------------------------------------
(* The kernel's parser *)

\* winix_load_srec_words_length: the count in an S6 record, or 0.  Up to BYTE - 1
\* the expected checksum is never computed: it is the inverse of 0, in a byte_t
\* that is as wide as an int here (size.h), and so no checksum a line can hold.
HeaderSum(line) == line.bytes[1] + Number(SubSeq(line.bytes, 2, line.bytes[1]))

winix_load_srec_words_length(line) ==
    LET sum == HeaderSum(line)
    IN  IF /\ line.type = 6
           /\ sum > BYTE - 1
           /\ line.bytes[line.bytes[1] + 1] = Inverted(sum)
        THEN Number(SubSeq(line.bytes, 2, line.bytes[1])) ELSE 0

\* The bytes of data in a line, by its count; the loops that read them do
\* nothing when this is negative.
DataLength(line) == line.bytes[1] - AddressLength(line.type) - 1
DataEnd(line) == 1 + AddressLength(line.type)
                 + (IF DataLength(line) > 0 THEN DataLength(line) ELSE 0)
Data_Bug(line) ==                          \* from the last byte of the address on
    SubSeq(line.bytes, 1 + AddressLength(line.type), DataEnd(line))
Data(line) == SubSeq(line.bytes, 2 + AddressLength(line.type), DataEnd(line))

ChecksumOK_Bug(line) ==                     \* the count is not summed
    line.bytes[DataEnd(line) + 1]
        = Inverted(Total(SubSeq(line.bytes, 2, DataEnd(line))))
ChecksumOK(line) ==
    line.bytes[DataEnd(line) + 1]
        = Inverted(Total(SubSeq(line.bytes, 1, DataEnd(line))))

WordsIn(line) ==
    [i \in 1 .. DataLength(line) \div WORD_BYTES |->
        SubSeq(Data(line), WORD_BYTES * (i - 1) + 1, WORD_BYTES * i)]

\* winix_load_srec_mem_val, as the words it stores and the value it returns: 0
\* for a line it refuses and for one that holds nothing.
Accepted_Bug(line) == /\ line.type \in KnownTypes      \* no checksum
                      /\ DataLength(line) % WORD_BYTES = 0
Accepted(line) == /\ line.type \in KnownTypes
                  /\ ChecksumOK(line)
                  /\ DataLength(line) % WORD_BYTES = 0
Stored(line) == IF Accepted(line) /\ line.type = 3 THEN WordsIn(line) ELSE <<>>
winix_load_srec_mem_val(line) ==
    IF ~Accepted(line) THEN 0
    ELSE IF line.type = 7 THEN Number(SubSeq(line.bytes, 2, 5))
    ELSE Len(Stored(line))
-----------------------------------------------------------------------------
(* gen_bin_code *)

\* Its version of the same parser inverts no small checksum, and refuses no
\* line for its length.
ToolHeader(line) ==
    LET sum == HeaderSum(line)
    IN  IF line.type = 6 /\ line.bytes[line.bytes[1] + 1] =
                (IF sum > BYTE - 1 THEN Inverted(sum) ELSE sum)
        THEN Number(SubSeq(line.bytes, 2, line.bytes[1])) ELSE 0

ToolAccepts(line) == line.type \in KnownTypes /\ ChecksumOK(line)

\* The lines it reads: it stops at the first type 7 line it refuses, not at one
\* it accepts.
ToolReads(file) ==
    LET stops == {i \in 2 .. Len(file) : file[i].type = 7 /\ ~ToolAccepts(file[i])}
    IN  IF ToolHeader(file[1]) = 0 THEN <<>>
        ELSE SubSeq(file, 2, IF stops = {} THEN Len(file) ELSE Min(stops) - 1)

\* The words of the C array it prints: bytes that are no whole word become one too,
\* with what an earlier line left behind them (left out here).  A refused line of
\* another type is skipped.
ToolWordsIn(line) ==
    LET n == DataLength(line)
    IN  [i \in 1 .. (n + WORD_BYTES - 1) \div WORD_BYTES |->
            SubSeq(Data(line), WORD_BYTES * (i - 1) + 1,
                   IF i <= n \div WORD_BYTES THEN WORD_BYTES * i ELSE n)]
ToolStored(line) ==
    IF ToolAccepts(line) /\ line.type = 3 THEN ToolWordsIn(line) ELSE <<>>
ToolWords(file) ==
    LET lines == ToolReads(file)
    IN  FlattenSeq([i \in 1 .. Len(lines) |-> ToolStored(lines[i])])
=============================================================================
