------------------------------- MODULE Loader -------------------------------
(***************************************************************************)
(* exec_read_srec (exec.c): the system task reads an S-record file from    *)
(* the serial port, line by line, into an array of its own, and replaces   *)
(* the process that asked with what the array holds.                       *)
(*                                                                         *)
(* kgetc waits for each character inside the system task, which nothing of *)
(* lower priority interrupts, so no other request is served meanwhile; a   *)
(* line is read and used in one step.                                      *)
(***************************************************************************)
EXTENDS ProcessImages, SRecord

VARIABLES
    ld_pc,           \* "idle", then what comes next: the "header", "records",
                     \* to "replace" the process, to "install" the new image, or
                     \* "failed": exec_read_srec has returned 0
    ld_for,          \* the process that asked
    incoming,        \* the lines the serial port has still to deliver
    memory_values,   \* the array, NULL when proc_malloc failed
    wordslength,     \* the words the header announces, the length of the array
    loaded,          \* the words stored in it; its length is wordsLoaded
    entry,
    halted,          \* "no", or why the system task has stopped: "panic", a
                     \* "wild" write, or a loop it "spins" in
    sent             \* ghost: the program, and the file made of it as it arrives

loadVars   == <<ld_pc, ld_for, incoming, memory_values, wordslength, loaded, entry, sent>>
loaderVars == <<loadVars, halted>>

NotSent == [prog |-> NULL, file |-> <<>>, damaged |-> FALSE]

Idle == /\ ld_pc' = "idle" /\ ld_for' = NULL /\ incoming' = <<>>
        /\ memory_values' = NULL /\ wordslength' = 0 /\ loaded' = <<>>
        /\ entry' = 0 /\ sent' = NotSent

LoaderInit ==
    /\ ld_pc = "idle" /\ ld_for = NULL /\ incoming = <<>> /\ memory_values = NULL
    /\ wordslength = 0 /\ loaded = <<>> /\ entry = 0 /\ halted = "no"
    /\ sent = NotSent

Fails == ld_pc' = "failed" /\ UNCHANGED <<memory_values, wordslength, loaded, entry, halted>>
-----------------------------------------------------------------------------

exec_read_srec(p, prog, file) ==
    /\ ld_pc = "idle"
    /\ ld_pc' = "header" /\ ld_for' = p
    /\ incoming' = file
    /\ sent' = [prog |-> prog, file |-> file, damaged |-> file # WrittenFile(prog)]
    /\ UNCHANGED <<memory_values, wordslength, loaded, entry, halted>>

\* The first line; the array is asked for and a NULL is not noticed.
ReadHeader ==
    LET words == winix_load_srec_words_length(Head(incoming)) IN
    /\ ld_pc = "header"
    /\ incoming' = Tail(incoming)
    /\ UNCHANGED <<ld_for, sent, image, protection_table, shift, state>>
    /\ \/ words = 0 /\ Fails /\ UNCHANGED vars
       \/ /\ words # 0
          /\ proc_malloc(words)
          /\ memory_values' = IF Returned = {} THEN NULL
                              ELSE CHOOSE a \in Returned : TRUE
          /\ wordslength' = words
          /\ ld_pc' = "records"
          /\ UNCHANGED <<loaded, entry, halted>>

\* Another line.  The words are stored before they are counted.
ReadRecord_Bug ==                         \* the count is never compared
    LET record == Head(incoming) IN
    /\ ld_pc = "records" /\ incoming # <<>> /\ record.type # 7
    /\ incoming' = Tail(incoming)
    /\ UNCHANGED <<vars, ld_for, sent, image, protection_table, shift, state>>
    /\ \/ winix_load_srec_mem_val(record) = 0 /\ Fails
       \/ /\ winix_load_srec_mem_val(record) # 0
          /\ loaded' = loaded \o Stored(record)
          /\ UNCHANGED <<ld_pc, memory_values, wordslength, entry, halted>>
ReadRecord ==
    LET record == Head(incoming) IN
    /\ ld_pc = "records" /\ incoming # <<>> /\ record.type # 7
    /\ incoming' = Tail(incoming)
    /\ UNCHANGED <<vars, ld_for, sent, image, protection_table, shift, state>>
    /\ \/ winix_load_srec_mem_val(record) = 0 /\ Fails
       \/ /\ winix_load_srec_mem_val(record) # 0
          /\ loaded' = loaded \o Stored(record)
          /\ halted' = IF memory_values = NULL THEN "wild" ELSE halted
          /\ ld_pc' = IF Len(loaded') > wordslength THEN "failed" ELSE "records"
          /\ UNCHANGED <<memory_values, wordslength, entry>>

\* The line whose type digit is 7 ends the file, accepted or not: the entry point
\* of one that is refused is 0.
ReadEntry ==
    /\ ld_pc = "records" /\ incoming # <<>> /\ Head(incoming).type = 7
    /\ incoming' = Tail(incoming)
    /\ entry' = winix_load_srec_mem_val(Head(incoming))
    /\ ld_pc' = "replace"
    /\ UNCHANGED <<vars, ld_for, sent, image, protection_table, shift, state,
                   memory_values, wordslength, loaded, halted>>

\* The file is over and the loader still waits: the next line is one that the
\* user types.  It is no record, but its second character may be a 7.
ReadTyped ==
    /\ ld_pc = "records" /\ incoming = <<>>
    /\ UNCHANGED <<vars, ld_for, sent, image, protection_table, shift, state, incoming>>
    /\ \/ Fails
       \/ /\ ld_pc' = "replace"
          /\ entry' = 0
          /\ UNCHANGED <<memory_values, wordslength, loaded, halted>>

\* exec_replace_existing_proc and exec_proc.  The array is never freed.
Replace_Bug ==                            \* the array is freed, the image is not
    /\ ld_pc = "replace"
    /\ ld_pc' = "install"
    /\ proc_free(memory_values)
    /\ image' = [image EXCEPT ![ld_for] = NoImage]
    /\ state' = [state EXCEPT ![ld_for] = "INITIALISING"]
    /\ UNCHANGED <<ld_for, incoming, memory_values, wordslength, loaded, entry,
                   halted, sent, protection_table, shift>>
Replace ==
    /\ ld_pc = "replace"
    /\ ld_pc' = "install"
    /\ proc_free(image[ld_for].rbase)
    /\ image' = [image EXCEPT ![ld_for] = NoImage]
    /\ state' = [state EXCEPT ![ld_for] = "INITIALISING"]
    /\ UNCHANGED <<ld_for, incoming, memory_values, wordslength, loaded, entry,
                   halted, sent, protection_table, shift>>
Install ==
    /\ ld_pc = "install"
    /\ ExecImage(ld_for, wordslength)
    /\ state' = [state EXCEPT ![ld_for] = "RUNNABLE"]
    /\ Idle
    /\ UNCHANGED halted
NoMemory ==
    /\ ld_pc = "install"
    /\ OutOfMemory(wordslength)
    /\ halted' = "panic"
    /\ UNCHANGED <<loadVars, imageVars, state>>

Loads == ReadHeader \/ ReadRecord \/ ReadEntry \/ ReadTyped \/ Replace \/ Install \/ NoMemory
-----------------------------------------------------------------------------
(* Properties.  Loading is the moment before the process is replaced. *)

Loading   == ld_pc \in {"replace", "install"}
Undamaged == ~sent.damaged

\* The words that are installed fit into the array they were collected in and
\* into the image (exec.c:145 compares the counts after it has stored a line).
InstalledFits == Loading => Len(loaded) <= wordslength

\* Only a damaged file makes the loader write behind the array, by the words of one
\* line at most, and it gives up then.
OverrunIsBounded ==
    Len(loaded) > wordslength =>
        /\ sent.damaged /\ ld_pc = "failed"
        /\ Len(loaded) - wordslength <= (BYTE - 6) \div WORD_BYTES

\* A file that arrives as reformat_srec wrote it is loaded word for word, and the
\* program starts where it should.
WholeProgram ==
    Loading /\ Undamaged =>
        /\ loaded = ProgramWords(sent.prog) /\ wordslength = Len(loaded)
        /\ entry = sent.prog.entry

\* Whatever one line of the file suffered on its way, no word is changed, invented
\* or moved before another: what is loaded is the beginning of the program, with
\* one record missing at most.
NoWrongWord ==
    LET chunks == sent.prog.chunks IN
    Loading =>
        \E words \in {FlattenSeq(chunks)} \cup
                     {FlattenSeq(RemoveAt(chunks, i)) : i \in 1 .. Len(chunks)} :
            IsPrefix(loaded, words)

\* What the kernel loads of a file is the beginning of what gen_bin_code would
\* have compiled into the kernel: the two parsers differ in which lines they
\* refuse and in what they do then, but not in the words they read.
AgreesWithTool ==
    Loading => IsPrefix(loaded, ToolWords(sent.file))

\* The loader refuses a file that arrives undamaged only for one reason: the
\* program is so short that the checksum in the header, which reformat_srec does
\* not invert then, is compared with the inverse of 0 (exec.c:224).  With a BYTE of
\* 256 these are the programs of up to 252 words.
RefusesOnlyShort ==
    [][ld_pc # "failed" /\ ld_pc' = "failed" /\ Undamaged
           => HeaderSum(sent.file[1]) <= BYTE - 1]_loaderVars
=============================================================================
