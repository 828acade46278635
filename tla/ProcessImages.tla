--------------------------- MODULE ProcessImages ---------------------------
(***************************************************************************)
(* The memory of processes: the image exec and fork allocate for a process *)
(* (its text, data and stack in one block of the allocator), the base      *)
(* register it runs with, and the protection table that says which 1k      *)
(* blocks of memory it may touch (exec.c, proc.c, over sys_memory.c).      *)
(*                                                                         *)
(* The table is modelled by the set of the blocks whose bit is set: bit i  *)
(* of word w, counted from the highest bit, is block w * WORD_BITS + i.    *)
(***************************************************************************)
EXTENDS HoleAllocator

CONSTANTS
    NUM_PROCS,
    BLOCK,        \* the unit of protection, and DEFAULT_STACK_SIZE (1024)
    WORD_BITS     \* bits in a word of the protection table (32)

Proc == 0 .. NUM_PROCS - 1

ASSUME ImageAssumption ==
    /\ NUM_PROCS \in Nat \ {0} /\ BLOCK \in Nat \ {0} /\ WORD_BITS \in Nat \ {0}
    /\ ORIGIN % BLOCK = 0 /\ (LAST + 1) % BLOCK = 0
    /\ ORIGIN >= NUM_PROCS          \* the kernel and its process table are below

VARIABLES
    state,        \* "DEAD" or "RUNNABLE", the field of proc_t
    image,        \* fields rbase and length of proc_t
    protection_table,
    shift         \* what a shift of a word by its width or more gives: UNDEFINED
                  \* in C, "zero" or "modulo" on the machines there are

imageVars == <<image, protection_table, shift>>

DEFAULT_STACK_SIZE == BLOCK
SYS_BSS_START == ORIGIN

\* The bit of the bss segment is in the first word of the table, as exec and fork
\* assume: the kernel ends in the first WORD_BITS blocks.
KernelIsLow == SYS_BSS_START \div BLOCK < WORD_BITS

\* proc_set_default, and a task of the kernel: no image.
NoImage == [rbase |-> 0, length |-> 0]

\* The length of the text in whole blocks, at least one.
Rounded(len) ==
    LET up == IF len % BLOCK = 0 THEN len ELSE len + BLOCK
    IN  IF up < BLOCK THEN BLOCK ELSE (up \div BLOCK) * BLOCK

ImageSize(len) == Rounded(len) + DEFAULT_STACK_SIZE

\* Bit i counted from the highest bit of word w: 0x80000000 >> i.
Bit(w, i) == IF i < WORD_BITS THEN {w * WORD_BITS + i}
             ELSE IF shift = "zero" THEN {} ELSE {w * WORD_BITS + (i % WORD_BITS)}

\* One word of the table is written, the one the first block falls in.
ProtectionTable_Bug(base, len) ==          \* the stack is left out
    LET n == base \div BLOCK
        w == n \div WORD_BITS
    IN  (UNION {Bit(w, i) : i \in n .. n + len \div BLOCK - 1})
        \cup Bit(0, SYS_BSS_START \div BLOCK)
ProtectionTable(base, len) ==
    LET n == base \div BLOCK
        w == n \div WORD_BITS
    IN  (UNION {Bit(w, i) : i \in n .. n + len \div BLOCK})
        \cup Bit(0, SYS_BSS_START \div BLOCK)

\* What the proc_malloc of this step returned.
Returned == {b.start : b \in allocated' \ allocated}

\* exec_proc(p, lines, len, ...) as far as memory goes, when the allocation
\* succeeds; a NULL is a failed assertion.
ExecImage(p, len) ==
    /\ proc_malloc(ImageSize(len))
    /\ \E base \in Returned :
         /\ image' = [image EXCEPT ![p] = [rbase |-> base, length |-> Rounded(len)]]
         /\ protection_table' =
                [protection_table EXCEPT ![p] = ProtectionTable(base, Rounded(len))]
    /\ UNCHANGED shift

\* fork_proc(o) into the slot p.
ForkImage_Bug(o, p) ==                     \* the child gets its parent's base
    /\ proc_malloc(ImageSize(image[o].length))
    /\ Returned # {}
    /\ image' = [image EXCEPT ![p] = image[o]]
    /\ protection_table' = [protection_table EXCEPT ![p] = protection_table[o]]
    /\ UNCHANGED shift
ForkImage(o, p) ==
    /\ proc_malloc(ImageSize(image[o].length))
    /\ \E base \in Returned :
         /\ image' = [image EXCEPT ![p] =
                         [rbase |-> base, length |-> image[o].length]]
         /\ protection_table' =
                [protection_table EXCEPT
                    ![p] = ProtectionTable(base, Rounded(image[o].length))]
    /\ UNCHANGED shift

\* The allocation fails: "memory is full".
OutOfMemory(len) == proc_malloc(ImageSize(len)) /\ Returned = {}
-----------------------------------------------------------------------------
(* Properties *)

HasImage(p) == state[p] # "DEAD" /\ image[p].length # 0
ImageBlock(p) ==
    Block(image[p].rbase, image[p].length + DEFAULT_STACK_SIZE, "malloc")

BlocksOf(s, l) == {a \div BLOCK : a \in Words(s, l)}

\* Each image is a block of the allocator of its own, as long as its process
\* lives: exec gives back the old image of its caller and no other, fork copies
\* no base.  (With NoOverlap: images share no word with each other, with memory
\* handed out to programs, or with the arrays of the loader.)
ImageIsOwned ==
    /\ \A p \in Proc : HasImage(p) => ImageBlock(p) \in allocated
    /\ \A p, q \in Proc : p # q /\ HasImage(p) /\ HasImage(q)
                              => image[p].rbase # image[q].rbase

\* Besides the bss segment a process can touch no block that its image does not
\* reach into, and all its image when that starts on a 1k boundary.  Beyond the first
\* word of the table the bits may be lost in the shift, but none is set for memory of
\* another process.  (An image that crosses into the next word gets wrong bits; one
\* that starts off a boundary shares its first block with its neighbour, and cannot
\* touch its last one.)
Reach(p) == protection_table[p]
OwnBlocks(p) == BlocksOf(image[p].rbase, image[p].length + DEFAULT_STACK_SIZE)
InOneWord(B) == \A a, b \in B : a \div WORD_BITS = b \div WORD_BITS
ReachesItsImage ==
    \A p \in Proc :
        HasImage(p) /\ InOneWord(OwnBlocks(p)) =>
            /\ Reach(p) \ {SYS_BSS_START \div BLOCK} \subseteq OwnBlocks(p)
            /\ image[p].rbase % BLOCK = 0 /\ (\A b \in OwnBlocks(p) : b < WORD_BITS)
                   => OwnBlocks(p) \subseteq Reach(p)
=============================================================================
