--------------------------- MODULE ConsoleOutput ---------------------------
(***************************************************************************)
(* The formatted output of the kernel (kprintf, sys_stdio.c) and of the    *)
(* user library (printf, lib/stdio.c), which are two copies of one         *)
(* another: the polling that sends each character is left out, what is     *)
(* printed and whether the printing ends is kept.                          *)
(***************************************************************************)
EXTENDS Integers, SequencesExt

CONSTANTS
    INT_MAX,     \* the largest int (2^31 - 1); the smallest is -INT_MAX - 1
    PLACES,      \* the decimal digits of INT_MAX (10)
    HEX_DIGITS   \* the hex digits of an int (8)

\* The powers of a base, up to the n-th.
Powers(base, n) ==
    LET f[k \in 0 .. n] == IF k = 0 THEN 1 ELSE base * f[k - 1]
    IN  f
Ten     == Powers(10, PLACES)
Sixteen == Powers(16, HEX_DIGITS)

\* kputd starts from the largest power of ten there is in an int (1000000000).
ASSUME IntAssumption == /\ INT_MAX \in Nat /\ {PLACES, HEX_DIGITS} \subseteq Nat \ {0}
                        /\ Ten[PLACES - 1] <= INT_MAX /\ INT_MAX < Ten[PLACES]

DigitChars == <<"0", "1", "2", "3", "4", "5", "6", "7", "8", "9",
                "A", "B", "C", "D", "E", "F">>

INT_MIN == -INT_MAX - 1
int     == INT_MIN .. INT_MAX

\* n * -1, which wraps for the smallest int.
Negated(n) == IF n = INT_MIN THEN n ELSE -n

\* "while(place > n) place /= 10": the place of the first digit, counted from the
\* right, or 0 when the search has passed the units, where it stays for ever if n is
\* negative.
FirstPlace_Bug(n) ==              \* "while(place >= n)"
    Max({0} \cup {k \in 1 .. PLACES : Ten[k - 1] < n})
FirstPlace(n) ==
    Max({0} \cup {k \in 1 .. PLACES : Ten[k - 1] <= n})

\* The digits of n from a place down to the units.
Digits(n, from) ==
    [i \in 1 .. from |-> DigitChars[((n \div Ten[from - i]) % 10) + 1]]

\* kputd: what it prints, and whether it returns.
kputd(n) ==
    LET m == IF n < 0 THEN Negated(n) ELSE n
    IN  [out  |-> (IF n < 0 THEN <<"-">> ELSE <<>>)
                  \o (IF n = 0 THEN <<"0">> ELSE Digits(m, FirstPlace(m))),
         ends |-> m >= 0]

\* kputx: every hex digit, from the highest.
kputx(n) ==
    [i \in 1 .. HEX_DIGITS |->
        DigitChars[(((n % Sixteen[HEX_DIGITS]) \div Sixteen[HEX_DIGITS - i]) % 16) + 1]]

\* kprintf: the format is a sequence of characters, a conversion being one of
\* them; each conversion takes the next argument.  Nothing is printed any more
\* once a kputd has not returned.
Convert(item, arg) == CASE item = "%d" -> kputd(arg)
                        [] item = "%x" -> [out |-> kputx(arg), ends |-> TRUE]
                        [] item = "%s" -> [out |-> arg, ends |-> TRUE]
                        [] OTHER       -> [out |-> <<item>>, ends |-> TRUE]

PrintItem(so_far, item, args) ==
    LET takes == item \in {"%d", "%x", "%s"}
        c     == Convert(item, IF takes THEN args[so_far.used + 1] ELSE item)
    IN  IF ~so_far.ends THEN so_far
        ELSE [out  |-> so_far.out \o c.out, ends |-> c.ends,
              used |-> IF takes THEN so_far.used + 1 ELSE so_far.used]

kprintf(format, args) ==
    LET so_far[i \in 0 .. Len(format)] ==
            IF i = 0 THEN [out |-> <<>>, used |-> 0, ends |-> TRUE]
            ELSE PrintItem(so_far[i - 1], format[i], args)
    IN  so_far[Len(format)]
-----------------------------------------------------------------------------
(* The references the output is compared with. *)

\* The number a printed decimal or hex number shows.
DigitValue(c) == (CHOOSE i \in DOMAIN DigitChars : DigitChars[i] = c) - 1
Shown(chars, radix) ==
    LET digits == IF Head(chars) = "-" THEN Tail(chars) ELSE chars
        value[i \in 0 .. Len(digits)] ==
            IF i = 0 THEN 0 ELSE value[i - 1] * radix + DigitValue(digits[i])
    IN  IF Head(chars) = "-" THEN -value[Len(digits)] ELSE value[Len(digits)]
=============================================================================
