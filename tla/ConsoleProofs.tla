---------------------------- MODULE ConsoleProofs ----------------------------
(***************************************************************************)
(* What is proved of the kernel's console output, for every size of an int *)
(* and every number of digits: a number that is printed is the number that *)
(* is shown, and the report of a process's end tells which process ended   *)
(* and how.                                                                *)
(***************************************************************************)
EXTENDS LoaderProofs

-----------------------------------------------------------------------------
(* Powers and digits. *)

\* What defines a quotient.
LEMMA QuotientIs ==
    ASSUME NEW x \in Nat, NEW m \in Nat \ {0}, NEW q \in Nat, NEW r \in 0 .. m - 1,
           x = q * m + r
    PROVE  x \div m = q
  <1> DEFINE a == x \div m
             s == x % m
  <1>1. a \in Nat /\ s \in 0 .. m - 1 /\ x = a * m + s
    BY Division
  <1> HIDE DEF a, s
  <1>2. (a - q) * m = r - s /\ (q - a) * m = s - r
    BY <1>1
  <1>3. CASE a >= q
    <2>1. a - q \in Int /\ (a - q) * m >= 0
      BY <1>1, <1>3
    <2>2. (a - q) * m < m
      BY <1>1, <1>2
    <2>3. a - q = 0
      BY <2>1, <2>2, Multiple
    <2> QED BY <1>1, <2>3 DEF a
  <1>4. CASE q >= a
    <2>1. q - a \in Int /\ (q - a) * m >= 0
      BY <1>1, <1>4
    <2>2. (q - a) * m < m
      BY <1>1, <1>2
    <2>3. q - a = 0
      BY <2>1, <2>2, Multiple
    <2> QED BY <1>1, <2>3 DEF a
  <1> QED BY <1>1, <1>3, <1>4

\* The next digit of a number, in any base.
LEMMA NextDigit ==
    ASSUME NEW x \in Nat, NEW p \in Nat \ {0}, NEW b \in Nat \ {0}
    PROVE  /\ x \div (b * p) \in Nat
           /\ x \div p = (x \div (b * p)) * b + ((x \div p) % b)
  <1> DEFINE y == x \div p
             r == x % p
             q == y \div b
             d == y % b
             m == b * p
  <1>1. y \in Nat /\ r \in 0 .. p - 1 /\ x = y * p + r
    BY Division
  <1> HIDE DEF y, r
  <1>2. q \in Nat /\ d \in 0 .. b - 1 /\ y = q * b + d
    BY <1>1, Division
  <1> HIDE DEF q, d
  <1>3. m \in Nat \ {0}
    OBVIOUS
  <1>4. x = q * m + (d * p + r)
    <2>1. x = (q * b + d) * p + r
      BY <1>1, <1>2
    <2>2. (q * b + d) * p = q * (b * p) + d * p
      BY <1>2
    <2>3. q * (b * p) \in Nat /\ d * p \in Nat /\ r \in Nat
      BY <1>1, <1>2
    <2> DEFINE u == q * (b * p)
               w == d * p
    <2>4. x = u + w + r
      BY <2>1, <2>2
    <2> HIDE DEF u, w
    <2>5. x = u + (w + r)
      BY <1>1, <2>3, <2>4 DEF u, w
    <2> QED BY <2>5 DEF u, w
  <1>5. d * p + r \in 0 .. m - 1
    <2>1. d * p \in Nat /\ d * p <= (b - 1) * p
      <3>1. d \in Nat /\ d <= b - 1 /\ b - 1 \in Nat
        BY <1>2
      <3> DEFINE e == b - 1
      <3> HIDE DEF e
      <3>2. p * d \in Nat /\ p * d <= p * e
        BY <3>1, Products DEF e
      <3> QED BY <3>1, <3>2 DEF e
    <2>2. (b - 1) * p = m - p
      OBVIOUS
    <2> DEFINE w == d * p
    <2> HIDE DEF w, m
    <2>3. w \in Nat /\ w <= m - p
      BY <2>1, <2>2 DEF w
    <2>4. w + r \in 0 .. m - 1
      BY <1>1, <1>3, <2>3
    <2> QED BY <2>4 DEF w
  <1>6. x \div m = q
    <2> HIDE DEF m
    <2> QED BY <1>3, <1>4, <1>5, <1>2, QuotientIs
  <1> QED BY <1>2, <1>6 DEF q, d, y, m

\* Powers, step by step.
ArePowers(P, base, n) == /\ \A k \in 0 .. n : P[k] \in Nat \ {0}
                         /\ P[0] = 1
                         /\ \A k \in 1 .. n : P[k] = base * P[k - 1]

\* That is what Powers are.
LEMMA PowersSteps ==
    ASSUME NEW base \in Nat \ {0}, NEW n \in Nat
    PROVE  ArePowers(Powers(base, n), base, n)
  <1> DEFINE V == Nat \ {0}
             step == [k \in 1 .. n |-> [v \in V |-> base * v]]
             F(f) == [k \in 0 .. n |-> IF k = 0 THEN 1 ELSE base * f[k - 1]]
             c == CHOOSE f : f = F(f)
  <1>1. step \in [1 .. n -> [V -> V]] /\ 1 \in V
    <2>1. \A v \in V : base * v \in V
      OBVIOUS
    <2> HIDE DEF V
    <2>2. [v \in V |-> base * v] \in [V -> V]
      BY <2>1
    <2> QED BY <2>2 DEF V
  <1>2. PICK g \in [0 .. n -> V] : g[0] = 1 /\ \A k \in 1 .. n : g[k] = step[k][g[k - 1]]
    <2> HIDE DEF V, step
    <2> QED BY <1>1, Recursion
  <1>3. \A k \in 1 .. n : g[k] = base * g[k - 1]
    <2>1. \A k \in 1 .. n : k - 1 \in 0 .. n /\ g[k - 1] \in V
      BY <1>2
    <2> HIDE DEF V
    <2> QED BY <1>2, <2>1
  <1>4. g = F(g)
    <2> HIDE DEF V, step
    <2> QED BY <1>2, <1>3
  <1>5. c = F(c)
    <2> HIDE DEF F
    <2> QED BY <1>4
  <1>6. Powers(base, n) = c
    BY DEF Powers
  <1> HIDE DEF c, step
  <1>7. c[0] = 1 /\ \A k \in 1 .. n : c[k] = base * c[k - 1]
    <2>1. \A k \in 0 .. n : c[k] = F(c)[k]
      BY <1>5
    <2> QED BY <2>1
  <1> DEFINE S == {k \in 0 .. n : c[k] = g[k]}
  <1>8. 0 \in S /\ \A k \in 1 .. n : k - 1 \in S => k \in S
    BY <1>2, <1>3, <1>7
  <1>9. \A k \in 0 .. n : k \in S
    <2> HIDE DEF S
    <2> QED BY <1>8, InductionTo
  <1>10. c \in [0 .. n -> V]
    <2>1. c = [k \in 0 .. n |-> c[k]]
      BY <1>5
    <2>2. \A k \in 0 .. n : c[k] \in V
      BY <1>2, <1>9
    <2> HIDE DEF V, F
    <2> QED BY <2>1, <2>2
  <1> QED BY <1>6, <1>7, <1>10 DEF ArePowers

\* What is printed, and the digits among it.
Glyph == {DigitChars[i] : i \in 1 .. 16} \cup {"-", "(", "name", "exited", "GPF"}
Digit(d) == DigitChars[d + 1]

\* The value of a digit.
LEMMA DigitsDiffer ==
    /\ \A d \in 0 .. 15 : Digit(d) \in Glyph /\ Digit(d) # "-"
    /\ \A d \in 0 .. 15 : DigitValue(Digit(d)) = d
    /\ Digit(0) = "0" /\ ")" \notin Glyph
  <1>1. \A i \in 1 .. 16 : DigitChars[i] \in Glyph /\ DigitChars[i] \notin {"-", ")", "("}
    <2>1. \A i \in 1 .. 16 : DigitChars[i] \notin {"-", ")", "("}
      BY SMTT(60) DEF DigitChars
    <2>2. \A i \in 1 .. 16 : DigitChars[i] \in Glyph
      BY DEF Glyph
    <2> QED BY <2>1, <2>2
  <1>2. \A i, j \in 1 .. 16 : DigitChars[i] = DigitChars[j] => i = j
    BY SMTT(60) DEF DigitChars
  <1>3. DOMAIN DigitChars = 1 .. 16 /\ DigitChars[1] = "0"
    BY DEF DigitChars
  <1>4. ASSUME NEW d \in 0 .. 15 PROVE DigitValue(Digit(d)) = d
    <2> DEFINE i == CHOOSE i \in DOMAIN DigitChars : DigitChars[i] = Digit(d)
    <2>1. d + 1 \in DOMAIN DigitChars /\ DigitChars[d + 1] = Digit(d)
      BY <1>3 DEF Digit
    <2>2. i \in DOMAIN DigitChars /\ DigitChars[i] = Digit(d)
      BY <2>1
    <2>3. DigitValue(Digit(d)) = i - 1
      BY DEF DigitValue
    <2> HIDE DEF i
    <2>4. i = d + 1
      BY <1>2, <1>3, <2>1, <2>2
    <2> QED BY <2>3, <2>4
  <1>5. \A d \in 0 .. 15 : d + 1 \in 1 .. 16
    OBVIOUS
  <1>6. \A d \in 0 .. 15 : Digit(d) \in Glyph /\ Digit(d) # "-"
    BY <1>1, <1>5 DEF Digit
  <1>7. ")" \notin Glyph
    BY <1>1 DEF Glyph
  <1> QED BY <1>3, <1>4, <1>6, <1>7 DEF Digit

\* The digits of a number are a number that is shown as it is.
Place(x, base, p) == (x \div p) % base
Written(x, base, P, n) == [i \in 1 .. n |-> Digit(Place(x, base, P[n - i]))]

\* Each of them.
LEMMA WrittenDigit ==
    ASSUME NEW x \in Nat, NEW base \in {10, 16}, NEW n \in Nat,
           NEW P, ArePowers(P, base, n),
           NEW s, s = Written(x, base, P, n),
           NEW i \in 1 .. n
    PROVE  /\ s[i] \in Glyph /\ s[i] # "-"
           /\ DigitValue(s[i]) = Place(x, base, P[n - i])
  <1>1. n - i \in 0 .. n /\ P[n - i] \in Nat \ {0}
    BY DEF ArePowers
  <1> DEFINE y == x \div P[n - i]
  <1>2. y \in Nat
    BY <1>1, Division
  <1>3. Place(x, base, P[n - i]) = y % base
    BY DEF Place
  <1>4. s[i] = Digit(Place(x, base, P[n - i]))
    BY DEF Written
  <1> HIDE DEF y
  <1>5. y % base \in 0 .. 15
    <2>1. y % 10 \in 0 .. 15 /\ y % 16 \in 0 .. 15
      BY <1>2
    <2> QED BY <2>1
  <1> QED BY <1>3, <1>4, <1>5, DigitsDiffer

\* All of them.
LEMMA WrittenDigits ==
    ASSUME NEW x \in Nat, NEW base \in {10, 16}, NEW n \in Nat,
           NEW P, ArePowers(P, base, n),
           NEW s, s = Written(x, base, P, n)
    PROVE  s \in Seq(Glyph) /\ Len(s) = n
  <1>1. \A i \in 1 .. n : s[i] \in Glyph
    BY WrittenDigit
  <1>2. s = [i \in 1 .. n |-> s[i]]
    BY DEF Written
  <1>3. s \in [1 .. n -> Glyph]
    BY <1>1, <1>2
  <1> QED BY <1>3, SequenceIs

\* Shown, of what follows a sign.
Value(digits, radix) ==
    LET value[i \in 0 .. Len(digits)] ==
            IF i = 0 THEN 0 ELSE value[i - 1] * radix + DigitValue(digits[i])
    IN  value[Len(digits)]

\* It is the number the digits were made from.
LEMMA ValueIs ==
    ASSUME NEW x \in Nat, NEW base \in {10, 16}, NEW n \in Nat, NEW P,
           ArePowers(P, base, n), x < P[n]
    PROVE  Value(Written(x, base, P, n), base) = x
  <1> DEFINE s == Written(x, base, P, n)
             F(f) == [i \in 0 .. n |->
                         IF i = 0 THEN 0 ELSE f[i - 1] * base + DigitValue(s[i])]
             c == CHOOSE f : f = F(f)
             g == [i \in 0 .. n |-> x \div P[n - i]]
  <1>1. Len(s) = n /\ \A i \in 1 .. n : DigitValue(s[i]) = Place(x, base, P[n - i])
    <2>1. s = Written(x, base, P, n)
      OBVIOUS
    <2> HIDE DEF F, c, g, s
    <2>2. Len(s) = n
      BY <2>1, WrittenDigits
    <2>3. ASSUME NEW i \in 1 .. n PROVE DigitValue(s[i]) = Place(x, base, P[n - i])
      BY <2>1, WrittenDigit
    <2> QED BY <2>2, <2>3
  <1>2. (\A k \in 0 .. n : P[k] \in Nat \ {0}) /\ P[0] = 1
    BY DEF ArePowers
  <1> HIDE DEF s
  <1>3. g[0] = 0
    <2>1. P[n] \in Nat \ {0} /\ n - 0 = n
      BY <1>2
    <2>2. x = 0 * P[n] + x /\ x \in 0 .. P[n] - 1
      BY <2>1
    <2>3. x \div P[n] = 0
      BY <2>1, <2>2, QuotientIs
    <2> QED BY <2>1, <2>3
  <1>4. ASSUME NEW i \in 1 .. n PROVE g[i] = g[i - 1] * base + DigitValue(s[i])
    <2> DEFINE k == n - i
    <2>1. k \in 0 .. n /\ k + 1 \in 1 .. n /\ (k + 1) - 1 = k /\ n - (i - 1) = k + 1
      OBVIOUS
    <2>2. g[i] = x \div P[k] /\ g[i - 1] = x \div P[k + 1]
      BY <2>1
    <2>3. DigitValue(s[i]) = (x \div P[k]) % base
      BY <1>1 DEF Place
    <2> HIDE DEF k
    <2>4. P[k + 1] = base * P[k] /\ P[k] \in Nat \ {0} /\ base \in Nat \ {0}
      BY <2>1 DEF ArePowers
    <2>5. x \div P[k] = (x \div (base * P[k])) * base + ((x \div P[k]) % base)
      BY <2>4, NextDigit
    <2> HIDE DEF g
    <2> QED BY <2>2, <2>3, <2>4, <2>5
  <1>5. g = F(g)
    <2>1. \A i \in 0 .. n : g[i] = F(g)[i]
      <3> HIDE DEF g
      <3> QED BY <1>3, <1>4
    <2>2. g = [i \in 0 .. n |-> g[i]] /\ F(g) = [i \in 0 .. n |-> F(g)[i]]
      OBVIOUS
    <2> HIDE DEF g, F
    <2> QED BY <2>1, <2>2
  <1>6. c = F(c)
    <2> HIDE DEF F, g
    <2> QED BY <1>5
  <1>7. Value(s, base) = c[n]
    BY <1>1 DEF Value
  <1> HIDE DEF c, g
  <1>8. c[0] = 0 /\ \A i \in 1 .. n : c[i] = c[i - 1] * base + DigitValue(s[i])
    <2>1. \A i \in 0 .. n : c[i] = F(c)[i]
      BY <1>6
    <2> QED BY <2>1
  <1> DEFINE S == {i \in 0 .. n : c[i] = g[i]}
  <1>9. 0 \in S /\ \A i \in 1 .. n : i - 1 \in S => i \in S
    BY <1>3, <1>4, <1>8
  <1>10. \A i \in 0 .. n : i \in S
    <2> HIDE DEF S
    <2> QED BY <1>9, InductionTo
  <1>11. g[n] = x
    <2>1. n - n = 0 /\ n \in 0 .. n /\ x \div 1 = x
      OBVIOUS
    <2>2. g[n] = x \div P[n - n]
      BY <2>1 DEF g
    <2> QED BY <1>2, <2>1, <2>2
  <1>12. c[n] = g[n]
    BY <1>10
  <1> QED BY <1>7, <1>11, <1>12 DEF s

\* The sign.
LEMMA ShownIs ==
    ASSUME NEW s, s \in Seq(Glyph), Len(s) >= 1, s[1] # "-", NEW radix
    PROVE  /\ Shown(s, radix) = Value(s, radix)
           /\ Shown(<<"-">> \o s, radix) = -Value(s, radix)
  <1>1. Head(s) = s[1]
    OBVIOUS
  <1>2. Shown(s, radix) = Value(s, radix)
    BY <1>1 DEF Shown, Value
  <1> DEFINE t == <<"-">> \o s
  <1>3. Head(t) = "-" /\ Tail(t) = s
    OBVIOUS
  <1> HIDE DEF t
  <1>4. Shown(t, radix) = -Value(s, radix)
    BY <1>3 DEF Shown, Value
  <1> QED BY <1>2, <1>4 DEF t

\* The place of the first digit.
LEMMA FirstPlaceIs ==
    ASSUME NEW n \in int
    PROVE  /\ FirstPlace(n) \in 0 .. PLACES
           /\ n <= 0 => FirstPlace(n) = 0
           /\ n > 0 => /\ FirstPlace(n) >= 1
                       /\ n < Ten[FirstPlace(n)]
  <1> DEFINE S == {0} \cup {k \in 1 .. PLACES : Ten[k - 1] <= n}
             T == {PLACES - k : k \in S}
             f == Max(S)
             g == PLACES - Min(T)
  <1>1. /\ INT_MAX \in Nat /\ PLACES \in Nat \ {0} /\ INT_MAX < Ten[PLACES]
        /\ n \in Int /\ n <= INT_MAX
    BY IntAssumption DEF int, INT_MIN
  <1>2. /\ \A k \in 0 .. PLACES : Ten[k] \in Nat \ {0}
        /\ Ten[0] = 1
    BY <1>1, PowersSteps DEF ArePowers, Ten
  <1>3. S \subseteq 0 .. PLACES /\ 0 \in S /\ T \subseteq Nat /\ T # {}
    BY <1>1
  <1>4. g \in S /\ \A k \in S : k <= g
    <2>1. Min(T) \in T /\ \A t \in T : Min(T) <= t
      <3> HIDE DEF T
      <3> QED BY <1>3, LeastIs
    <2> DEFINE m == Min(T)
    <2> HIDE DEF m
    <2>2. PICK k \in S : m = PLACES - k
      BY <2>1 DEF m
    <2>3. \A j \in S : m <= PLACES - j
      BY <2>1 DEF m
    <2>4. g = PLACES - m
      BY DEF m
    <2> HIDE DEF S, T, g
    <2>5. k \in Int /\ \A j \in S : j \in Int
      BY <1>3
    <2>6. g = k
      BY <1>1, <2>2, <2>4, <2>5
    <2> QED BY <1>1, <2>2, <2>3, <2>4, <2>5, <2>6
  <1>5. f \in S /\ \A k \in S : k <= f
    <2>1. \E x \in S : \A y \in S : x >= y
      <3> HIDE DEF S, g
      <3>1. \A k \in S : k \in Int
        BY <1>3
      <3> QED BY <1>4, <3>1
    <2> DEFINE x == CHOOSE x \in S : \A y \in S : x >= y
    <2> HIDE DEF S
    <2>2. x \in S /\ \A y \in S : x >= y
      BY <2>1
    <2>3. f = x
      BY DEF Max
    <2> HIDE DEF x
    <2> QED BY <1>3, <2>2, <2>3
  <1>6. FirstPlace(n) = f
    BY DEF FirstPlace
  <1> HIDE DEF f, g, T
  <1>7. CASE n <= 0
    <2>1. ASSUME NEW k \in 1 .. PLACES PROVE k \notin S
      <3>1. k - 1 \in 0 .. PLACES /\ k # 0
        BY <1>1
      <3>2. Ten[k - 1] \in Nat \ {0}
        BY <1>2, <3>1
      <3> QED BY <1>1, <1>7, <3>1, <3>2
    <2>2. f \in 0 .. PLACES
      BY <1>3, <1>5
    <2> HIDE DEF S
    <2>3. f = 0
      BY <1>1, <1>5, <2>1, <2>2
    <2> QED BY <1>1, <1>6, <1>7, <2>3
  <1>8. CASE n > 0
    <2>1. 1 \in S
      BY <1>1, <1>2, <1>8
    <2>2. f \in 0 .. PLACES /\ f >= 1
      BY <1>3, <1>5, <2>1
    <2>3. n < Ten[f]
      <3>1. CASE f = PLACES
        BY <1>1, <1>2, <3>1
      <3>2. CASE f # PLACES
        <4>1. f + 1 \in 1 .. PLACES /\ (f + 1) - 1 = f /\ f + 1 \notin S
          <5>1. f + 1 \in 1 .. PLACES /\ (f + 1) - 1 = f /\ ~(f + 1 <= f)
            BY <1>1, <2>2, <3>2
          <5> HIDE DEF S
          <5> QED BY <1>5, <5>1
        <4>2. ~(Ten[f] <= n)
          BY <4>1
        <4> QED BY <1>1, <1>2, <2>2, <4>2
      <3> HIDE DEF S
      <3> QED BY <3>1, <3>2
    <2> HIDE DEF S
    <2> QED BY <1>1, <1>6, <1>8, <2>2, <2>3
  <1> QED BY <1>1, <1>7, <1>8

\* The digits of a number, without those of the zeros before it, show it.
LEMMA WrittenShows ==
    ASSUME NEW x \in Nat, NEW base \in {10, 16}, NEW n \in Nat \ {0}, NEW P,
           ArePowers(P, base, n), x < P[n],
           NEW s, s = Written(x, base, P, n)
    PROVE  /\ s \in Seq(Glyph)
           /\ Shown(s, base) = x /\ Shown(<<"-">> \o s, base) = -x
  <1>1. s \in Seq(Glyph) /\ Len(s) = n
    BY WrittenDigits
  <1>2. s[1] # "-"
    <2>1. 1 \in 1 .. n
      OBVIOUS
    <2> QED BY <2>1, WrittenDigit
  <1>3. Value(s, base) = x
    BY ValueIs
  <1>4. Len(s) >= 1
    BY <1>1
  <1> QED BY <1>1, <1>2, <1>3, <1>4, ShownIs

\* Every number in decimal, but the smallest.
LEMMA DecimalShows ==
    ASSUME NEW n \in int
    PROVE  /\ kputd(n).out \in Seq(Glyph)
           /\ kputd(n).ends <=> n # INT_MIN
           /\ n # INT_MIN => Shown(kputd(n).out, 10) = n
  <1> DEFINE m == IF n < 0 THEN Negated(n) ELSE n
             s == IF n = 0 THEN <<"0">> ELSE Digits(m, FirstPlace(m))
             k == IF n = 0 THEN 1 ELSE FirstPlace(m)
  <1>1. /\ INT_MAX \in Nat /\ PLACES \in Nat \ {0} /\ n \in Int
        /\ INT_MIN = -INT_MAX - 1 /\ INT_MIN <= n /\ n <= INT_MAX /\ INT_MIN \in int
    BY IntAssumption DEF int, INT_MIN
  <1>2. /\ kputd(n).out = (IF n < 0 THEN <<"-">> ELSE <<>>) \o s
        /\ kputd(n).ends <=> m >= 0
    BY DEF kputd
  <1>3. m \in int /\ (n = INT_MIN => m = INT_MIN)
        /\ (n # INT_MIN => m \in Nat /\ n = IF n < 0 THEN -m ELSE m)
    BY <1>1 DEF Negated, int, INT_MIN
  <1>4. ArePowers(Ten, 10, PLACES)
    BY <1>1, PowersSteps DEF Ten
  <1> HIDE DEF m
  <1>5. CASE n = INT_MIN
    <2>1. m < 0 /\ n < 0 /\ m = INT_MIN
      BY <1>1, <1>3, <1>5
    <2>2. FirstPlace(m) = 0
      BY <1>3, <2>1, <1>1, FirstPlaceIs
    <2>3. s = <<>>
      <3>1. \A i \in 1 .. 0 : FALSE
        OBVIOUS
      <3> QED BY <1>1, <2>1, <2>2, <3>1 DEF Digits
    <2> HIDE DEF s
    <2>4. "-" \in Glyph
      BY DEF Glyph
    <2>5. kputd(n).out = <<"-">> \o s
      BY <1>2, <2>1
    <2>6. <<"-">> \in Seq(Glyph) /\ s \in Seq(Glyph)
      BY <2>3, <2>4
    <2>7. kputd(n).out \in Seq(Glyph)
      BY <2>5, <2>6
    <2>8. ~kputd(n).ends
      BY <1>1, <1>2, <2>1
    <2> QED BY <1>5, <2>7, <2>8
  <1>6. CASE n # INT_MIN
    <2>1. m \in Nat /\ n = (IF n < 0 THEN -m ELSE m)
      BY <1>3, <1>6
    <2>2. k \in Nat \ {0} /\ k <= PLACES /\ m < Ten[k]
      <3>1. CASE n = 0
        <4>1. 1 \in 1 .. PLACES /\ m = 0
          BY <1>1, <2>1, <3>1
        <4>2. Ten[1] \in Nat \ {0}
          BY <1>1, <1>4, <4>1 DEF ArePowers
        <4> QED BY <1>1, <3>1, <4>1, <4>2
      <3>2. CASE n # 0
        <4>1. m > 0 /\ m \in int
          BY <1>1, <1>3, <2>1, <3>2
        <4>2. FirstPlace(m) \in 0 .. PLACES /\ FirstPlace(m) >= 1 /\ m < Ten[FirstPlace(m)]
          BY <4>1, FirstPlaceIs
        <4> QED BY <1>1, <3>2, <4>2
      <3> QED BY <3>1, <3>2
    <2>3. s = Written(m, 10, Ten, k)
      <3>1. CASE n = 0
        <4>1. m = 0 /\ Ten[0] = 1 /\ k = 1
          BY <2>1, <3>1, <1>4 DEF ArePowers
        <4>2. \A i \in 1 .. 1 : Place(m, 10, Ten[1 - i]) = 0
          BY <4>1 DEF Place
        <4>3. Written(m, 10, Ten, 1) = [i \in 1 .. 1 |-> "0"]
          BY <4>2, DigitsDiffer DEF Written
        <4>4. <<"0">> = [i \in 1 .. 1 |-> "0"]
          OBVIOUS
        <4> QED BY <3>1, <4>1, <4>3, <4>4
      <3>2. CASE n # 0
        BY <3>2 DEF Digits, Written, Digit, Place
      <3> QED BY <3>1, <3>2
    <2>4. ArePowers(Ten, 10, k)
      <3> HIDE DEF k
      <3>1. \A j \in 0 .. k : j \in 0 .. PLACES
        BY <1>1, <2>2
      <3>2. \A j \in 1 .. k : j \in 1 .. PLACES
        BY <1>1, <2>2
      <3> QED BY <1>4, <3>1, <3>2 DEF ArePowers
    <2> HIDE DEF k, s
    <2>5. /\ s \in Seq(Glyph)
          /\ Shown(s, 10) = m /\ Shown(<<"-">> \o s, 10) = -m
      <3>1. m \in Nat /\ 10 \in {10, 16} /\ k \in Nat \ {0} /\ ArePowers(Ten, 10, k)
            /\ m < Ten[k] /\ s = Written(m, 10, Ten, k)
        BY <2>1, <2>2, <2>3, <2>4
      <3> QED BY <3>1, WrittenShows
    <2>6. CASE n < 0
      <3>1. kputd(n).out = <<"-">> \o s /\ <<"-">> \in Seq(Glyph)
        BY <1>2, <2>6 DEF Glyph
      <3>2. <<"-">> \o s \in Seq(Glyph)
        BY <2>5, <3>1
      <3> QED BY <1>2, <1>6, <2>1, <2>5, <2>6, <3>1, <3>2
    <2>7. CASE ~(n < 0)
      <3>1. kputd(n).out = s
        BY <1>2, <2>5, <2>7
      <3> QED BY <1>2, <1>6, <2>1, <2>5, <2>7, <3>1
    <2> QED BY <2>6, <2>7
  <1> QED BY <1>5, <1>6

\* Every number in hexadecimal, as its two's complement.
LEMMA HexadecimalShows ==
    ASSUME NEW n \in Int
    PROVE  /\ kputx(n) \in Seq(Glyph)
           /\ Shown(kputx(n), 16) = n % Sixteen[HEX_DIGITS]
  <1> DEFINE m == Sixteen[HEX_DIGITS]
             x == n % m
  <1>1. HEX_DIGITS \in Nat \ {0}
    BY IntAssumption
  <1>2. ArePowers(Sixteen, 16, HEX_DIGITS)
    BY <1>1, PowersSteps DEF Sixteen
  <1>3. m \in Nat \ {0}
    BY <1>1, <1>2 DEF ArePowers
  <1>4. x \in Nat /\ x < m
    <2> HIDE DEF m
    <2> QED BY <1>3
  <1>5. kputx(n) = Written(x, 16, Sixteen, HEX_DIGITS)
    BY DEF kputx, Written, Digit, Place
  <1> HIDE DEF x
  <1>6. x \in Nat /\ 16 \in {10, 16} /\ HEX_DIGITS \in Nat \ {0}
        /\ ArePowers(Sixteen, 16, HEX_DIGITS) /\ x < Sixteen[HEX_DIGITS]
    BY <1>1, <1>2, <1>4
  <1>7. kputx(n) \in Seq(Glyph) /\ Shown(kputx(n), 16) = x
    BY <1>5, <1>6, WrittenShows
  <1> QED BY <1>7 DEF x

\* What a report consists of.
Text == Glyph \cup {")"}
Consists(out, d, what, e) ==
    /\ out \in Seq(Text) /\ Len(out) = Len(d) + 4 + Len(e)
    /\ out[1] = "name" /\ out[2] = "("
    /\ \A i \in 1 .. Len(d) : out[i + 2] = d[i]
    /\ out[Len(d) + 3] = ")" /\ out[Len(d) + 4] = what
    /\ \A i \in 1 .. Len(e) : out[i + (Len(d) + 4)] = e[i]

\* Two elements, and a sequence after them.
LEMMA AfterTwo ==
    ASSUME NEW S, NEW x \in S, NEW y \in S, NEW d \in Seq(S), NEW a,
           a = ((<<>> \o <<x>>) \o <<y>>) \o d
    PROVE  /\ a \in Seq(S) /\ Len(a) = 2 + Len(d) /\ a[1] = x /\ a[2] = y
           /\ \A i \in 1 .. Len(d) : a[i + 2] = d[i]
  <1> DEFINE xy == <<x>> \o <<y>>
  <1>1. xy = <<x, y>>
    <2>1. xy \in Seq(S) /\ Len(xy) = 2 /\ xy[1] = x /\ xy[2] = y
      OBVIOUS
    <2>2. <<x, y>> \in Seq(S) /\ Len(<<x, y>>) = 2
      OBVIOUS
    <2>3. \A i \in 1 .. 2 : i = 1 \/ i = 2
      OBVIOUS
    <2> HIDE DEF xy
    <2>4. \A i \in 1 .. Len(xy) : xy[i] = <<x, y>>[i]
      BY <2>1, <2>3
    <2> QED BY <2>1, <2>2, <2>4, SeqEqual
  <1>2. <<>> \o <<x>> = <<x>>
    OBVIOUS
  <1>3. a = <<x, y>> \o d
    BY <1>1, <1>2
  <1>4. a \in Seq(S) /\ Len(a) = 2 + Len(d)
    BY <1>3
  <1>5. a[1] = x /\ a[2] = y
    BY <1>3
  <1>6. \A i \in 1 .. Len(d) : a[i + 2] = d[i]
    BY <1>3
  <1> QED BY <1>4, <1>5, <1>6

\* What is put together consists of it.
LEMMA ReportConsists ==
    ASSUME NEW d \in Seq(Glyph), NEW e \in Seq(Glyph), NEW what \in {"exited", "GPF"}
    PROVE  Consists((((((<<>> \o <<"name">>) \o <<"(">>) \o d) \o <<")">>) \o <<what>>) \o e,
                    d, what, e)
  <1> DEFINE a1 == <<>> \o <<"name">>
             a2 == a1 \o <<"(">>
             a3 == a2 \o d
             a4 == a3 \o <<")">>
             a5 == a4 \o <<what>>
             a6 == a5 \o e
  <1>1. /\ Len(d) \in Nat /\ Len(e) \in Nat /\ d \in Seq(Text) /\ e \in Seq(Text)
        /\ {"name", "(", ")", what} \subseteq Text
    BY DEF Text, Glyph
  <1>2. /\ a3 \in Seq(Text) /\ Len(a3) = 2 + Len(d) /\ a3[1] = "name" /\ a3[2] = "("
        /\ \A i \in 1 .. Len(d) : a3[i + 2] = d[i]
    BY <1>1, AfterTwo
  <1>3. a3 \in Seq(Text) /\ Len(a3) = Len(d) + 2
    BY <1>1, <1>2
  <1> HIDE DEF a3
  <1>4. /\ a4 \in Seq(Text) /\ Len(a4) = Len(d) + 3 /\ a4[Len(d) + 3] = ")"
        /\ \A i \in 1 .. Len(d) + 2 : a4[i] = a3[i]
    BY <1>1, <1>3 DEF a4
  <1> HIDE DEF a4
  <1>5. /\ a5 \in Seq(Text) /\ Len(a5) = Len(d) + 4 /\ a5[Len(d) + 4] = what
        /\ \A i \in 1 .. Len(d) + 3 : a5[i] = a4[i]
    BY <1>1, <1>4 DEF a5
  <1> HIDE DEF a5
  <1>6. /\ a6 \in Seq(Text) /\ Len(a6) = Len(d) + 4 + Len(e)
        /\ \A i \in 1 .. Len(d) + 4 : a6[i] = a5[i]
        /\ \A i \in 1 .. Len(e) : a6[i + (Len(d) + 4)] = e[i]
    BY <1>1, <1>5 DEF a6
  <1> HIDE DEF a6
  <1>7. /\ \A i \in 1 .. Len(d) + 2 : a6[i] = a3[i]
        /\ a6[Len(d) + 3] = ")" /\ a6[Len(d) + 4] = what
    BY <1>1, <1>4, <1>5, <1>6
  <1>8. a6[1] = "name" /\ a6[2] = "(" /\ \A i \in 1 .. Len(d) : a6[i + 2] = d[i]
    BY <1>1, <1>2, <1>7
  <1>9. Consists(a6, d, what, e)
    BY <1>6, <1>7, <1>8 DEF Consists
  <1> QED BY <1>9 DEF a1, a2, a3, a4, a5, a6

\* Where the parts of a report are.
LEMMA ReportParts ==
    ASSUME NEW d \in Seq(Glyph), NEW e \in Seq(Glyph), NEW what \in {"exited", "GPF"},
           NEW out, Consists(out, d, what, e),
           NEW close, close = CHOOSE i \in DOMAIN out : out[i] = ")"
    PROVE  /\ SubSeq(out, 3, close - 1) = d
           /\ out[close + 1] = what
           /\ SubSeq(out, close + 2, Len(out)) = e
  <1> DEFINE k == Len(d)
             l == Len(e)
  <1>1. /\ k \in Nat /\ l \in Nat /\ d \in Seq(Text) /\ e \in Seq(Text)
        /\ \A i \in 1 .. k : d[i] \in Glyph
        /\ \A i \in 1 .. l : e[i] \in Glyph
    BY DEF Text
  <1>2. {"name", "(", what} \subseteq Glyph /\ ")" \notin Glyph
    BY DigitsDiffer DEF Glyph
  <1>3. /\ out \in Seq(Text) /\ Len(out) = k + 4 + l /\ DOMAIN out = 1 .. k + 4 + l
        /\ out[1] = "name" /\ out[2] = "("
        /\ \A i \in 1 .. k : out[i + 2] = d[i]
        /\ out[k + 3] = ")" /\ out[k + 4] = what
        /\ \A i \in 1 .. l : out[i + (k + 4)] = e[i]
    BY DEF Consists
  <1>4. close = k + 3
    <2>1. k + 3 \in DOMAIN out /\ out[k + 3] = ")"
      BY <1>1, <1>3
    <2>2. close \in DOMAIN out /\ out[close] = ")"
      BY <2>1
    <2> HIDE DEF k, l
    <2>3. ASSUME NEW i \in DOMAIN out, i # k + 3 PROVE out[i] \in Glyph
      <3>1. i \in 1 .. k + 4 + l
        BY <1>3
      <3>2. CASE i \in {1, 2}
        BY <1>2, <1>3, <3>2
      <3>3. CASE i \in 3 .. k + 2
        <4> DEFINE j == i - 2
        <4>1. j \in 1 .. k /\ i = j + 2
          BY <1>1, <3>3
        <4> HIDE DEF j
        <4>2. out[i] = d[j]
          BY <1>3, <4>1
        <4> QED BY <1>1, <4>1, <4>2
      <3>4. CASE i = k + 4
        BY <1>2, <1>3, <3>4
      <3>5. CASE i > k + 4
        <4> DEFINE j == i - (k + 4)
        <4>1. j \in 1 .. l /\ i = j + (k + 4)
          BY <1>1, <3>1, <3>5
        <4> HIDE DEF j
        <4>2. out[i] = e[j]
          BY <1>3, <4>1
        <4> QED BY <1>1, <4>1, <4>2
      <3>6. i \in {1, 2} \/ i \in 3 .. k + 2 \/ i = k + 4 \/ i > k + 4
        BY <1>1, <2>3, <3>1
      <3> QED BY <3>2, <3>3, <3>4, <3>5, <3>6
    <2> QED BY <1>2, <2>2, <2>3
  <1> HIDE DEF k, l
  <1>5. /\ close - 1 = k + 2 /\ close + 1 = k + 4 /\ close + 2 = k + 5
    <2>1. \A c : c = k + 3 => c - 1 = k + 2 /\ c + 1 = k + 4 /\ c + 2 = k + 5
      BY <1>1
    <2> QED BY <1>4, <2>1, Zenon
  <1>6. SubSeq(out, 3, k + 2) = d
    <2> DEFINE ss == SubSeq(out, 3, k + 2)
    <2>1. ss \in Seq(Text) /\ Len(ss) = k /\ \A i \in 1 .. k : ss[i] = out[i + 2]
      BY <1>1, <1>3
    <2> HIDE DEF ss
    <2>2. Len(ss) = Len(d) /\ \A i \in 1 .. Len(ss) : ss[i] = d[i]
      BY <1>3, <2>1 DEF k
    <2>3. ss = d
      BY <1>1, <2>1, <2>2, SeqEqual
    <2> QED BY <2>3 DEF ss
  <1>7. SubSeq(out, k + 5, k + 4 + l) = e
    <2> DEFINE ss == SubSeq(out, k + 5, k + 4 + l)
    <2>1. ss \in Seq(Text) /\ Len(ss) = l /\ \A i \in 1 .. l : ss[i] = out[i + (k + 4)]
      BY <1>1, <1>3
    <2> HIDE DEF ss
    <2>2. Len(ss) = Len(e) /\ \A i \in 1 .. Len(ss) : ss[i] = e[i]
      BY <1>3, <2>1 DEF l
    <2>3. ss = e
      BY <1>1, <2>1, <2>2, SeqEqual
    <2> QED BY <2>3 DEF ss
  <1> QED BY <1>3, <1>5, <1>6, <1>7

\* The state of kprintf, and what an item of the format takes.
State(out, used, ends) == [out |-> out, ends |-> ends, used |-> used]
Takes(item) == item \in {"%d", "%x", "%s"}
NextUsed(used) == used + 1
NextArg(args, used) == args[used + 1]

\* A character is printed as it is.
LEMMA CharPrinted ==
    ASSUME NEW out, NEW used, NEW item, NEW args, ~Takes(item)
    PROVE  PrintItem(State(out, used, TRUE), item, args) = State(out \o <<item>>, used, TRUE)
  <1> DEFINE r == State(out, used, TRUE)
             c == Convert(item, item)
  <1>1. c.out = <<item>> /\ c.ends = TRUE
    BY DEF Convert, Takes
  <1>2. r.out = out /\ r.used = used /\ r.ends = TRUE
    BY DEF State
  <1>3. PrintItem(r, item, args) =
           IF ~r.ends THEN r ELSE [out |-> r.out \o c.out, ends |-> c.ends, used |-> r.used]
    BY DEF PrintItem, Takes
  <1> HIDE DEF r, c
  <1>4. PrintItem(r, item, args) = [out |-> out \o <<item>>, ends |-> TRUE, used |-> used]
    BY <1>1, <1>2, <1>3
  <1> QED BY <1>4 DEF State, r

\* A conversion prints the next argument.
LEMMA ArgPrinted ==
    ASSUME NEW out, NEW used, NEW item, NEW args, Takes(item)
    PROVE  PrintItem(State(out, used, TRUE), item, args) =
               State(out \o Convert(item, NextArg(args, used)).out, NextUsed(used),
                     Convert(item, NextArg(args, used)).ends)
  <1> DEFINE r == State(out, used, TRUE)
             c == Convert(item, NextArg(args, used))
             d == Convert(item, NextArg(args, r.used))
  <1>1. r.out = out /\ r.used = used /\ r.ends = TRUE
    BY DEF State
  <1>2. PrintItem(r, item, args) =
           IF ~r.ends THEN r
           ELSE [out |-> r.out \o d.out, ends |-> d.ends, used |-> NextUsed(r.used)]
    BY DEF PrintItem, Takes, NextUsed, NextArg
  <1>3. d = c
    BY <1>1
  <1> HIDE DEF r, c, d
  <1>4. PrintItem(r, item, args) =
           [out |-> out \o c.out, ends |-> c.ends, used |-> NextUsed(used)]
    BY <1>1, <1>2, <1>3
  <1> QED BY <1>4 DEF State, r, c

\* The line that is printed.
LEMMA SaidIs ==
    ASSUME NEW p, NEW n, NEW what \in {"exited", "GPF"}, NEW conversion \in {"%d", "%x"},
           kputd(p).ends
    PROVE  /\ Said("name", p, what, conversion, n).out =
                 (((((<<>> \o <<"name">>) \o <<"(">>) \o kputd(p).out) \o <<")">>)
                     \o <<what>>) \o Convert(conversion, n).out
           /\ Said("name", p, what, conversion, n).ends <=> Convert(conversion, n).ends
  <1> DEFINE said == Said("name", p, what, conversion, n)
             last == Convert(conversion, n)
             format == <<"%s", "(", "%d", ")", what, conversion>>
             args == <<<<"name">>, p, n>>
             o0 == <<>>
             o1 == o0 \o <<"name">>
             o2 == o1 \o <<"(">>
             o3 == o2 \o kputd(p).out
             o4 == o3 \o <<")">>
             o5 == o4 \o <<what>>
             o6 == o5 \o last.out
             F(f) == [i \in 0 .. Len(format) |->
                         IF i = 0 THEN [out |-> <<>>, used |-> 0, ends |-> TRUE]
                         ELSE PrintItem(f[i - 1], format[i], args)]
             c == CHOOSE f : f = F(f)
             g == [i \in 0 .. 6 |->
                      CASE i = 0 -> State(<<>>, 0, TRUE) [] i = 1 -> State(o1, 1, TRUE)
                        [] i = 2 -> State(o2, 1, TRUE)   [] i = 3 -> State(o3, 2, TRUE)
                        [] i = 4 -> State(o4, 2, TRUE)   [] i = 5 -> State(o5, 2, TRUE)
                        [] i = 6 -> State(o6, 3, last.ends)]
  <1>1. kputd(p).ends = TRUE
    BY DEF kputd
  <1>2. NextArg(args, 0) = <<"name">> /\ NextArg(args, 1) = p /\ NextArg(args, 2) = n
    BY DEF NextArg
  <1> HIDE DEF args
  <1>3. NextUsed(0) = 1 /\ NextUsed(1) = 2 /\ NextUsed(2) = 3
    BY DEF NextUsed
  <1>4. /\ Takes("%s") /\ Takes("%d") /\ Takes(conversion)
        /\ ~Takes("(") /\ ~Takes(")") /\ ~Takes(what)
    BY DEF Takes
  <1>5. PrintItem(State(o0, 0, TRUE), "%s", args) = State(o1, 1, TRUE)
    <2> DEFINE d == Convert("%s", NextArg(args, 0))
    <2>1. d.out = <<"name">> /\ d.ends = TRUE
      BY <1>2 DEF Convert
    <2> HIDE DEF o0
    <2>2. PrintItem(State(o0, 0, TRUE), "%s", args) = State(o0 \o d.out, NextUsed(0), d.ends)
      BY <1>4, ArgPrinted
    <2> HIDE DEF d
    <2> QED BY <1>3, <2>1, <2>2
  <1> HIDE DEF o1
  <1>6. PrintItem(State(o1, 1, TRUE), "(", args) = State(o2, 1, TRUE)
    BY <1>4, CharPrinted
  <1> HIDE DEF o2
  <1>7. PrintItem(State(o2, 1, TRUE), "%d", args) = State(o3, 2, TRUE)
    <2> DEFINE d == Convert("%d", NextArg(args, 1))
    <2>1. d = kputd(p)
      BY <1>2 DEF Convert
    <2>2. PrintItem(State(o2, 1, TRUE), "%d", args) = State(o2 \o d.out, NextUsed(1), d.ends)
      BY <1>4, ArgPrinted
    <2> HIDE DEF d
    <2> QED BY <1>1, <1>3, <2>1, <2>2
  <1> HIDE DEF o3
  <1>8. PrintItem(State(o3, 2, TRUE), ")", args) = State(o4, 2, TRUE)
    BY <1>4, CharPrinted
  <1> HIDE DEF o4
  <1>9. PrintItem(State(o4, 2, TRUE), what, args) = State(o5, 2, TRUE)
    BY <1>4, CharPrinted
  <1> HIDE DEF o5
  <1>10. PrintItem(State(o5, 2, TRUE), conversion, args) = State(o6, 3, last.ends)
    <2> DEFINE d == Convert(conversion, NextArg(args, 2))
    <2>1. d = last
      BY <1>2
    <2>2. PrintItem(State(o5, 2, TRUE), conversion, args)
             = State(o5 \o d.out, NextUsed(2), d.ends)
      BY <1>4, ArgPrinted
    <2> HIDE DEF d
    <2> QED BY <1>3, <2>1, <2>2
  <1> HIDE DEF o6
  <1>11. Len(format) = 6 /\ format[1] = "%s" /\ format[2] = "(" /\ format[3] = "%d"
        /\ format[4] = ")" /\ format[5] = what /\ format[6] = conversion
    OBVIOUS
  <1> HIDE DEF format
  <1>12. /\ g[0] = State(o0, 0, TRUE) /\ g[1] = State(o1, 1, TRUE)
        /\ g[2] = State(o2, 1, TRUE) /\ g[3] = State(o3, 2, TRUE)
        /\ g[4] = State(o4, 2, TRUE) /\ g[5] = State(o5, 2, TRUE)
        /\ g[6] = State(o6, 3, last.ends)
    OBVIOUS
  <1>13. g = [i \in 0 .. 6 |-> g[i]]
    OBVIOUS
  <1> HIDE DEF g
  <1>14. \A i \in 1 .. 6 : g[i] = PrintItem(g[i - 1], format[i], args)
    <2>1. g[1] = PrintItem(g[0], format[1], args) /\ g[2] = PrintItem(g[1], format[2], args)
      BY <1>5, <1>6, <1>11, <1>12
    <2>2. g[3] = PrintItem(g[2], format[3], args) /\ g[4] = PrintItem(g[3], format[4], args)
      BY <1>7, <1>8, <1>11, <1>12
    <2>3. g[5] = PrintItem(g[4], format[5], args) /\ g[6] = PrintItem(g[5], format[6], args)
      BY <1>9, <1>10, <1>11, <1>12
    <2> QED BY <2>1, <2>2, <2>3
  <1>15. g = F(g)
    BY <1>11, <1>14, <1>12, <1>13 DEF State
  <1>16. c = F(c)
    <2> HIDE DEF F
    <2> QED BY <1>15
  <1>17. said = c[6]
    BY <1>11 DEF Said, kprintf, format, args
  <1> HIDE DEF c
  <1>18. c[0] = g[0] /\ \A i \in 1 .. 6 : c[i] = PrintItem(c[i - 1], format[i], args)
    <2>1. \A i \in 0 .. 6 : c[i] = F(c)[i]
      BY <1>16
    <2> QED BY <1>11, <1>12, <2>1 DEF State
  <1>19. c[6] = g[6]
    <2>1. c[1] = g[1] /\ c[2] = g[2] /\ c[3] = g[3]
      BY <1>14, <1>18
    <2> QED BY <1>14, <1>18, <2>1
  <1>20. said.out = o6 /\ (said.ends <=> last.ends)
    BY <1>12, <1>17, <1>19 DEF State
  <1> QED BY <1>20 DEF o0, o1, o2, o3, o4, o5, o6

-----------------------------------------------------------------------------
(* The reports. *)

\* A report was printed for a process, and the system goes on unless the printing has
\* not ended.
Reported(p, what, conversion, n) ==
    LET said == Said("name", p, what, conversion, n) IN
    /\ report = [proc |-> p, number |-> n, out |-> said.out]
    /\ halted = "spin" <=> ~said.ends
Formats == {<<"exited", "%d">>, <<"GPF", "%x">>}
ReportInv ==
    report # NoReport =>
        \E p \in Proc, n \in int, format \in Formats : Reported(p, format[1], format[2], n)

\* The end of a process.
LEMMA EndReported ==
    ASSUME NEW p \in Proc, NEW n \in int, NEW what, NEW conversion,
           <<what, conversion>> \in Formats, EndReport(p, what, conversion, n)
    PROVE  ReportInv'
  <1>1. Reported(p, what, conversion, n)'
    BY DEF EndReport, Reported
  <1> DEFINE format == <<what, conversion>>
  <1>2. format[1] = what /\ format[2] = conversion /\ format \in Formats
    OBVIOUS
  <1> HIDE DEF format
  <1>3. Reported(p, format[1], format[2], n)'
    BY <1>1, <1>2
  <1> QED BY <1>2, <1>3 DEF ReportInv

\* Nothing is reported, or nothing changes.
LEMMA NothingReported ==
    ASSUME ReportInv,
           \/ report' = NoReport
           \/ /\ report' = report
              /\ halted' = halted \/ (halted = "no" /\ halted' # "spin")
    PROVE  ReportInv'
  <1>1. NoReport' = NoReport
    BY DEF NoReport
  <1> SUFFICES ASSUME report' # NoReport
               PROVE  \E p \in Proc, n \in int, format \in Formats :
                         Reported(p, format[1], format[2], n)'
    BY <1>1 DEF ReportInv
  <1>2. PICK p \in Proc, n \in int, format \in Formats :
           Reported(p, format[1], format[2], n)
    BY DEF ReportInv
  <1>3. report' = report /\ (halted' = "spin" <=> halted = "spin")
    OBVIOUS
  <1>4. Reported(p, format[1], format[2], n)'
    BY <1>2, <1>3 DEF Reported
  <1> QED BY <1>4

\* Every step of the session is one or the other.
LEMMA ReportStep ==
    ASSUME ReportInv, [SessionNext]_sessionVars
    PROVE  ReportInv'
  <1>1. CASE UNCHANGED sessionVars
    BY <1>1, NothingReported DEF sessionVars, loaderVars
  <1>2. CASE Boots
    BY <1>2, NothingReported DEF Boots, loaderVars
  <1>3. CASE SystemStarts
    BY <1>3, NothingReported DEF SystemStarts, loaderVars
  <1>4. CASE Reads
    BY <1>4, NothingReported DEF Reads
  <1>5. CASE Decodes
    BY <1>5, NothingReported DEF Decodes
  <1>6. CASE ShellExits
    <2>1. 0 \in int
      BY IntAssumption DEF int, INT_MIN
    <2>2. EndReport(SHELL, "exited", "%d", 0)
      BY <1>6 DEF ShellExits, Exits
    <2>3. <<"exited", "%d">> \in Formats
      BY DEF Formats
    <2> QED BY <2>1, <2>2, <2>3, ShellIs3, EndReported
  <1>7. CASE ShellForks
    BY <1>7, NothingReported DEF ShellForks, Forks
  <1>8. CASE ShellExecs
    BY <1>8, NothingReported DEF ShellExecs
  <1>9. CASE SystemLoads
    <2>1. report' = report /\ halted = "no"
      BY <1>9 DEF SystemLoads
    <2>2. halted' # "spin"
      BY <1>9 DEF SystemLoads, Loads, ReadHeader, ReadRecord, ReadEntry, ReadTyped,
                  Replace, Install, NoMemory, Fails
    <2> QED BY <2>1, <2>2, NothingReported
  <1>10. CASE ShellGoesOn
    BY <1>10, NothingReported DEF ShellGoesOn
  <1>11. CASE ProgramAsks
    <2>1. PICK p \in Proc :
             \/ Allocates(p)
             \/ \E o \in Proc : HasImage(o) /\ Forks(o)
             \/ \E code \in ExitCodes : Exits(p, code) \/ Faults(p, code)
      BY <1>11 DEF ProgramAsks
    <2>2. CASE Allocates(p)
      BY <2>2, NothingReported DEF Allocates
    <2>3. CASE \E o \in Proc : HasImage(o) /\ Forks(o)
      BY <2>3, NothingReported DEF Forks
    <2>4. CASE \E code \in ExitCodes : Exits(p, code) \/ Faults(p, code)
      <3>1. PICK code \in ExitCodes : Exits(p, code) \/ Faults(p, code)
        BY <2>4
      <3>2. code \in int
        BY SessionAssumption
      <3>3. \/ EndReport(p, "exited", "%d", code)
            \/ EndReport(p, "GPF", "%x", code)
        BY <3>1 DEF Exits, Faults
      <3>4. <<"exited", "%d">> \in Formats /\ <<"GPF", "%x">> \in Formats
        BY DEF Formats
      <3> QED BY <3>2, <3>3, <3>4, EndReported
    <2> QED BY <2>1, <2>2, <2>3, <2>4
  <1> QED BY <1>1, <1>2, <1>3, <1>4, <1>5, <1>6, <1>7, <1>8, <1>9, <1>10, <1>11
          DEF SessionNext

\* What is reported is what a reader of the line makes of it.
LEMMA ReportTells == ReportInv => ReportTellsTheEnd
  <1> SUFFICES ASSUME ReportInv, report # NoReport PROVE ReportTellsTheEnd
    BY DEF ReportTellsTheEnd
  <1>1. PICK p \in Proc, n \in int, format \in Formats :
           Reported(p, format[1], format[2], n)
    BY DEF ReportInv
  <1> DEFINE what == format[1]
             conversion == format[2]
             said == Said("name", p, what, conversion, n)
             last == Convert(conversion, n)
             out == report.out
             close == CHOOSE i \in DOMAIN out : out[i] = ")"
             shown == SubSeq(out, close + 2, Len(out))
             d == kputd(p).out
             e == last.out
  <1>2. \/ what = "exited" /\ conversion = "%d"
        \/ what = "GPF" /\ conversion = "%x"
    BY DEF Formats
  <1>3. /\ report.proc = p /\ report.number = n /\ out = said.out
        /\ halted = "spin" <=> ~said.ends
    BY <1>1 DEF Reported
  <1>4. p \in int /\ p # INT_MIN /\ n \in Int
    BY SessionAssumption, IntAssumption DEF Proc, int, INT_MIN
  <1>5. kputd(p).ends /\ d \in Seq(Glyph) /\ Shown(d, 10) = p
    BY <1>4, DecimalShows
  <1>6. e \in Seq(Glyph)
    <2>1. CASE conversion = "%d"
      BY <2>1, DecimalShows DEF Convert
    <2>2. CASE conversion = "%x"
      BY <1>4, <2>2, HexadecimalShows DEF Convert
    <2> QED BY <1>2, <2>1, <2>2
  <1>7. /\ said.out = (((((<<>> \o <<"name">>) \o <<"(">>) \o kputd(p).out) \o <<")">>)
                             \o <<what>>) \o last.out
        /\ said.ends <=> last.ends
    <2>1. what \in {"exited", "GPF"} /\ conversion \in {"%d", "%x"}
      BY <1>2
    <2> HIDE DEF what, conversion
    <2> QED BY <1>5, <2>1, SaidIs
  <1> HIDE DEF what, conversion, said, last, d
  <1>8. Consists(out, d, what, e)
    <2>1. what \in {"exited", "GPF"}
      BY <1>2
    <2> HIDE DEF e, out
    <2> QED BY <1>3, <1>5, <1>6, <1>7, <2>1, ReportConsists DEF d, e
  <1>9. /\ SubSeq(out, 3, close - 1) = d
        /\ out[close + 1] = what
        /\ shown = e
    <2>1. what \in {"exited", "GPF"} /\ close = CHOOSE i \in DOMAIN out : out[i] = ")"
      BY <1>2
    <2> HIDE DEF e, out, close
    <2> QED BY <1>5, <1>6, <1>8, <2>1, ReportParts
  <1>10. ReportTellsTheEnd <=>
            /\ Shown(d, 10) = p
            /\ IF what = "GPF" THEN Shown(e, 16) = n % Sixteen[HEX_DIGITS]
               ELSE IF halted = "spin" THEN n = INT_MIN
               ELSE Shown(e, 10) = n
    BY <1>3, <1>9 DEF ReportTellsTheEnd
  <1> HIDE DEF out, close, shown
  <1>11. CASE what = "GPF"
    <2>1. e = kputx(n)
      BY <1>2, <1>11 DEF last, Convert
    <2> QED BY <1>4, <1>5, <1>10, <1>11, <2>1, HexadecimalShows
  <1>12. CASE what = "exited"
    <2>1. last = kputd(n)
      BY <1>2, <1>12 DEF last, Convert
    <2>2. /\ halted = "spin" <=> n = INT_MIN
          /\ n # INT_MIN => Shown(e, 10) = n
      BY <1>3, <1>7, <2>1, DecimalShows
    <2> QED BY <1>5, <1>10, <1>12, <2>2
  <1> QED BY <1>2, <1>11, <1>12

\* The report of an end tells which process ended and the number it gave, for every
\* int and every process: only the smallest int is not shown, and it is never printed
\* to the end.
THEOREM ReportsTell == SessionSpec => []ReportTellsTheEnd
  <1>1. SessionInit => ReportInv
    BY DEF SessionInit, ReportInv
  <1>2. ReportInv /\ [SessionNext]_sessionVars => ReportInv'
    BY ReportStep
  <1> QED BY <1>1, <1>2, ReportTells, PTL DEF SessionSpec
=============================================================================
