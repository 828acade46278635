---------------------------- MODULE LoaderProofs ----------------------------
(***************************************************************************)
(* What is proved of Session about loading a program, for every set of     *)
(* programs and every damage a file may suffer on its way: what the        *)
(* checksums notice, that a load is whole or stops where the file was      *)
(* damaged, and that the loader and gen_bin_code agree.  LoadInv says how  *)
(* far the loader has read and what it has made of the lines.              *)
(***************************************************************************)
EXTENDS MemoryProofs

-----------------------------------------------------------------------------
(* Functions defined by recursion: sums, numbers, sequences put together. *)

\* A recursive definition over the numbers from 0 to m has a solution.
LEMMA Recursion ==
    ASSUME NEW V, NEW base \in V, NEW m \in Nat, NEW step \in [1 .. m -> [V -> V]]
    PROVE  \E f \in [0 .. m -> V] :
              f[0] = base /\ \A n \in 1 .. m : f[n] = step[n][f[n - 1]]
  <1> DEFINE Up(f, n) == /\ f \in [0 .. n -> V] /\ f[0] = base
                         /\ \A i \in 1 .. n : f[i] = step[i][f[i - 1]]
             S == {n \in Nat : n <= m => \E f : Up(f, n)}
  <1>1. 0 \in S
    <2>1. Up([i \in 0 .. 0 |-> base], 0)
      OBVIOUS
    <2> QED BY <2>1
  <1>2. ASSUME NEW n \in Nat, n \in S PROVE n + 1 \in S
    <2> SUFFICES ASSUME n + 1 <= m PROVE \E f : Up(f, n + 1)
      OBVIOUS
    <2>1. PICK f : Up(f, n)
      BY <1>2
    <2> DEFINE g == [i \in 0 .. n + 1 |-> IF i = n + 1 THEN step[n + 1][f[n]] ELSE f[i]]
    <2>2. f[n] \in V /\ n + 1 \in 1 .. m
      BY <2>1
    <2>3. step[n + 1][f[n]] \in V
      BY <2>2
    <2>4. \A i \in 0 .. n : g[i] = f[i] /\ f[i] \in V
      BY <2>1
    <2>5. g[n + 1] = step[n + 1][f[n]] /\ (n + 1) - 1 = n
      OBVIOUS
    <2>6. g \in [0 .. n + 1 -> V]
      BY <2>1, <2>3
    <2> HIDE DEF g
    <2>7. ASSUME NEW i \in 1 .. n + 1 PROVE g[i] = step[i][g[i - 1]]
      <3>1. CASE i = n + 1
        BY <2>4, <2>5, <3>1
      <3>2. CASE i \in 1 .. n
        BY <2>1, <2>4, <3>2
      <3> QED BY <3>1, <3>2
    <2> QED BY <2>1, <2>4, <2>6, <2>7
  <1> HIDE DEF S
  <1>3. m \in S
    BY <1>1, <1>2, Induction
  <1>4. PICK f : Up(f, m)
    BY <1>3 DEF S
  <1> QED BY <1>4

\* Induction up to a bound.
LEMMA InductionTo ==
    ASSUME NEW m \in Nat, NEW S, 0 \in S, \A n \in 1 .. m : n - 1 \in S => n \in S
    PROVE  \A n \in 0 .. m : n \in S
  <1> DEFINE T == {n \in Nat : n <= m => n \in S}
  <1>1. 0 \in T
    OBVIOUS
  <1>2. ASSUME NEW n \in Nat, n \in T PROVE n + 1 \in T
    <2> SUFFICES ASSUME n + 1 <= m PROVE n + 1 \in S
      OBVIOUS
    <2>1. n \in S /\ n + 1 \in 1 .. m /\ (n + 1) - 1 = n
      BY <1>2
    <2> QED BY <2>1
  <1> HIDE DEF T
  <1>3. Nat \subseteq T
    BY <1>1, <1>2, Induction
  <1> QED BY <1>3 DEF T

\* The sum of a sequence of numbers, ...
LEMMA TotalSteps ==
    \A s \in Seq(Nat) :
       \E f \in [0 .. Len(s) -> Nat] :
          /\ f[0] = 0 /\ \A n \in 1 .. Len(s) : f[n] = f[n - 1] + s[n]
          /\ Total(s) = f[Len(s)]
  <1>0. SUFFICES ASSUME NEW s, s \in Seq(Nat)
                 PROVE  \E f \in [0 .. Len(s) -> Nat] :
                          /\ f[0] = 0
                          /\ \A n \in 1 .. Len(s) : f[n] = f[n - 1] + s[n]
                          /\ Total(s) = f[Len(s)]
    OBVIOUS
  <1> DEFINE V == Nat
             m == Len(s)
             step == [n \in 1 .. m |-> [v \in V |-> v + s[n]]]
  <1>1. m \in Nat /\ 0 \in V /\ step \in [1 .. m -> [V -> V]]
    BY <1>0, ByteAssumption
  <1>2. PICK g \in [0 .. m -> V] :
            g[0] = 0 /\ \A n \in 1 .. m : g[n] = step[n][g[n - 1]]
    <2> HIDE DEF V, m, step
    <2> QED BY <1>1, Recursion
  <1>3. \A n \in 1 .. m : g[n] = g[n - 1] + s[n]
    <2>1. \A n \in 1 .. m : n - 1 \in 0 .. m
      BY <1>1
    <2> HIDE DEF V, m
    <2> QED BY <1>2, <2>1
  <1> DEFINE F(f) == [n \in 0 .. m |-> IF n = 0 THEN 0 ELSE f[n - 1] + s[n]]
             c == CHOOSE f : f = F(f)
  <1>4. g = F(g)
    <2> HIDE DEF V, m, step
    <2> QED BY <1>1, <1>2, <1>3
  <1>5. c = F(c)
    <2> HIDE DEF F
    <2> QED BY <1>4
  <1>6. Total(s) = c[m]
    BY DEF Total
  <1> HIDE DEF c, step
  <1>7. c[0] = 0 /\ \A n \in 1 .. m : c[n] = c[n - 1] + s[n]
    <2>1. m \in Nat
      BY <1>1
    <2> HIDE DEF m
    <2>2. c = [n \in 0 .. m |-> c[n]]
      BY <1>5
    <2>3. \A n \in 0 .. m : c[n] = F(c)[n]
      BY <1>5
    <2> QED BY <2>1, <2>3
  <1> DEFINE S == {n \in 0 .. m : c[n] = g[n]}
  <1>8. 0 \in S /\ \A n \in 1 .. m : n - 1 \in S => n \in S
    <2> HIDE DEF m, V
    <2> QED BY <1>1, <1>2, <1>3, <1>7
  <1>9. \A n \in 0 .. m : n \in S
    <2> HIDE DEF S, m
    <2> QED BY <1>1, <1>8, InductionTo
  <1>10. Total(s) = g[m]
    BY <1>1, <1>6, <1>9
  <1> QED BY <1>2, <1>3, <1>10

\* ... the number its digits spell, ...
LEMMA NumberSteps ==
    \A s \in Seq(Nat) :
       \E f \in [0 .. Len(s) -> Nat] :
          /\ f[0] = 0 /\ \A n \in 1 .. Len(s) : f[n] = f[n - 1] * BYTE + s[n]
          /\ Number(s) = f[Len(s)]
  <1>0. SUFFICES ASSUME NEW s, s \in Seq(Nat)
                 PROVE  \E f \in [0 .. Len(s) -> Nat] :
                          /\ f[0] = 0
                          /\ \A n \in 1 .. Len(s) : f[n] = f[n - 1] * BYTE + s[n]
                          /\ Number(s) = f[Len(s)]
    OBVIOUS
  <1> DEFINE V == Nat
             m == Len(s)
             step == [n \in 1 .. m |-> [v \in V |-> v * BYTE + s[n]]]
  <1>1. m \in Nat /\ 0 \in V /\ step \in [1 .. m -> [V -> V]]
    BY <1>0, ByteAssumption
  <1>2. PICK g \in [0 .. m -> V] :
            g[0] = 0 /\ \A n \in 1 .. m : g[n] = step[n][g[n - 1]]
    <2> HIDE DEF V, m, step
    <2> QED BY <1>1, Recursion
  <1>3. \A n \in 1 .. m : g[n] = g[n - 1] * BYTE + s[n]
    <2>1. \A n \in 1 .. m : n - 1 \in 0 .. m
      BY <1>1
    <2> HIDE DEF V, m
    <2> QED BY <1>2, <2>1
  <1> DEFINE F(f) == [n \in 0 .. m |-> IF n = 0 THEN 0 ELSE f[n - 1] * BYTE + s[n]]
             c == CHOOSE f : f = F(f)
  <1>4. g = F(g)
    <2> HIDE DEF V, m, step
    <2> QED BY <1>1, <1>2, <1>3
  <1>5. c = F(c)
    <2> HIDE DEF F
    <2> QED BY <1>4
  <1>6. Number(s) = c[m]
    BY DEF Number
  <1> HIDE DEF c, step
  <1>7. c[0] = 0 /\ \A n \in 1 .. m : c[n] = c[n - 1] * BYTE + s[n]
    <2>1. m \in Nat
      BY <1>1
    <2> HIDE DEF m
    <2>2. c = [n \in 0 .. m |-> c[n]]
      BY <1>5
    <2>3. \A n \in 0 .. m : c[n] = F(c)[n]
      BY <1>5
    <2> QED BY <2>1, <2>3
  <1> DEFINE S == {n \in 0 .. m : c[n] = g[n]}
  <1>8. 0 \in S /\ \A n \in 1 .. m : n - 1 \in S => n \in S
    <2> HIDE DEF m, V
    <2> QED BY <1>1, <1>2, <1>3, <1>7
  <1>9. \A n \in 0 .. m : n \in S
    <2> HIDE DEF S, m
    <2> QED BY <1>1, <1>8, InductionTo
  <1>10. Number(s) = g[m]
    BY <1>1, <1>6, <1>9
  <1> QED BY <1>2, <1>3, <1>10

\* ... and several sequences put together.
LEMMA FlattenSteps ==
    \A T : \A ss \in Seq(Seq(T)) :
       \E f \in [0 .. Len(ss) -> Seq(T)] :
          /\ f[0] = <<>> /\ \A n \in 1 .. Len(ss) : f[n] = f[n - 1] \o ss[n]
          /\ FlattenSeq(ss) = f[Len(ss)]
  <1>0. SUFFICES ASSUME NEW T, NEW ss, ss \in Seq(Seq(T))
                 PROVE  \E f \in [0 .. Len(ss) -> Seq(T)] :
                          /\ f[0] = <<>>
                          /\ \A n \in 1 .. Len(ss) : f[n] = f[n - 1] \o ss[n]
                          /\ FlattenSeq(ss) = f[Len(ss)]
    OBVIOUS
  <1> DEFINE V == Seq(T)
             m == Len(ss)
             step == [n \in 1 .. m |-> [v \in V |-> v \o ss[n]]]
  <1>1. m \in Nat /\ <<>> \in V /\ \A n \in 1 .. m : ss[n] \in Seq(T)
    BY <1>0
  <1>a. step \in [1 .. m -> [V -> V]]
    BY <1>1
  <1>m. m \in Nat
    BY <1>1
  <1>2. PICK g \in [0 .. m -> V] :
            g[0] = <<>> /\ \A n \in 1 .. m : g[n] = step[n][g[n - 1]]
    <2> HIDE DEF V, m, step
    <2> QED BY <1>1, <1>a, Recursion
  <1>3. \A n \in 1 .. m : g[n] = g[n - 1] \o ss[n]
    <2>1. \A n \in 1 .. m : n - 1 \in 0 .. m
      BY <1>1
    <2> HIDE DEF V, m
    <2> QED BY <1>2, <2>1
  <1>4. CASE m = 0
    <2>1. FlattenSeq(ss) = <<>>
      BY <1>0, <1>4 DEF FlattenSeq
    <2> HIDE DEF m, V
    <2> QED BY <1>2, <1>3, <1>4, <2>1 DEF V, m
  <1>5. CASE m # 0
    <2> DEFINE F(f) == [n \in 1 .. m |-> IF n = 1 THEN ss[n] ELSE f[n - 1] \o ss[n]]
               c == CHOOSE f : f = F(f)
               h == [n \in 1 .. m |-> g[n]]
    <2>0. <<>> \o ss[1] = ss[1]
      BY <1>1, <1>5
    <2>1. h = F(h)
      <3> HIDE DEF V, m, step
      <3>1. \A n \in 1 .. m : n # 1 => h[n] = h[n - 1] \o ss[n]
        <4>1. \A n \in 1 .. m : n # 1 => n - 1 \in 1 .. m
          BY <1>m
        <4>2. \A n \in 1 .. m : h[n] = g[n]
          OBVIOUS
        <4> HIDE DEF h
        <4> QED BY <1>3, <4>1, <4>2
      <3>2. h[1] = ss[1]
        <4>1. 1 \in 1 .. m /\ 1 - 1 = 0
          BY <1>m, <1>5
        <4>2. h[1] = g[1]
          BY <4>1
        <4>3. g[1] = g[0] \o ss[1]
          BY <1>3, <4>1
        <4> HIDE DEF h
        <4> QED BY <1>2, <2>0, <4>2, <4>3
      <3>3. F(h) = [n \in 1 .. m |-> IF n = 1 THEN ss[n] ELSE h[n - 1] \o ss[n]]
        OBVIOUS
      <3> HIDE DEF F
      <3> SUFFICES \A n \in 1 .. m : h[n] = F(h)[n]
        BY <3>3
      <3> HIDE DEF h
      <3> QED BY <3>1, <3>2, <3>3
    <2>2. c = F(c)
      <3> HIDE DEF F
      <3> QED BY <2>1
    <2>3. FlattenSeq(ss) = c[m]
      BY <1>5 DEF FlattenSeq
    <2> HIDE DEF c, step
    <2>4. c[1] = ss[1] /\ \A n \in 1 .. m : n # 1 => c[n] = c[n - 1] \o ss[n]
      <3> HIDE DEF m
      <3>1. 1 \in 1 .. m
        BY <1>m, <1>5
      <3>3. \A n \in 1 .. m : c[n] = F(c)[n]
        BY <2>2
      <3>4. \A n \in 1 .. m :
               F(c)[n] = IF n = 1 THEN ss[n] ELSE c[n - 1] \o ss[n]
        OBVIOUS
      <3> HIDE DEF F
      <3> QED BY <3>1, <3>3, <3>4
    <2> DEFINE S == {n \in 0 .. m : n # 0 => c[n] = g[n]}
    <2>5. 0 \in S
      BY <1>1
    <2>6. ASSUME NEW n \in 1 .. m, n - 1 \in S PROVE n \in S
      <3> HIDE DEF m, V
      <3>1. CASE n = 1
        <4>1. 1 \in 1 .. m /\ 1 - 1 = 0
          BY <1>m, <1>5
        <4>2. g[1] = g[0] \o ss[1]
          BY <1>3, <4>1
        <4>3. c[1] = g[1] /\ 1 \in 0 .. m
          BY <1>2, <1>m, <2>0, <2>4, <4>1, <4>2
        <4> QED BY <3>1, <4>3
      <3>2. CASE n # 1
        <4>1. n - 1 \in 1 .. m /\ c[n - 1] = g[n - 1]
          BY <1>m, <2>6, <3>2
        <4>2. c[n] = g[n]
          <5> HIDE DEF S
          <5> QED BY <1>3, <2>4, <3>2, <4>1
        <4> QED BY <1>m, <4>2
      <3> QED BY <3>1, <3>2
    <2>9. \A n \in 0 .. m : n \in S
      <3> HIDE DEF S, m
      <3> QED BY <1>1, <2>5, <2>6, InductionTo
    <2>10. FlattenSeq(ss) = g[m]
      <3> HIDE DEF m, V
      <3> QED BY <1>1, <1>5, <2>3, <2>9
    <2> QED BY <1>2, <1>3, <2>10
  <1> QED BY <1>4, <1>5

\* The solution at k is what the first k sequences make.
LEMMA FlattenUpTo ==
    ASSUME NEW T, NEW ss \in Seq(Seq(T)), NEW f \in [0 .. Len(ss) -> Seq(T)],
           f[0] = <<>>, \A n \in 1 .. Len(ss) : f[n] = f[n - 1] \o ss[n],
           NEW k \in 0 .. Len(ss), NEW tt \in Seq(Seq(T)), Len(tt) = k,
           \A n \in 1 .. k : tt[n] = ss[n]
    PROVE  FlattenSeq(tt) = f[k]
  <1>1. PICK g \in [0 .. k -> Seq(T)] :
           /\ g[0] = <<>> /\ \A n \in 1 .. k : g[n] = g[n - 1] \o tt[n]
           /\ FlattenSeq(tt) = g[k]
    BY FlattenSteps
  <1> DEFINE S == {n \in 0 .. k : g[n] = f[n]}
  <1>2. 0 \in S /\ k \in Nat
    BY <1>1
  <1>3. ASSUME NEW n \in 1 .. k, n - 1 \in S PROVE n \in S
    <2>1. n \in 1 .. Len(ss) /\ g[n - 1] = f[n - 1] /\ tt[n] = ss[n]
      BY <1>3
    <2>2. g[n] = f[n]
      BY <1>1, <2>1
    <2> QED BY <2>2
  <1>i. \A n \in 1 .. k : n - 1 \in S => n \in S
    BY <1>3
  <1> HIDE DEF S
  <1>4. \A n \in 0 .. k : n \in S
    BY <1>2, <1>i, InductionTo
  <1>5. k \in 0 .. k
    BY <1>2
  <1> QED BY <1>1, <1>4, <1>5 DEF S

\* Putting one more sequence behind the others.
LEMMA FlattenAppend ==
    ASSUME NEW T, NEW ss \in Seq(Seq(T)), NEW t \in Seq(T)
    PROVE  /\ FlattenSeq(<<>>) = <<>> /\ FlattenSeq(ss) \in Seq(T)
           /\ FlattenSeq(Append(ss, t)) = FlattenSeq(ss) \o t
  <1>1. FlattenSeq(<<>>) = <<>>
    BY DEF FlattenSeq
  <1>2. PICK f \in [0 .. Len(ss) -> Seq(T)] :
           /\ f[0] = <<>> /\ \A n \in 1 .. Len(ss) : f[n] = f[n - 1] \o ss[n]
           /\ FlattenSeq(ss) = f[Len(ss)]
    BY FlattenSteps
  <1> DEFINE aa == Append(ss, t)
  <1>3. /\ aa \in Seq(Seq(T)) /\ Len(aa) = Len(ss) + 1 /\ aa[Len(aa)] = t
        /\ Len(ss) \in Nat /\ \A n \in 1 .. Len(ss) : aa[n] = ss[n]
    OBVIOUS
  <1> HIDE DEF aa
  <1>4. PICK g \in [0 .. Len(aa) -> Seq(T)] :
           /\ g[0] = <<>> /\ \A n \in 1 .. Len(aa) : g[n] = g[n - 1] \o aa[n]
           /\ FlattenSeq(aa) = g[Len(aa)]
    BY <1>3, FlattenSteps
  <1>5. FlattenSeq(ss) = g[Len(ss)]
    <2>1. Len(ss) \in 0 .. Len(aa) /\ \A n \in 1 .. Len(ss) : ss[n] = aa[n]
      BY <1>3
    <2> QED BY <1>3, <1>4, <2>1, FlattenUpTo
  <1>6. g[Len(aa)] = g[Len(ss)] \o t
    <2>1. Len(aa) \in 1 .. Len(aa) /\ Len(aa) - 1 = Len(ss)
      BY <1>3
    <2> QED BY <1>3, <1>4, <2>1
  <1>7. FlattenSeq(ss) \in Seq(T)
    <2>1. Len(ss) \in 0 .. Len(ss)
      BY <1>3
    <2> QED BY <1>2, <2>1
  <1> QED BY <1>1, <1>4, <1>5, <1>6, <1>7 DEF aa

\* Beginnings of sequences.
LEMMA PrefixFacts ==
    ASSUME NEW T, NEW s \in Seq(T), NEW t \in Seq(T), NEW u \in Seq(T)
    PROVE  /\ IsPrefix(s, s) /\ IsPrefix(s, s \o t)
           /\ IsPrefix(s, t) /\ IsPrefix(t, u) => IsPrefix(s, u)
           /\ IsPrefix(s, t) => Len(s) <= Len(t)
  <1>1. IsPrefix(s, s)
    BY DEF IsPrefix
  <1>2. IsPrefix(s, s \o t)
    <2>1. Len(s) <= Len(s \o t) /\ Len(s) \in Nat
      OBVIOUS
    <2>2. SubSeq(s \o t, 1, Len(s)) = SubSeq(s, 1, Len(s))
      OBVIOUS
    <2> QED BY <2>1, <2>2 DEF IsPrefix
  <1>3. ASSUME IsPrefix(s, t), IsPrefix(t, u) PROVE IsPrefix(s, u)
    <2>1. Len(s) <= Len(t) /\ Len(t) <= Len(u)
      BY <1>3 DEF IsPrefix
    <2>2. \A i \in 1 .. Len(s) : s[i] = t[i]
      <3>1. SubSeq(s, 1, Len(s)) = SubSeq(t, 1, Len(s))
        BY <1>3 DEF IsPrefix
      <3>2. ASSUME NEW i \in 1 .. Len(s)
            PROVE  SubSeq(s, 1, Len(s))[i] = s[i] /\ SubSeq(t, 1, Len(s))[i] = t[i]
        BY <2>1
      <3> QED BY <3>1, <3>2
    <2>3. \A i \in 1 .. Len(t) : t[i] = u[i]
      <3>1. SubSeq(t, 1, Len(t)) = SubSeq(u, 1, Len(t))
        BY <1>3 DEF IsPrefix
      <3>2. ASSUME NEW i \in 1 .. Len(t)
            PROVE  SubSeq(t, 1, Len(t))[i] = t[i] /\ SubSeq(u, 1, Len(t))[i] = u[i]
        BY <2>1
      <3> QED BY <3>1, <3>2
    <2>4. \A i \in 1 .. Len(s) : s[i] = u[i]
      BY <2>1, <2>2, <2>3
    <2>5. SubSeq(s, 1, Len(s)) = SubSeq(u, 1, Len(s))
      BY <2>1, <2>4
    <2> QED BY <2>1, <2>5 DEF IsPrefix
  <1> QED BY <1>1, <1>2, <1>3 DEF IsPrefix

\* What the first sequences give is the beginning of what all of them give.
LEMMA FlattenPrefix ==
    ASSUME NEW T, NEW ss \in Seq(Seq(T)), NEW tt \in Seq(Seq(T)),
           Len(tt) <= Len(ss), \A n \in 1 .. Len(tt) : tt[n] = ss[n]
    PROVE  /\ FlattenSeq(ss) \in Seq(T) /\ FlattenSeq(tt) \in Seq(T)
           /\ IsPrefix(FlattenSeq(tt), FlattenSeq(ss))
           /\ Len(tt) = Len(ss) => FlattenSeq(tt) = FlattenSeq(ss)
  <1>1. PICK f \in [0 .. Len(ss) -> Seq(T)] :
           /\ f[0] = <<>> /\ \A n \in 1 .. Len(ss) : f[n] = f[n - 1] \o ss[n]
           /\ FlattenSeq(ss) = f[Len(ss)]
    BY FlattenSteps
  <1> DEFINE k == Len(tt)
  <1>2. k \in 0 .. Len(ss) /\ Len(ss) \in Nat
    OBVIOUS
  <1>3. FlattenSeq(tt) = f[k]
    BY <1>1, <1>2, FlattenUpTo
  <1> DEFINE S == {n \in 0 .. Len(ss) : n >= k => IsPrefix(f[k], f[n])}
  <1>4. 0 \in S
    BY <1>1, <1>2, PrefixFacts
  <1>5. ASSUME NEW n \in 1 .. Len(ss), n - 1 \in S PROVE n \in S
    <2> SUFFICES ASSUME n >= k PROVE IsPrefix(f[k], f[n])
      OBVIOUS
    <2>0. n \in 0 .. Len(ss) /\ n - 1 \in 0 .. Len(ss)
      BY <1>2
    <2>a. f[k] \in Seq(T) /\ f[n] \in Seq(T) /\ f[n - 1] \in Seq(T)
      <3> HIDE DEF k
      <3> QED BY <1>1, <1>2, <2>0
    <2>1. f[k] \in Seq(T) /\ f[n] \in Seq(T) /\ f[n - 1] \in Seq(T) /\ ss[n] \in Seq(T)
      BY <2>a
    <2> HIDE DEF k
    <2>2. CASE n = k
      BY <2>1, <2>2, PrefixFacts
    <2>3. CASE n # k
      <3>1. IsPrefix(f[k], f[n - 1])
        BY <1>2, <1>5, <2>0, <2>3
      <3>2. IsPrefix(f[n - 1], f[n])
        <4>1. f[n] = f[n - 1] \o ss[n]
          BY <1>1
        <4>2. IsPrefix(f[n - 1], f[n - 1] \o ss[n])
          BY <2>1, PrefixFacts
        <4> QED BY <4>1, <4>2
      <3> QED BY <2>1, <3>1, <3>2, PrefixFacts
    <2> QED BY <2>2, <2>3
  <1>i. \A n \in 1 .. Len(ss) : n - 1 \in S => n \in S
    BY <1>5
  <1> HIDE DEF S
  <1>6. \A n \in 0 .. Len(ss) : n \in S
    BY <1>2, <1>4, <1>i, InductionTo
  <1>7. Len(ss) \in 0 .. Len(ss) /\ Len(ss) >= k
    BY <1>2
  <1>8. IsPrefix(f[k], f[Len(ss)])
    BY <1>6, <1>7 DEF S
  <1>9. f[k] \in Seq(T) /\ f[Len(ss)] \in Seq(T)
    <2> HIDE DEF k
    <2> QED BY <1>1, <1>2, <1>7
  <1> QED BY <1>1, <1>3, <1>8, <1>9

-----------------------------------------------------------------------------
(* The arithmetic of a record. *)

\* Products of numbers, as the sizes of chunks need them.
LEMMA Products ==
    ASSUME NEW a \in Nat, NEW b \in Nat, NEW c \in Int
    PROVE  /\ a * b \in Nat /\ a * c \in Int
           /\ a * (b + 1) = a * b + a /\ a * (c - 1) = a * c - a
           /\ c \in Nat /\ c <= b => a * c \in Nat /\ a * c <= a * b
  <1>1. ASSUME c \in Nat, c <= b PROVE a * c \in Nat /\ a * c <= a * b
    <2>1. b - c \in Nat /\ a * (b - c) \in Nat /\ a * (b - c) = a * b - a * c
      BY <1>1
    <2> QED BY <1>1, <2>1
  <1> QED BY <1>1

\* A byte that is not what it was changes the sum of a line.
LEMMA OtherRest ==
    ASSUME NEW a \in Nat, NEW x \in Nat, NEW d \in 1 .. BYTE - 1
    PROVE  (a + ((x + d) % BYTE)) % BYTE # (a + x) % BYTE
  <1>0. BYTE \in Nat \ {0}
    BY ByteAssumption
  <1> DEFINE r == (x + d) % BYTE
             q == (x + d) \div BYTE
             u == (a + r) \div BYTE
             v == (a + x) \div BYTE
             m == (a + r) % BYTE
             n == (a + x) % BYTE
  <1>1. r \in Nat /\ q \in Nat /\ x + d = q * BYTE + r
    BY <1>0, Division
  <1>2. u \in Nat /\ m \in Nat /\ a + r = u * BYTE + m
    <2>1. a + r \in Nat
      BY <1>1
    <2> DEFINE y == a + r
    <2>2. y \in Nat
      BY <2>1
    <2> HIDE DEF y
    <2>3. y \div BYTE \in Nat /\ y % BYTE \in Nat /\ y = (y \div BYTE) * BYTE + (y % BYTE)
      BY <1>0, <2>2, Division
    <2> HIDE DEF r
    <2> QED BY <2>3 DEF y
  <1>3. v \in Nat /\ n \in Nat /\ a + x = v * BYTE + n
    BY <1>0, Division
  <1> HIDE DEF r, q, u, v, m, n
  <1>4. m # n
    <2> SUFFICES ASSUME m = n PROVE FALSE
      OBVIOUS
    <2> DEFINE k == q + u - v
    <2>1. d = q * BYTE + u * BYTE - v * BYTE
      <3> DEFINE qb == q * BYTE
                 ub == u * BYTE
                 vb == v * BYTE
      <3>1. qb \in Int /\ ub \in Int /\ vb \in Int
        BY <1>0, <1>1, <1>2, <1>3
      <3>2. x + d = qb + r /\ a + r = ub + m /\ a + x = vb + m
        BY <1>1, <1>2, <1>3
      <3> HIDE DEF qb, ub, vb
      <3>3. d = qb + ub - vb
        BY <1>1, <1>2, <3>1, <3>2
      <3> QED BY <3>3 DEF qb, ub, vb
    <2>2. k \in Int /\ k * BYTE = d
      BY <1>0, <1>1, <1>2, <1>3, <2>1
    <2> HIDE DEF k
    <2>3. k = 0
      BY <1>0, <2>2, Multiple
    <2> QED BY <1>0, <2>2, <2>3
  <1> QED BY <1>4 DEF m, n, r

\* The sum of bytes is a number.
LEMMA TotalIsNat == \A s \in Seq(Nat) : Total(s) \in Nat
  <1>0. SUFFICES ASSUME NEW s, s \in Seq(Nat) PROVE Total(s) \in Nat
    OBVIOUS
  <1>1. PICK f \in [0 .. Len(s) -> Nat] : Total(s) = f[Len(s)]
    BY <1>0, TotalSteps
  <1>2. Len(s) \in 0 .. Len(s)
    BY <1>0
  <1> QED BY <1>1, <1>2

\* And so is what they spell.
LEMMA NumberIsNat == \A s \in Seq(Nat) : Number(s) \in Nat
  <1>0. SUFFICES ASSUME NEW s, s \in Seq(Nat) PROVE Number(s) \in Nat
    OBVIOUS
  <1>1. PICK f \in [0 .. Len(s) -> Nat] : Number(s) = f[Len(s)]
    BY <1>0, NumberSteps
  <1>2. Len(s) \in 0 .. Len(s)
    BY <1>0
  <1> QED BY <1>1, <1>2

\* A change of one byte changes the sum by as much.
LEMMA TotalChanged ==
    \A s \in Seq(Nat) : \A t \in Seq(Nat) : \A i \in 1 .. Len(s) :
       Len(t) = Len(s) /\ (\A j \in 1 .. Len(s) : j # i => t[j] = s[j])
       => Total(t) + s[i] = Total(s) + t[i]
  <1>0. SUFFICES ASSUME NEW s, s \in Seq(Nat), NEW t, t \in Seq(Nat), NEW i \in 1 .. Len(s),
                        Len(t) = Len(s), \A j \in 1 .. Len(s) : j # i => t[j] = s[j]
                 PROVE  Total(t) + s[i] = Total(s) + t[i]
    OBVIOUS
  <1> DEFINE m == Len(s)
  <1>1. /\ m \in Nat /\ i \in Nat /\ i \in 1 .. m
        /\ \A j \in 1 .. m : s[j] \in Nat /\ t[j] \in Nat
    BY <1>0
  <1>2. PICK f \in [0 .. m -> Nat] :
           f[0] = 0 /\ (\A n \in 1 .. m : f[n] = f[n - 1] + s[n]) /\ Total(s) = f[m]
    BY <1>0, TotalSteps
  <1>3. PICK g \in [0 .. m -> Nat] :
           g[0] = 0 /\ (\A n \in 1 .. m : g[n] = g[n - 1] + t[n]) /\ Total(t) = g[m]
    BY <1>0, TotalSteps
  <1>4. \A j \in 1 .. m : j # i => t[j] = s[j]
    BY <1>0
  <1> DEFINE S == {n \in 0 .. m : IF n < i THEN g[n] = f[n] ELSE g[n] + s[i] = f[n] + t[i]}
  <1> HIDE DEF m
  <1>5. 0 \in S
    BY <1>1, <1>2, <1>3
  <1>6. ASSUME NEW n \in 1 .. m, n - 1 \in S PROVE n \in S
    <2>0. n - 1 \in 0 .. m /\ n \in 0 .. m /\ n - 1 < n
      BY <1>1
    <2>1. /\ f[n - 1] \in Nat /\ g[n - 1] \in Nat /\ s[n] \in Nat /\ t[n] \in Nat
          /\ f[n] = f[n - 1] + s[n] /\ g[n] = g[n - 1] + t[n]
          /\ s[i] \in Nat /\ t[i] \in Nat
      BY <1>1, <1>2, <1>3, <2>0
    <2>2. IF n - 1 < i THEN g[n - 1] = f[n - 1] ELSE g[n - 1] + s[i] = f[n - 1] + t[i]
      BY <1>6
    <2> HIDE DEF S
    <2>3. CASE n = i
      <3>1. n - 1 < i /\ ~(n < i)
        BY <1>1, <2>0, <2>3
      <3>2. g[n - 1] = f[n - 1] /\ s[n] = s[i] /\ t[n] = t[i]
        BY <2>2, <2>3, <3>1
      <3>3. g[n] + s[i] = f[n] + t[i]
        BY <2>1, <3>2
      <3> QED BY <2>0, <3>1, <3>3 DEF S
    <2>4. CASE n # i
      <3>1. t[n] = s[n]
        BY <1>4, <2>4
      <3>2. CASE n < i
        <4>1. g[n] = f[n]
          BY <1>1, <2>1, <2>2, <3>1, <3>2
        <4> QED BY <2>0, <3>2, <4>1 DEF S
      <3>3. CASE ~(n < i)
        <4>1. ~(n - 1 < i)
          BY <1>1, <2>0, <2>4, <3>3
        <4>2. g[n - 1] + s[i] = f[n - 1] + t[i]
          BY <2>2, <4>1
        <4>c. g[n] = g[n - 1] + s[n]
          BY <2>1, <3>1
        <4>a. g[n] + s[i] = (g[n - 1] + s[i]) + s[n]
          BY <2>1, <4>c
        <4>b. f[n] + t[i] = (f[n - 1] + t[i]) + s[n]
          BY <2>1
        <4>3. g[n] + s[i] = f[n] + t[i]
          BY <4>2, <4>a, <4>b
        <4> QED BY <2>0, <3>3, <4>3 DEF S
      <3> QED BY <3>2, <3>3
    <2> QED BY <2>3, <2>4
  <1>i. \A n \in 1 .. m : n - 1 \in S => n \in S
    BY <1>6
  <1> HIDE DEF S
  <1>7. \A n \in 0 .. m : n \in S
    BY <1>1, <1>5, <1>i, InductionTo
  <1>8. m \in 0 .. m /\ ~(m < i)
    BY <1>1
  <1>9. g[m] + s[i] = f[m] + t[i]
    BY <1>7, <1>8 DEF S
  <1> QED BY <1>2, <1>3, <1>9

\* The numbers of two and of four digits that the files hold.
LEMMA TwoDigits ==
    ASSUME NEW a \in Nat, NEW b \in Nat
    PROVE  Number(<<a, b>>) = a * BYTE + b
  <1> DEFINE s == <<a, b>>
  <1>1. s \in Seq(Nat) /\ Len(s) = 2 /\ s[1] = a /\ s[2] = b
    OBVIOUS
  <1> HIDE DEF s
  <1>2. PICK f \in [0 .. Len(s) -> Nat] :
           /\ f[0] = 0 /\ \A n \in 1 .. Len(s) : f[n] = f[n - 1] * BYTE + s[n]
           /\ Number(s) = f[Len(s)]
    BY <1>1, NumberSteps
  <1>3. f[1] = f[0] * BYTE + a
    <2>1. 1 \in 1 .. Len(s) /\ 1 - 1 = 0
      BY <1>1
    <2> QED BY <1>1, <1>2, <2>1
  <1>4. f[2] = f[1] * BYTE + b
    <2>1. 2 \in 1 .. Len(s) /\ 2 - 1 = 1
      BY <1>1
    <2> QED BY <1>1, <1>2, <2>1
  <1>5. 0 * BYTE + a = a
    BY ByteAssumption
  <1>6. Number(s) = a * BYTE + b
    BY <1>1, <1>2, <1>3, <1>4, <1>5
  <1> QED BY <1>6 DEF s

\* The address of an entry point spells the entry point.
LEMMA EntryNumber ==
    ASSUME NEW e \in Nat PROVE Number(<<0, 0, 0, e>>) = e
  <1> DEFINE s == <<0, 0, 0, e>>
  <1>1. s \in Seq(Nat) /\ Len(s) = 4 /\ s[1] = 0 /\ s[2] = 0 /\ s[3] = 0 /\ s[4] = e
    OBVIOUS
  <1> HIDE DEF s
  <1>2. PICK f \in [0 .. Len(s) -> Nat] :
           /\ f[0] = 0 /\ \A n \in 1 .. Len(s) : f[n] = f[n - 1] * BYTE + s[n]
           /\ Number(s) = f[Len(s)]
    BY <1>1, NumberSteps
  <1>3. 0 * BYTE + 0 = 0 /\ 0 * BYTE + e = e
    BY ByteAssumption
  <1>4. f[1] = f[0] * BYTE + s[1] /\ f[2] = f[1] * BYTE + s[2]
        /\ f[3] = f[2] * BYTE + s[3] /\ f[4] = f[3] * BYTE + s[4]
    <2>1. /\ 1 \in 1 .. Len(s) /\ 2 \in 1 .. Len(s) /\ 3 \in 1 .. Len(s) /\ 4 \in 1 .. Len(s)
          /\ 1 - 1 = 0 /\ 2 - 1 = 1 /\ 3 - 1 = 2 /\ 4 - 1 = 3
      BY <1>1
    <2> QED BY <1>2, <2>1
  <1>5. Number(s) = e
    BY <1>1, <1>2, <1>3, <1>4
  <1> QED BY <1>5 DEF s

-----------------------------------------------------------------------------
(* A record as the linker writes it, and what the loader makes of it. *)

ByteValue == 0 .. BYTE - 1

\* The bytes of a chunk are those of its words, one word after the other.
ChunkBytes(chunk, bytes) ==
    /\ bytes \in Seq(ByteValue) /\ Len(bytes) = WORD_BYTES * Len(chunk)
    /\ \A w \in 1 .. Len(chunk) : \A b \in 1 .. WORD_BYTES :
          bytes[WORD_BYTES * (w - 1) + b] = chunk[w][b]

\* The sizes of a word and of a byte.
LEMMA WordSizes == WORD_BYTES \in Nat /\ WORD_BYTES # 0 /\ BYTE \in Nat /\ BYTE > 5
  BY ByteAssumption

\* A word is a sequence of bytes.
LEMMA WordIsSequence ==
    ASSUME NEW word \in ProgramWord
    PROVE  /\ word \in Seq(ByteValue) /\ Len(word) = WORD_BYTES
           /\ word = [b \in 1 .. WORD_BYTES |-> word[b]]
  <1>1. word \in [1 .. WORD_BYTES -> ByteValue]
    BY DEF ProgramWord, ByteValue
  <1> HIDE DEF ByteValue
  <1> QED BY <1>1, WordSizes, SequenceIs

\* Where a word is.
LEMMA WordPlace ==
    ASSUME NEW n \in Nat, NEW w \in 1 .. n, NEW b \in 1 .. WORD_BYTES
    PROVE  /\ WORD_BYTES * (w - 1) + b \in 1 .. WORD_BYTES * n
           /\ WORD_BYTES * n \in Nat
           /\ WORD_BYTES * (w - 1) + WORD_BYTES = WORD_BYTES * w
           /\ WORD_BYTES * (w - 1) \in Nat
  <1> DEFINE a == WORD_BYTES * (w - 1)
             c == WORD_BYTES * w
             d == WORD_BYTES * n
  <1>1. a \in Nat
    <2>1. w - 1 \in Nat /\ w - 1 <= n /\ w - 1 \in Int
      OBVIOUS
    <2> QED BY <2>1, WordSizes, Products
  <1>2. c \in Nat /\ c <= d /\ d \in Nat
    BY WordSizes, Products
  <1>3. a + WORD_BYTES = c
    <2>1. WORD_BYTES \in Int /\ w \in Int
      BY WordSizes
    <2> QED BY <2>1
  <1>4. b \in Int /\ b >= 1 /\ b <= WORD_BYTES /\ WORD_BYTES \in Int
    BY WordSizes
  <1> HIDE DEF a, c, d
  <1>5. a + b \in 1 .. d
    BY <1>1, <1>2, <1>3, <1>4
  <1> QED BY <1>1, <1>2, <1>3, <1>5 DEF a, c, d

\* The parts of a sequence that was put together.
LEMMA TwoParts ==
    ASSUME NEW S, NEW s \in Seq(S), NEW t \in Seq(S)
    PROVE  /\ s \o t \in Seq(S) /\ Len(s \o t) = Len(s) + Len(t)
           /\ \A i \in 1 .. Len(s) : (s \o t)[i] = s[i]
           /\ \A i \in 1 .. Len(t) : (s \o t)[Len(s) + i] = t[i]
  OBVIOUS

LEMMA SecondPart ==
    ASSUME NEW s \in Seq(ByteValue), NEW t \in Seq(ByteValue), NEW r, r = s \o t,
           NEW i \in 1 .. Len(t), NEW p, p = Len(s) + i
    PROVE  r[p] = t[i]
  BY TwoParts

\* One word more behind the first n of a chunk.
LEMMA ChunkOneMore ==
    ASSUME NEW n \in Nat, NEW chunk \in Seq(ProgramWord), n + 1 <= Len(chunk),
           NEW s \in Seq(ByteValue), Len(s) = WORD_BYTES * n,
           \A w \in 1 .. n : \A b \in 1 .. WORD_BYTES :
              s[WORD_BYTES * (w - 1) + b] = chunk[w][b],
           NEW t, t = s \o chunk[n + 1]
    PROVE  /\ t \in Seq(ByteValue) /\ Len(t) = WORD_BYTES * (n + 1)
           /\ \A w \in 1 .. n + 1 : \A b \in 1 .. WORD_BYTES :
                 t[WORD_BYTES * (w - 1) + b] = chunk[w][b]
  <1> DEFINE word == chunk[n + 1]
  <1>1. word \in ProgramWord
    OBVIOUS
  <1> HIDE DEF word
  <1>2. word \in Seq(ByteValue) /\ Len(word) = WORD_BYTES
    BY <1>1, WordIsSequence
  <1>3. t = s \o word
    BY DEF word
  <1> HIDE DEF ByteValue
  <1>4. t \in Seq(ByteValue) /\ Len(t) = WORD_BYTES * n + WORD_BYTES
    BY <1>2, <1>3
  <1>5. WORD_BYTES * n + WORD_BYTES = WORD_BYTES * (n + 1)
    BY WordSizes, Products
  <1>6. ASSUME NEW w \in 1 .. n + 1, NEW b \in 1 .. WORD_BYTES
        PROVE  t[WORD_BYTES * (w - 1) + b] = chunk[w][b]
    <2> DEFINE p == WORD_BYTES * (w - 1) + b
    <2>1. CASE w \in 1 .. n
      <3>1. p \in 1 .. Len(s)
        BY <2>1, WordPlace
      <3>2. s[p] = chunk[w][b]
        BY <2>1
      <3> HIDE DEF p
      <3>3. t[p] = s[p]
        BY <1>2, <1>3, <3>1
      <3> QED BY <3>2, <3>3 DEF p
    <2>2. CASE w = n + 1
      <3>1. w - 1 = n /\ Len(s) \in Nat /\ b \in Nat
        BY <2>2
      <3>2. p = Len(s) + b
        BY <3>1
      <3> HIDE DEF p
      <3>3. t[p] = word[b]
        <4>1. word \in Seq(ByteValue) /\ b \in 1 .. Len(word)
          BY <1>2
        <4> QED BY <1>3, <3>2, <4>1, SecondPart, SMTT(60)
      <3>4. chunk[w][b] = word[b]
        BY <2>2 DEF word
      <3> QED BY <3>3, <3>4 DEF p
    <2>3. w \in 1 .. n \/ w = n + 1
      OBVIOUS
    <2> HIDE DEF p
    <2> QED BY <2>1, <2>2, <2>3 DEF p
  <1> QED BY <1>4, <1>5, <1>6

\* Every byte of a chunk is at its place.
LEMMA BytesOfChunk ==
    ASSUME NEW chunk \in Seq(ProgramWord)
    PROVE  ChunkBytes(chunk, FlattenSeq(chunk))
  <1> DEFINE m == Len(chunk)
  <1>1. m \in Nat /\ \A w \in 1 .. m : chunk[w] \in ProgramWord
    OBVIOUS
  <1>2. chunk \in Seq(Seq(ByteValue))
    <2>1. ProgramWord \subseteq Seq(ByteValue)
      BY WordIsSequence
    <2> HIDE DEF ByteValue
    <2>2. \A w \in 1 .. m : chunk[w] \in Seq(ByteValue)
      BY <1>1, <2>1
    <2> DEFINE B == Seq(ByteValue)
    <2>3. chunk \in [1 .. m -> B]
      BY <2>2
    <2> HIDE DEF B, m
    <2>4. chunk \in Seq(B)
      BY <1>1, <2>3, SequenceIs
    <2> QED BY <2>4 DEF B
  <1> HIDE DEF ByteValue
  <1>3. PICK f \in [0 .. m -> Seq(ByteValue)] :
           /\ f[0] = <<>> /\ \A n \in 1 .. m : f[n] = f[n - 1] \o chunk[n]
           /\ FlattenSeq(chunk) = f[m]
    BY <1>2, FlattenSteps
  <1> DEFINE Up(n) == /\ f[n] \in Seq(ByteValue) /\ Len(f[n]) = WORD_BYTES * n
                      /\ \A w \in 1 .. n : \A b \in 1 .. WORD_BYTES :
                            f[n][WORD_BYTES * (w - 1) + b] = chunk[w][b]
             S == {n \in 0 .. m : Up(n)}
  <1>4. 0 \in S
    <2>1. 0 \in 0 .. m /\ WORD_BYTES * 0 = 0
      BY <1>1, WordSizes
    <2>2. Len(f[0]) = 0 /\ f[0] \in Seq(ByteValue)
      BY <1>3, <2>1
    <2>3. \A w \in 1 .. 0 : FALSE
      OBVIOUS
    <2> HIDE DEF m
    <2> QED BY <2>1, <2>2, <2>3
  <1>5. ASSUME NEW n \in 1 .. m, n - 1 \in S PROVE n \in S
    <2> DEFINE k == n - 1
    <2>1. k \in Nat /\ k + 1 = n /\ k + 1 <= m /\ n \in 0 .. m
      BY <1>1
    <2>2. f[k + 1] = f[k] \o chunk[k + 1] /\ Up(k)
      <3>1. f[n] = f[n - 1] \o chunk[n]
        BY <1>3
      <3>2. Up(n - 1)
        BY <1>5
      <3> HIDE DEF Up
      <3> QED BY <2>1, <3>1, <3>2
    <2> HIDE DEF k
    <2>3. Up(k + 1)
      <3>1. f[k] \in Seq(ByteValue) /\ Len(f[k]) = WORD_BYTES * k /\ k + 1 <= Len(chunk)
        BY <2>1, <2>2
      <3>2. \A w \in 1 .. k : \A b \in 1 .. WORD_BYTES :
               f[k][WORD_BYTES * (w - 1) + b] = chunk[w][b]
        BY <2>2
      <3>3. f[k + 1] = f[k] \o chunk[k + 1]
        BY <2>2
      <3> QED BY <2>1, <3>1, <3>2, <3>3, ChunkOneMore
    <2> HIDE DEF Up
    <2> QED BY <2>1, <2>3
  <1>i. \A n \in 1 .. m : n - 1 \in S => n \in S
    BY <1>5
  <1>6. m \in 0 .. m
    BY <1>1
  <1> HIDE DEF S
  <1>7. \A n \in 0 .. m : n \in S
    BY <1>1, <1>4, <1>i, InductionTo
  <1>8. Up(m)
    BY <1>6, <1>7 DEF S
  <1> QED BY <1>3, <1>8 DEF ChunkBytes

\* A line with n bytes of data and a four-byte address, by its count.
Shape(l, n) ==
    /\ l.type \in {3, 7}
    /\ l.bytes \in Seq(Nat) /\ Len(l.bytes) = n + 6 /\ l.bytes[1] = n + 5
BodyOf(l, n) == SubSeq(l.bytes, 1, n + 5)

\* What the parser takes a line of that shape apart into.
LEMMA LineParts ==
    ASSUME NEW l, NEW n \in Nat, Shape(l, n)
    PROVE  /\ DataLength(l) = n /\ DataEnd(l) = n + 5
           /\ Data(l) = SubSeq(l.bytes, 6, n + 5)
           /\ ChecksumOK(l) <=> l.bytes[n + 6] = Inverted(Total(BodyOf(l, n)))
  <1>1. AddressLength(l.type) = 4
    BY DEF AddressLength, Shape
  <1>2. DataLength(l) = n
    BY <1>1 DEF DataLength, Shape
  <1>3. DataEnd(l) = n + 5
    BY <1>1, <1>2 DEF DataEnd
  <1>4. Data(l) = SubSeq(l.bytes, 6, n + 5)
    BY <1>1, <1>3 DEF Data
  <1>5. DataEnd(l) + 1 = n + 6
    BY <1>3
  <1> QED BY <1>2, <1>3, <1>4, <1>5 DEF ChecksumOK, BodyOf

\* The part of a sequence that comes before its last element.
LEMMA BeforeLast ==
    ASSUME NEW S, NEW s \in Seq(S), NEW x \in S
    PROVE  /\ Append(s, x) \in Seq(S) /\ Len(Append(s, x)) = Len(s) + 1
           /\ SubSeq(Append(s, x), 1, Len(s)) = s
           /\ Append(s, x)[Len(s) + 1] = x
           /\ \A i \in 1 .. Len(s) : Append(s, x)[i] = s[i]
  <1>1. /\ Append(s, x) \in Seq(S) /\ Len(Append(s, x)) = Len(s) + 1
        /\ Append(s, x)[Len(s) + 1] = x
        /\ \A i \in 1 .. Len(s) : Append(s, x)[i] = s[i]
    OBVIOUS
  <1>2. SubSeq(Append(s, x), 1, Len(s)) = s
    <2>1. SubSeq(Append(s, x), 1, Len(s)) = [i \in 1 .. Len(s) |-> Append(s, x)[i]]
      BY <1>1
    <2>2. s = [i \in 1 .. Len(s) |-> s[i]]
      BY LenProperties
    <2> QED BY <1>1, <2>1, <2>2
  <1> QED BY <1>1, <1>2

\* A record holds its data, and its checksum is that of the rest.
LEMMA RecordHolds ==
    ASSUME NEW type \in {3, 7}, NEW a \in Nat, NEW data, NEW n \in Nat,
           data \in Seq(ByteValue), Len(data) = n,
           NEW l, l = Record(type, Address(a), data)
    PROVE  /\ l.type = type /\ Shape(l, n)
           /\ l = Line(l.type, l.bytes)
           /\ l.bytes[2] = 0 /\ l.bytes[3] = 0 /\ l.bytes[4] = 0 /\ l.bytes[5] = a
           /\ \A j \in 1 .. n : l.bytes[5 + j] = data[j]
           /\ l.bytes[n + 6] = Inverted(Total(BodyOf(l, n)))
  <1> DEFINE lead == <<n + 5>> \o <<0, 0, 0, a>>
             body == lead \o data
             check == Inverted(Total(body))
  <1>1. data \in Seq(Nat)
    <2>1. ByteValue \subseteq Nat
      BY WordSizes DEF ByteValue
    <2> HIDE DEF ByteValue
    <2>a. data \in [1 .. n -> ByteValue]
      BY LenProperties
    <2>2. data \in [1 .. n -> Nat]
      BY <2>1, <2>a
    <2> QED BY <2>2, SequenceIs
  <1>2. l = Line(type, Append(body, check))
    <2>1. Len(<<0, 0, 0, a>>) + Len(data) + 1 = n + 5
      OBVIOUS
    <2> QED BY <2>1 DEF Record, Address
  <1>3. /\ lead \in Seq(Nat) /\ Len(lead) = 5
        /\ lead[1] = n + 5 /\ lead[2] = 0 /\ lead[3] = 0 /\ lead[4] = 0 /\ lead[5] = a
    OBVIOUS
  <1> HIDE DEF lead
  <1>4. /\ body \in Seq(Nat) /\ Len(body) = 5 + n
        /\ \A i \in 1 .. 5 : body[i] = lead[i]
        /\ \A j \in 1 .. n : body[5 + j] = data[j]
    <2>1. /\ body \in Seq(Nat) /\ Len(body) = Len(lead) + Len(data)
          /\ \A i \in 1 .. Len(lead) : body[i] = lead[i]
          /\ \A j \in 1 .. Len(data) : body[Len(lead) + j] = data[j]
      <3> DEFINE V == Nat
      <3>1. lead \in Seq(V) /\ data \in Seq(V)
        BY <1>1, <1>3
      <3>2. body \in Seq(V)
        BY <3>1
      <3> HIDE DEF V
      <3>3. \A i \in 1 .. Len(lead) : body[i] = lead[i]
        BY <3>1, TwoParts
      <3>4. \A j \in 1 .. Len(data) : body[Len(lead) + j] = data[j]
        BY <3>1, TwoParts
      <3>5. Len(body) = Len(lead) + Len(data)
        BY <3>1, TwoParts
      <3> QED BY <3>2, <3>3, <3>4, <3>5 DEF V
    <2> HIDE DEF body
    <2> QED BY <1>3, <2>1
  <1> HIDE DEF body
  <1>5. check \in Nat
    <2> DEFINE t == Total(body)
    <2>1. t \in Nat
      BY <1>4, TotalIsNat
    <2> HIDE DEF t
    <2>a. BYTE \in Nat \ {0}
      BY WordSizes
    <2>2. t % BYTE \in 0 .. BYTE - 1
      BY <2>1, <2>a, Division
    <2> QED BY <2>2, WordSizes DEF Inverted, t
  <1> HIDE DEF check
  <1>6. /\ Append(body, check) \in Seq(Nat) /\ Len(Append(body, check)) = n + 6
        /\ SubSeq(Append(body, check), 1, 5 + n) = body
        /\ Append(body, check)[6 + n] = check
        /\ \A i \in 1 .. 5 + n : Append(body, check)[i] = body[i]
    <2>1. Len(body) + 1 = n + 6 /\ Len(body) = 5 + n /\ 6 + n = n + 6
      BY <1>4
    <2> QED BY <1>4, <1>5, <2>1, BeforeLast
  <1>7. l.type = type /\ l.bytes = Append(body, check) /\ l = Line(l.type, l.bytes)
    BY <1>2 DEF Line
  <1>8. \A i \in 1 .. 5 : l.bytes[i] = lead[i]
    <2>1. \A i \in 1 .. 5 : i \in 1 .. 5 + n
      OBVIOUS
    <2> QED BY <1>4, <1>6, <1>7, <2>1
  <1>9. Shape(l, n)
    <2>1. l.bytes[1] = n + 5
      BY <1>3, <1>8
    <2> QED BY <1>6, <1>7, <2>1 DEF Shape
  <1>10. ASSUME NEW j \in 1 .. n PROVE l.bytes[5 + j] = data[j]
    <2>1. 5 + j \in 1 .. 5 + n
      OBVIOUS
    <2> QED BY <1>4, <1>6, <1>7, <2>1
  <1>11. l.bytes[n + 6] = Inverted(Total(BodyOf(l, n)))
    <2>1. n + 6 = 6 + n /\ n + 5 = 5 + n
      OBVIOUS
    <2>2. BodyOf(l, n) = body
      BY <1>6, <1>7, <2>1 DEF BodyOf
    <2>3. l.bytes[n + 6] = check
      BY <1>6, <1>7, <2>1
    <2> QED BY <2>2, <2>3 DEF check
  <1>12. l.bytes[2] = 0 /\ l.bytes[3] = 0 /\ l.bytes[4] = 0 /\ l.bytes[5] = a
    BY <1>3, <1>8
  <1> QED BY <1>7, <1>9, <1>10, <1>11, <1>12

\* The loader stores the chunk the record was made of.
LEMMA RecordStored ==
    ASSUME NEW chunk \in Seq(ProgramWord), NEW a \in Nat,
           NEW l, l = Record(3, Address(a), FlattenSeq(chunk))
    PROVE  /\ Accepted(l) /\ Stored(l) = chunk
           /\ winix_load_srec_mem_val(l) = Len(chunk)
           /\ Shape(l, WORD_BYTES * Len(chunk)) /\ WORD_BYTES * Len(chunk) \in Nat
  <1> DEFINE m == Len(chunk)
             n == WORD_BYTES * m
             data == FlattenSeq(chunk)
  <1>1. m \in Nat /\ n \in Nat
    <2>1. m \in Nat
      OBVIOUS
    <2> QED BY <2>1, WordSizes, Products
  <1>2. ChunkBytes(chunk, data)
    BY BytesOfChunk
  <1>3. /\ l.type = 3 /\ Shape(l, n)
        /\ \A j \in 1 .. n : l.bytes[5 + j] = data[j]
        /\ l.bytes[n + 6] = Inverted(Total(BodyOf(l, n)))
    <2>1. data \in Seq(ByteValue) /\ Len(data) = n
      BY <1>2 DEF ChunkBytes
    <2>2. 3 \in {3, 7} /\ l = Record(3, Address(a), data)
      OBVIOUS
    <2> HIDE DEF m, n, data
    <2> QED BY <1>1, <2>1, <2>2, RecordHolds
  <1>4. /\ DataLength(l) = n /\ ChecksumOK(l) /\ Data(l) = SubSeq(l.bytes, 6, n + 5)
    <2> HIDE DEF n
    <2> QED BY <1>1, <1>3, LineParts
  <1>5. n % WORD_BYTES = 0 /\ n \div WORD_BYTES = m
    <2>1. WORD_BYTES \in Nat \ {0} /\ n = m * WORD_BYTES
      BY <1>1, WordSizes
    <2> HIDE DEF n, m
    <2> QED BY <1>1, <2>1, MultipleOf
  <1>6. Accepted(l)
    BY <1>3, <1>4, <1>5 DEF Accepted, KnownTypes
  <1>7. Data(l) = [j \in 1 .. n |-> data[j]]
    <2> DEFINE bytes == l.bytes
    <2>1. bytes \in Seq(Nat) /\ Len(bytes) = n + 6
      BY <1>3 DEF Shape
    <2> HIDE DEF bytes, n, data
    <2>2. SubSeq(bytes, 6, n + 5) = [j \in 1 .. n |-> bytes[5 + j]]
      <3>1. SubSeq(bytes, 6, n + 5) = [j \in 1 .. (1 + (n + 5) - 6) |-> bytes[j + 6 - 1]]
        BY <1>1, <2>1
      <3>2. 1 + (n + 5) - 6 = n /\ \A j \in Int : j + 6 - 1 = 5 + j
        BY <1>1
      <3> QED BY <3>1, <3>2
    <2> QED BY <1>3, <1>4, <2>2 DEF bytes
  <1>d. Data(l) = data /\ data \in Seq(ByteValue) /\ Len(data) = n
    <2>1. data \in Seq(ByteValue) /\ Len(data) = n
      BY <1>2 DEF ChunkBytes
    <2>2. data = [j \in 1 .. n |-> data[j]]
      <3> HIDE DEF data, n
      <3> QED BY <2>1, LenProperties
    <2> QED BY <1>7, <2>1, <2>2
  <1>8. ASSUME NEW i \in 1 .. m
        PROVE  SubSeq(Data(l), WORD_BYTES * (i - 1) + 1, WORD_BYTES * i) = chunk[i]
    <2> DEFINE p == WORD_BYTES * (i - 1)
               d == Data(l)
    <2>1. /\ p \in Nat /\ p + WORD_BYTES = WORD_BYTES * i
          /\ \A b \in 1 .. WORD_BYTES : p + b \in 1 .. n
      <3>1. 1 \in 1 .. WORD_BYTES
        BY WordSizes
      <3> HIDE DEF m
      <3> QED BY <1>1, <3>1, WordPlace
    <2>2. SubSeq(d, p + 1, p + WORD_BYTES) = [b \in 1 .. WORD_BYTES |-> d[p + b]]
      <3>a. p + 1 \in Nat /\ p + WORD_BYTES \in Nat /\ d \in Seq(ByteValue)
            /\ p + 1 >= 1 /\ p + WORD_BYTES <= Len(d)
        <4>1. p + WORD_BYTES \in 1 .. n
          BY <2>1, WordSizes
        <4> HIDE DEF p, n
        <4> QED BY <1>d, <2>1, <4>1, WordSizes
      <3>1. SubSeq(d, p + 1, p + WORD_BYTES)
              = [b \in 1 .. (1 + (p + WORD_BYTES) - (p + 1)) |-> d[b + (p + 1) - 1]]
        <4> HIDE DEF p, d, ByteValue
        <4> QED BY <3>a
      <3>2. 1 + (p + WORD_BYTES) - (p + 1) = WORD_BYTES
            /\ \A b \in Int : b + (p + 1) - 1 = p + b
        <4> HIDE DEF p
        <4> QED BY <2>1, WordSizes
      <3> HIDE DEF p, d
      <3> QED BY <3>1, <3>2
    <2>3. \A b \in 1 .. WORD_BYTES : d[p + b] = data[p + b]
      <3> HIDE DEF p, n, data
      <3> QED BY <1>7, <2>1
    <2>4. \A b \in 1 .. WORD_BYTES : data[p + b] = chunk[i][b]
      BY <1>2 DEF ChunkBytes
    <2>5. chunk[i] = [b \in 1 .. WORD_BYTES |-> chunk[i][b]]
      <3>1. chunk[i] \in ProgramWord
        OBVIOUS
      <3> QED BY <3>1, WordIsSequence
    <2>6. SubSeq(d, p + 1, p + WORD_BYTES) = chunk[i]
      <3> HIDE DEF p, d, data
      <3> QED BY <2>2, <2>3, <2>4, <2>5
    <2> QED BY <2>1, <2>6
  <1>9. WordsIn(l) = chunk
    <2>1. DataLength(l) \div WORD_BYTES = m
      BY <1>4, <1>5
    <2>2. WordsIn(l) = [i \in 1 .. m |-> SubSeq(Data(l), WORD_BYTES * (i - 1) + 1, WORD_BYTES * i)]
      BY <2>1 DEF WordsIn
    <2>3. WordsIn(l) = [i \in 1 .. m |-> chunk[i]]
      BY <1>8, <2>2
    <2>4. chunk = [i \in 1 .. m |-> chunk[i]]
      BY LenProperties
    <2> QED BY <2>3, <2>4
  <1>10. Stored(l) = chunk
    BY <1>3, <1>6, <1>9 DEF Stored
  <1>11. winix_load_srec_mem_val(l) = Len(chunk)
    BY <1>3, <1>6, <1>10 DEF winix_load_srec_mem_val
  <1> QED BY <1>1, <1>3, <1>6, <1>10, <1>11

\* A line in which one byte after the count is not what it was fails its checksum.
ByteChanged(l, b, d) == Line(l.type, [l.bytes EXCEPT ![b] = (l.bytes[b] + d) % BYTE])

\* The beginning of a line.
LEMMA FirstPart ==
    \A s \in Seq(Nat) : \A k \in Nat :
       k <= Len(s) => /\ SubSeq(s, 1, k) \in Seq(Nat) /\ Len(SubSeq(s, 1, k)) = k
                      /\ \A j \in 1 .. k : SubSeq(s, 1, k)[j] = s[j]
  OBVIOUS

\* One wrong byte behind the count is noticed: the checksum does not fit any more.
LEMMA ByteNoticed ==
    ASSUME NEW n \in Nat, NEW l, Shape(l, n),
           l.bytes[n + 6] = Inverted(Total(BodyOf(l, n))),
           NEW b \in 2 .. n + 6, NEW d \in 1 .. BYTE - 1,
           NEW k, k = ByteChanged(l, b, d)
    PROVE  Shape(k, n) /\ ~ChecksumOK(k)
  <1> DEFINE s == l.bytes
             t == k.bytes
             x == s[b]
             y == (x + d) % BYTE
  <1>0. BYTE \in Nat \ {0}
    BY WordSizes
  <1>1. s \in Seq(Nat) /\ Len(s) = n + 6 /\ s[1] = n + 5 /\ l.type \in {3, 7}
    BY DEF Shape
  <1>2. k.type = l.type /\ t = [s EXCEPT ![b] = y]
    BY DEF ByteChanged, Line
  <1>3. x \in Nat /\ b \in 1 .. n + 6 /\ b # 1
    <2>1. b \in 1 .. n + 6 /\ b # 1
      OBVIOUS
    <2> HIDE DEF s
    <2> QED BY <1>1, <2>1
  <1>4. y \in Nat
    <2>1. x + d \in Nat
      BY <1>3
    <2> DEFINE z == x + d
    <2> HIDE DEF z, x
    <2>2. z % BYTE \in 0 .. BYTE - 1
      BY <1>0, <2>1, Division DEF z
    <2> QED BY <1>0, <2>2 DEF z
  <1> HIDE DEF y
  <1>5. /\ t \in Seq(Nat) /\ Len(t) = n + 6 /\ t[b] = y
        /\ \A j \in 1 .. n + 6 : j # b => t[j] = s[j]
    <2> HIDE DEF s, t
    <2>1. s \in [1 .. n + 6 -> Nat]
      BY <1>1
    <2>2. t \in [1 .. n + 6 -> Nat] /\ n + 6 \in Nat
      BY <1>2, <1>4, <2>1
    <2>3. t \in Seq(Nat) /\ Len(t) = n + 6
      BY <2>2, SequenceIs
    <2> QED BY <1>2, <1>3, <2>1, <2>3
  <1>6. Shape(k, n)
    BY <1>1, <1>2, <1>3, <1>5 DEF Shape
  <1>7. ChecksumOK(k) <=> t[n + 6] = Inverted(Total(BodyOf(k, n)))
    BY <1>6, LineParts
  <1> DEFINE u == BodyOf(l, n)
             v == BodyOf(k, n)
  <1>8. /\ u \in Seq(Nat) /\ Len(u) = n + 5 /\ \A j \in 1 .. n + 5 : u[j] = s[j]
        /\ v \in Seq(Nat) /\ Len(v) = n + 5 /\ \A j \in 1 .. n + 5 : v[j] = t[j]
    <2>1. u = SubSeq(s, 1, n + 5) /\ v = SubSeq(t, 1, n + 5)
      BY DEF BodyOf
    <2> DEFINE e == n + 5
    <2>2. e \in Nat /\ e <= Len(s) /\ e <= Len(t) /\ s \in Seq(Nat) /\ t \in Seq(Nat)
      <3>1. e \in Nat /\ e <= n + 6
        OBVIOUS
      <3>2. s \in Seq(Nat) /\ t \in Seq(Nat)
        BY <1>1, <1>5
      <3>3. Len(s) = n + 6 /\ Len(t) = n + 6
        BY <1>1, <1>5
      <3> HIDE DEF s, t, e
      <3> QED BY <3>1, <3>2, <3>3
    <2>3. u = SubSeq(s, 1, e) /\ v = SubSeq(t, 1, e)
      BY <2>1
    <2> HIDE DEF s, t, u, v, e
    <2>4. /\ u \in Seq(Nat) /\ Len(u) = e /\ \A j \in 1 .. e : u[j] = s[j]
          /\ v \in Seq(Nat) /\ Len(v) = e /\ \A j \in 1 .. e : v[j] = t[j]
      BY <2>2, <2>3, FirstPart
    <2> QED BY <2>4 DEF e
  <1>9. Total(u) \in Nat /\ Total(v) \in Nat
    <2> HIDE DEF u, v
    <2> QED BY <1>8, TotalIsNat
  <1> HIDE DEF s, t, u, v
  <1>10. CASE b = n + 6
    <2>1. \A j \in 1 .. n + 5 : t[j] = s[j]
      BY <1>5, <1>10
    <2>2. u = v
      <3>1. u = [j \in 1 .. n + 5 |-> u[j]] /\ v = [j \in 1 .. n + 5 |-> v[j]]
        BY <1>8, LenProperties
      <3> QED BY <1>8, <2>1, <3>1
    <2>3. x = Inverted(Total(u))
      BY <1>10 DEF u, s
    <2>4. y # x
      <3>1. (0 + y) % BYTE # (0 + x) % BYTE
        <4>1. 0 \in Nat
          OBVIOUS
        <4> HIDE DEF x
        <4> QED BY <1>3, <4>1, OtherRest DEF y
      <3> QED BY <3>1
    <2> QED BY <1>5, <1>6, <1>7, <1>10, <2>2, <2>3, <2>4 DEF v
  <1>11. CASE b # n + 6
    <2> DEFINE w == [u EXCEPT ![b] = 0]
               a == Total(w)
    <2>1. b \in 1 .. n + 5 /\ u[b] = x /\ v[b] = y /\ \A j \in 1 .. n + 5 : j # b => v[j] = u[j]
      <3>1. b \in 1 .. n + 5
        BY <1>3, <1>11
      <3>2. u[b] = x /\ v[b] = y
        BY <1>5, <1>8, <3>1
      <3>3. \A j \in 1 .. n + 5 : j \in 1 .. n + 6
        OBVIOUS
      <3> HIDE DEF x
      <3> QED BY <1>5, <1>8, <3>1, <3>2, <3>3
    <2>2. w \in Seq(Nat) /\ Len(w) = n + 5 /\ w[b] = 0 /\ \A j \in 1 .. n + 5 : j # b => w[j] = u[j]
      <3> DEFINE e == n + 5
      <3>1. u \in [1 .. e -> Nat] /\ e \in Nat /\ b \in 1 .. e
        BY <1>8, <2>1
      <3> HIDE DEF e
      <3>2. w \in [1 .. e -> Nat] /\ w[b] = 0 /\ \A j \in 1 .. e : j # b => w[j] = u[j]
        BY <3>1
      <3> HIDE DEF w
      <3>3. w \in Seq(Nat) /\ Len(w) = e
        BY <3>1, <3>2, SequenceIs
      <3> QED BY <3>2, <3>3 DEF e
    <2> HIDE DEF w, x
    <2>3. Total(u) = Total(w) + x
      <3>a. /\ u \in Seq(Nat) /\ w \in Seq(Nat) /\ Len(u) = Len(w) /\ b \in 1 .. Len(w)
            /\ \A j \in 1 .. Len(w) : j # b => u[j] = w[j]
        BY <1>8, <2>1, <2>2
      <3>1. Total(u) + w[b] = Total(w) + u[b]
        BY <3>a, TotalChanged
      <3> QED BY <1>9, <2>1, <2>2, <3>1
    <2>4. Total(v) = Total(w) + y
      <3>1. \A j \in 1 .. n + 5 : j # b => v[j] = w[j]
        BY <2>1, <2>2
      <3>a. /\ v \in Seq(Nat) /\ w \in Seq(Nat) /\ Len(v) = Len(w) /\ b \in 1 .. Len(w)
            /\ \A j \in 1 .. Len(w) : j # b => v[j] = w[j]
        BY <1>8, <2>1, <2>2, <3>1
      <3>2. Total(v) + w[b] = Total(w) + v[b]
        BY <3>a, TotalChanged
      <3> QED BY <1>9, <2>1, <2>2, <3>2
    <2>5. a \in Nat
      BY <2>2, TotalIsNat
    <2> HIDE DEF a
    <2>6. (a + y) % BYTE # (a + x) % BYTE
      BY <1>3, <2>5, OtherRest DEF y
    <2>7. Inverted(a + y) # Inverted(a + x)
      <3> DEFINE p == a + y
                 q == a + x
      <3>1. p \in Nat /\ q \in Nat
        BY <1>3, <1>4, <2>5
      <3>2. p % BYTE # q % BYTE
        BY <2>6
      <3> HIDE DEF p, q
      <3>3. p % BYTE \in 0 .. BYTE - 1 /\ q % BYTE \in 0 .. BYTE - 1
        BY <1>0, <3>1, Division
      <3>4. Inverted(p) # Inverted(q)
        BY <1>0, <3>2, <3>3 DEF Inverted
      <3> QED BY <3>4 DEF p, q
    <2>8. t[n + 6] = Inverted(a + x)
      <3>1. t[n + 6] = s[n + 6]
        BY <1>5, <1>11
      <3>2. s[n + 6] = Inverted(Total(u))
        BY DEF s, u
      <3> QED BY <2>3, <3>1, <3>2 DEF a
    <2>9. Inverted(Total(v)) = Inverted(a + y)
      BY <2>4 DEF a
    <2> QED BY <1>6, <1>7, <2>7, <2>8, <2>9 DEF v
  <1> QED BY <1>10, <1>11

\* A byte that grows by BYTE is what it was.
LEMMA OnceAround ==
    ASSUME NEW x \in 0 .. BYTE - 1
    PROVE  (x + BYTE) % BYTE = x /\ x % BYTE = x
  <1>0. BYTE \in Nat \ {0}
    BY WordSizes
  <1>1. ASSUME NEW z \in Nat, NEW k \in Int, z = x + k * BYTE PROVE z % BYTE = x
    <2> DEFINE q == z \div BYTE
               r == z % BYTE
    <2>1. q \in Nat /\ r \in 0 .. BYTE - 1 /\ z = q * BYTE + r
      BY <1>0, Division
    <2> HIDE DEF q, r
    <2>2. (k - q) * BYTE = r - x /\ (q - k) * BYTE = x - r
      BY <1>0, <1>1, <2>1
    <2>3. CASE r >= x
      <3> DEFINE e == k - q
      <3>1. e \in Int /\ e * BYTE >= 0 /\ e * BYTE < BYTE
        BY <1>0, <2>1, <2>2, <2>3
      <3>2. e = 0
        <4> HIDE DEF e
        <4> QED BY <1>0, <3>1, Multiple
      <3>3. e * BYTE = 0
        <4> HIDE DEF e
        <4> QED BY <1>0, <3>2
      <3> QED BY <1>0, <2>1, <2>2, <3>3 DEF r
    <2>4. CASE x > r
      <3> DEFINE e == q - k
      <3>1. e \in Int /\ e * BYTE >= 0 /\ e * BYTE < BYTE
        BY <1>0, <2>1, <2>2, <2>4
      <3>2. e = 0
        <4> HIDE DEF e
        <4> QED BY <1>0, <3>1, Multiple
      <3>3. e * BYTE = 0
        <4> HIDE DEF e
        <4> QED BY <1>0, <3>2
      <3> QED BY <1>0, <2>1, <2>2, <2>4, <3>3
    <2> QED BY <1>0, <2>1, <2>3, <2>4
  <1>2. x + BYTE \in Nat /\ x + BYTE = x + 1 * BYTE /\ x \in Nat /\ x = x + 0 * BYTE
    BY <1>0
  <1>3. (x + BYTE) % BYTE = x
    <2> DEFINE z == x + BYTE
    <2>1. z \in Nat /\ z = x + 1 * BYTE /\ 1 \in Int
      BY <1>2
    <2> HIDE DEF z
    <2>2. z % BYTE = x
      BY <1>1, <2>1
    <2> QED BY <2>2 DEF z
  <1>4. x % BYTE = x
    <2>1. 0 \in Int
      OBVIOUS
    <2> QED BY <1>1, <1>2, <2>1
  <1> QED BY <1>3, <1>4

\* A chunk fits into a record: its count is a byte.
LEMMA ChunkFits ==
    ASSUME NEW m \in 1 .. (BYTE - 6) \div WORD_BYTES
    PROVE  WORD_BYTES * m \in Nat /\ WORD_BYTES * m >= WORD_BYTES /\ WORD_BYTES * m <= BYTE - 6
  <1> DEFINE x == BYTE - 6
             q == x \div WORD_BYTES
             r == x % WORD_BYTES
  <1>0. WORD_BYTES \in Nat \ {0} /\ x \in Nat
    BY WordSizes
  <1> HIDE DEF x
  <1>a. x \in Nat /\ WORD_BYTES \in Nat \ {0}
    BY <1>0
  <1>1. q \in Nat /\ r \in Nat /\ x = q * WORD_BYTES + r
    <2>1. q \in Nat /\ r \in 0 .. WORD_BYTES - 1 /\ x = q * WORD_BYTES + r
      BY <1>a, Division
    <2> HIDE DEF q, r
    <2> QED BY <2>1
  <1>2. m \in 1 .. q
    BY DEF x
  <1> HIDE DEF q, r
  <1>3. m \in Nat /\ m <= q /\ 1 \in Nat /\ 1 <= m
    BY <1>1, <1>2
  <1>4. WORD_BYTES * m \in Nat /\ WORD_BYTES * m <= WORD_BYTES * q
    BY <1>0, <1>1, <1>3, Products
  <1>5. WORD_BYTES * 1 <= WORD_BYTES * m
    BY <1>0, <1>3, Products
  <1>6. WORD_BYTES * q = q * WORD_BYTES /\ WORD_BYTES * 1 = WORD_BYTES
    BY <1>0, <1>1
  <1>7. WORD_BYTES * q <= x
    <2> DEFINE z == q * WORD_BYTES
    <2>1. z \in Int /\ x = z + r
      BY <1>0, <1>1
    <2> HIDE DEF z
    <2>2. z <= x
      BY <1>0, <1>1, <2>1
    <2> QED BY <1>6, <2>2 DEF z
  <1>8. WORD_BYTES * m <= x
    <2> DEFINE y == WORD_BYTES * m
               z == WORD_BYTES * q
    <2>1. y \in Int /\ z \in Int /\ y <= z /\ z <= x
      BY <1>0, <1>1, <1>4, <1>7
    <2> HIDE DEF y, z
    <2>2. y <= x
      BY <1>0, <2>1
    <2> QED BY <2>2 DEF y
  <1> QED BY <1>4, <1>5, <1>6, <1>8 DEF x

\* A count that lost one or two leaves no whole number of longer words.
LEMMA NotWhole ==
    ASSUME NEW m \in Nat \ {0}, NEW d \in 1 .. 2, WORD_BYTES > 2
    PROVE  WORD_BYTES * m - d \in Nat /\ (WORD_BYTES * m - d) % WORD_BYTES # 0
  <1>0. WORD_BYTES \in Nat \ {0}
    BY WordSizes
  <1> DEFINE n == WORD_BYTES * m
             x == n - d
             q == x \div WORD_BYTES
             r == x % WORD_BYTES
  <1>1. n \in Nat /\ n >= WORD_BYTES
    <2>1. 1 \in Nat /\ 1 <= m /\ WORD_BYTES * 1 = WORD_BYTES /\ m \in Nat
      BY <1>0
    <2>2. WORD_BYTES * 1 <= WORD_BYTES * m /\ WORD_BYTES * m \in Nat
      BY <1>0, <2>1, Products
    <2> QED BY <2>1, <2>2
  <1>2. n = m * WORD_BYTES
    BY <1>0
  <1> HIDE DEF n
  <1>3. x \in Nat
    BY <1>0, <1>1
  <1>a. n = x + d
    BY <1>0, <1>1
  <1> HIDE DEF x
  <1>4. q \in Nat /\ r \in Nat /\ x = q * WORD_BYTES + r
    BY <1>0, <1>3, Division
  <1>5. r # 0
    <2> SUFFICES ASSUME r = 0 PROVE FALSE
      OBVIOUS
    <2> HIDE DEF q, r
    <2> DEFINE k == m - q
    <2>1. k \in Int /\ k * WORD_BYTES = m * WORD_BYTES - q * WORD_BYTES
      BY <1>0, <1>4
    <2>2. k * WORD_BYTES = d
      <3> DEFINE y == q * WORD_BYTES
                 z == k * WORD_BYTES
      <3>1. y \in Int /\ x = y + r /\ z = n - y
        BY <1>0, <1>2, <1>4, <2>1
      <3> HIDE DEF y, z
      <3>2. z = d
        BY <1>1, <1>3, <1>a, <3>1
      <3> QED BY <3>2 DEF z
    <2> HIDE DEF k
    <2>3. k = 0
      BY <1>0, <2>1, <2>2, Multiple
    <2> QED BY <1>0, <2>2, <2>3
  <1> QED BY <1>3, <1>5 DEF n, x, r

\* A line that is read on after, and what may become of a line on its way.
Consumed(l) == l.type # 7 /\ winix_load_srec_mem_val(l) # 0
Retyped(l, t) == [l EXCEPT !.type = t]
Spoiled(l) ==
    {l} \cup {Retyped(l, t) : t \in 0 .. 9}
        \cup {ByteChanged(l, b, d) : b \in 2 .. Len(l.bytes), d \in 1 .. BYTE - 1}
        \cup {ByteChanged(l, 1, BYTE - d) : d \in 1 .. 2}

\* It holds words.
LEMMA ConsumedHolds ==
    ASSUME NEW l, Consumed(l)
    PROVE  Accepted(l) /\ l.type = 3 /\ Stored(l) = WordsIn(l) /\ Stored(l) # <<>>
  <1>1. Accepted(l)
    BY DEF Consumed, winix_load_srec_mem_val
  <1>2. Stored(l) # <<>>
    <2>1. winix_load_srec_mem_val(l) = Len(Stored(l))
      BY <1>1 DEF Consumed, winix_load_srec_mem_val
    <2>2. Len(<<>>) = 0
      OBVIOUS
    <2> QED BY <2>1, <2>2 DEF Consumed
  <1> QED BY <1>1, <1>2 DEF Stored

\* With words of more than two bytes, a line of the program is stored as it was
\* written or not at all.
LEMMA ChunkLine ==
    ASSUME WORD_BYTES > 2,
           NEW chunk \in Seq(ProgramWord), NEW a \in Nat,
           Len(chunk) \in 1 .. (BYTE - 6) \div WORD_BYTES,
           NEW l, l = Record(3, Address(a), FlattenSeq(chunk)),
           NEW m \in Spoiled(l), Consumed(m)
    PROVE  Stored(m) = chunk
  <1> DEFINE n == WORD_BYTES * Len(chunk)
  <1>1. n \in Nat /\ n >= WORD_BYTES /\ n <= BYTE - 6 /\ Len(chunk) \in Nat \ {0}
    <2> DEFINE c == Len(chunk)
    <2>1. c \in 1 .. (BYTE - 6) \div WORD_BYTES /\ c \in Nat
      OBVIOUS
    <2> HIDE DEF c
    <2>2. c # 0
      BY <2>1
    <2>3. WORD_BYTES * c \in Nat /\ WORD_BYTES * c >= WORD_BYTES /\ WORD_BYTES * c <= BYTE - 6
      BY <2>1, ChunkFits
    <2> QED BY <2>1, <2>2, <2>3 DEF c
  <1>2. Stored(l) = chunk
    BY RecordStored
  <1>3. /\ l.type = 3 /\ Shape(l, n) /\ l = Line(l.type, l.bytes)
        /\ l.bytes[n + 6] = Inverted(Total(BodyOf(l, n)))
    <2> DEFINE data == FlattenSeq(chunk)
    <2>1. data \in Seq(ByteValue) /\ Len(data) = n
      BY BytesOfChunk DEF ChunkBytes
    <2> HIDE DEF n, data
    <2> QED BY <1>1, <2>1, RecordHolds DEF data
  <1>4. Accepted(m) /\ m.type = 3
    BY ConsumedHolds
  <1> HIDE DEF n
  <1>5. CASE m \in {Retyped(l, t) : t \in 0 .. 9}
    <2>1. PICK t \in 0 .. 9 : m = Retyped(l, t)
      BY <1>5
    <2>2. m = Line(t, l.bytes)
      BY <1>3, <2>1 DEF Line, Retyped
    <2>3. m = l
      BY <1>3, <1>4, <2>2 DEF Line
    <2> QED BY <1>2, <2>3
  <1>6. CASE \E b \in 2 .. Len(l.bytes) : \E d \in 1 .. BYTE - 1 :
               m = ByteChanged(l, b, d)
    <2>1. PICK b \in 2 .. Len(l.bytes), d \in 1 .. BYTE - 1 : m = ByteChanged(l, b, d)
      BY <1>6
    <2>2. b \in 2 .. n + 6 /\ d \in 1 .. BYTE - 1
      BY <1>3, <2>1 DEF Shape
    <2>3. ~ChecksumOK(m)
      BY <1>1, <1>3, <2>1, <2>2, ByteNoticed
    <2> QED BY <1>4, <2>3 DEF Accepted
  <1>7. CASE \E d \in 1 .. 2 : m = ByteChanged(l, 1, BYTE - d)
    <2>1. PICK d \in 1 .. 2 : m = ByteChanged(l, 1, BYTE - d)
      BY <1>7
    <2>2. m.bytes[1] = (n + 5 + (BYTE - d)) % BYTE
      <3> DEFINE s == l.bytes
      <3>1. s \in Seq(Nat) /\ Len(s) = n + 6 /\ s[1] = n + 5 /\ 1 \in 1 .. n + 6
        BY <1>1, <1>3 DEF Shape
      <3>2. m.bytes = [s EXCEPT ![1] = (s[1] + (BYTE - d)) % BYTE]
        BY <2>1 DEF ByteChanged, Line
      <3> HIDE DEF s
      <3>3. 1 \in DOMAIN s
        BY <3>1
      <3> QED BY <3>1, <3>2, <3>3
    <2>3. m.bytes[1] = n + 5 - d
      <3> DEFINE x == n + 5 - d
      <3>1. x \in 0 .. BYTE - 1 /\ n + 5 + (BYTE - d) = x + BYTE
        BY <1>1, WordSizes
      <3> HIDE DEF x
      <3>2. (x + BYTE) % BYTE = x
        BY <3>1, OnceAround
      <3> QED BY <2>2, <3>1, <3>2 DEF x
    <2>4. DataLength(m) = n - d
      <3>1. AddressLength(m.type) = 4
        BY <1>4 DEF AddressLength
      <3> QED BY <1>1, <2>3, <3>1 DEF DataLength
    <2>5. (n - d) % WORD_BYTES # 0
      BY <1>1, NotWhole DEF n
    <2> QED BY <1>4, <2>4, <2>5 DEF Accepted
  <1> QED BY <1>2, <1>5, <1>6, <1>7 DEF Spoiled

\* The last line ends the file, or ends the load.
LEMMA EntryLine ==
    ASSUME NEW e \in Nat, NEW l, l = Record(7, Address(e), <<>>)
    PROVE  /\ l.type = 7 /\ winix_load_srec_mem_val(l) = e
           /\ \A m \in Spoiled(l) : ~Consumed(m)
  <1> DEFINE data == <<>>
  <1>1. data \in Seq(ByteValue) /\ Len(data) = 0 /\ 0 \in Nat
    OBVIOUS
  <1>2. /\ l.type = 7 /\ Shape(l, 0) /\ l = Line(l.type, l.bytes)
        /\ l.bytes[2] = 0 /\ l.bytes[3] = 0 /\ l.bytes[4] = 0 /\ l.bytes[5] = e
        /\ l.bytes[0 + 6] = Inverted(Total(BodyOf(l, 0)))
    <2> DEFINE n == 0
    <2>1. n \in Nat /\ Len(data) = n /\ data \in Seq(ByteValue) /\ 7 \in {3, 7}
      BY <1>1
    <2>2. l = Record(7, Address(e), data)
      OBVIOUS
    <2> HIDE DEF data, n
    <2>3. /\ l.type = 7 /\ Shape(l, n) /\ l = Line(l.type, l.bytes)
          /\ l.bytes[2] = 0 /\ l.bytes[3] = 0 /\ l.bytes[4] = 0 /\ l.bytes[5] = e
          /\ l.bytes[n + 6] = Inverted(Total(BodyOf(l, n)))
      BY <2>1, <2>2, RecordHolds
    <2> QED BY <2>3 DEF n
  <1>3. DataLength(l) = 0 /\ ChecksumOK(l)
    BY <1>1, <1>2, LineParts
  <1>4. Accepted(l)
    <2>1. 0 % WORD_BYTES = 0
      <3>1. WORD_BYTES \in Nat \ {0} /\ 0 * WORD_BYTES = 0 /\ 0 \in Nat
        BY WordSizes
      <3> QED BY <3>1, MultipleOf
    <2> QED BY <1>2, <1>3, <2>1 DEF Accepted, KnownTypes
  <1>5. SubSeq(l.bytes, 2, 5) = <<0, 0, 0, e>>
    <2> DEFINE s == l.bytes
    <2>1. s \in Seq(Nat) /\ Len(s) = 6
      BY <1>2 DEF Shape
    <2>2. s[2] = 0 /\ s[3] = 0 /\ s[4] = 0 /\ s[5] = e
      BY <1>2
    <2> HIDE DEF s
    <2>3. SubSeq(s, 2, 5) = <<s[2], s[3], s[4], s[5]>>
      <3>1. SubSeq(s, 2, 5) = [i \in 1 .. (1 + 5 - 2) |-> s[i + 2 - 1]]
        BY <2>1
      <3>2. 1 + 5 - 2 = 4 /\ \A i \in Int : i + 2 - 1 = i + 1
        OBVIOUS
      <3>3. SubSeq(s, 2, 5) = [i \in 1 .. 4 |-> s[i + 1]]
        BY <3>1, <3>2
      <3>4. [i \in 1 .. 4 |-> s[i + 1]] = <<s[2], s[3], s[4], s[5]>>
        OBVIOUS
      <3> QED BY <3>3, <3>4
    <2> QED BY <2>2, <2>3 DEF s
  <1>6. winix_load_srec_mem_val(l) = e
    <2>1. Number(<<0, 0, 0, e>>) = e
      BY EntryNumber
    <2> QED BY <1>2, <1>4, <1>5, <2>1 DEF winix_load_srec_mem_val
  <1>7. ASSUME NEW m \in Spoiled(l), Consumed(m) PROVE FALSE
    <2>1. Accepted(m) /\ m.type = 3 /\ Stored(m) = WordsIn(m) /\ Stored(m) # <<>>
      BY <1>7, ConsumedHolds
    <2>2. CASE m.type = l.type
      BY <1>2, <2>1, <2>2
    <2>3. CASE m \in {Retyped(l, t) : t \in 0 .. 9}
      <3>1. m.bytes[1] = 5
        BY <1>2, <2>3 DEF Retyped, Shape, Line
      <3>2. DataLength(m) = 0
        BY <2>1, <3>1 DEF DataLength, AddressLength
      <3>3. 0 \div WORD_BYTES = 0
        <4>1. WORD_BYTES \in Nat \ {0} /\ 0 * WORD_BYTES = 0 /\ 0 \in Nat
          BY WordSizes
        <4> QED BY <4>1, MultipleOf
      <3>4. WordsIn(m) = <<>>
        BY <3>2, <3>3 DEF WordsIn
      <3> QED BY <2>1, <3>4
    <2> QED BY <1>7, <2>2, <2>3 DEF Spoiled, ByteChanged, Line
  <1> QED BY <1>2, <1>6, <1>7

-----------------------------------------------------------------------------
(* The file, and what may become of it. *)

\* The elements of two sequences put together.
LEMMA JoinedHas ==
    ASSUME NEW s, NEW t, Sequence(s), Sequence(t)
    PROVE  /\ Len(s) \in Nat /\ Len(t) \in Nat
           /\ Sequence(s \o t) /\ Len(s \o t) = Len(s) + Len(t)
           /\ \A i \in 1 .. Len(s) : (s \o t)[i] = s[i]
           /\ \A i \in 1 .. Len(t) : (s \o t)[Len(s) + i] = t[i]
  <1>1. PICK S : s \in [1 .. Len(s) -> S] /\ Len(s) \in Nat
    BY SequenceHas
  <1>2. PICK T : t \in [1 .. Len(t) -> T] /\ Len(t) \in Nat
    BY SequenceHas
  <1> DEFINE B == S \cup T
             m == Len(s)
             n == Len(t)
  <1>3. s \in [1 .. m -> B] /\ t \in [1 .. n -> B] /\ m \in Nat /\ n \in Nat
    BY <1>1, <1>2
  <1> HIDE DEF B, m, n
  <1>4. s \in Seq(B) /\ t \in Seq(B)
    BY <1>3, SequenceIs
  <1>5. /\ \A i \in 1 .. Len(s) : (s \o t)[i] = s[i]
        /\ \A i \in 1 .. Len(t) : (s \o t)[Len(s) + i] = t[i]
    BY <1>4, TwoParts
  <1>6. Sequence(s \o t) /\ Len(s \o t) = Len(s) + Len(t)
    BY Joined
  <1> QED BY <1>1, <1>2, <1>5, <1>6

\* A sequence that lost an element.
LEMMA RemovedLine ==
    ASSUME NEW s, Sequence(s), NEW i \in 1 .. Len(s)
    PROVE  /\ Sequence(RemoveAt(s, i)) /\ Len(RemoveAt(s, i)) = Len(s) - 1
           /\ Len(s) \in Nat
           /\ \A j \in 1 .. Len(s) - 1 :
                 /\ j < i => RemoveAt(s, i)[j] = s[j]
                 /\ j >= i => RemoveAt(s, i)[j] = s[j + 1]
  <1>1. PICK S : s \in Seq(S)
    BY DEF Sequence
  <1>2. Sequence(RemoveAt(s, i)) /\ Len(RemoveAt(s, i)) = Len(s) - 1
    BY Shortened
  <1> DEFINE a == SubSeq(s, 1, i - 1)
             b == SubSeq(s, i + 1, Len(s))
  <1>3. Len(s) \in Nat /\ i \in Nat
    BY <1>1
  <1>4. a \in Seq(S) /\ Len(a) = i - 1 /\ \A j \in 1 .. i - 1 : a[j] = s[j]
    <2>1. a = [j \in 1 .. i - 1 |-> s[j]]
      BY <1>1
    <2>2. \A j \in 1 .. i - 1 : s[j] \in S
      BY <1>1
    <2>a. a \in [1 .. i - 1 -> S]
      BY <2>1, <2>2
    <2>b. i - 1 \in Nat
      BY <1>3
    <2> HIDE DEF a
    <2> DEFINE n == i - 1
    <2>3. n \in Nat /\ a \in [1 .. n -> S]
      BY <2>a, <2>b
    <2> HIDE DEF n
    <2>4. a \in Seq(S) /\ Len(a) = n
      BY <2>3, SequenceIs
    <2> QED BY <2>1, <2>4 DEF n
  <1>5. b \in Seq(S) /\ Len(b) = Len(s) - i /\ \A j \in 1 .. Len(s) - i : b[j] = s[j + i]
    <2>1. b = [j \in 1 .. Len(s) - i |-> s[j + i]]
      <3>1. b = [j \in 1 .. 1 + Len(s) - (i + 1) |-> s[j + (i + 1) - 1]]
        BY <1>1, <1>3
      <3>2. /\ 1 + Len(s) - (i + 1) = Len(s) - i
            /\ \A j \in Int : j + (i + 1) - 1 = j + i
        BY <1>3
      <3> QED BY <3>1, <3>2
    <2>2. \A j \in 1 .. Len(s) - i : s[j + i] \in S
      BY <1>1, <1>3
    <2>a. b \in [1 .. Len(s) - i -> S]
      BY <2>1, <2>2
    <2>b. Len(s) - i \in Nat
      BY <1>3
    <2> HIDE DEF b
    <2> DEFINE n == Len(s) - i
    <2>3. n \in Nat /\ b \in [1 .. n -> S]
      BY <2>a, <2>b
    <2> HIDE DEF n
    <2>4. b \in Seq(S) /\ Len(b) = n
      BY <2>3, SequenceIs
    <2> QED BY <2>1, <2>4 DEF n
  <1>6. RemoveAt(s, i) = a \o b
    BY DEF RemoveAt
  <1> HIDE DEF a, b
  <1>7. /\ \A j \in 1 .. Len(a) : (a \o b)[j] = a[j]
        /\ \A j \in 1 .. Len(b) : (a \o b)[Len(a) + j] = b[j]
    <2>1. \A j \in 1 .. Len(a) : (a \o b)[j] = a[j]
      BY <1>4, <1>5, TwoParts
    <2>2. \A j \in 1 .. Len(b) : (a \o b)[Len(a) + j] = b[j]
      BY <1>4, <1>5, TwoParts
    <2> QED BY <2>1, <2>2
  <1>8. ASSUME NEW j \in 1 .. Len(s) - 1, j < i PROVE RemoveAt(s, i)[j] = s[j]
    <2>1. j \in 1 .. i - 1
      BY <1>3, <1>8
    <2> QED BY <1>4, <1>6, <1>7, <2>1
  <1>9. ASSUME NEW j \in 1 .. Len(s) - 1, j >= i PROVE RemoveAt(s, i)[j] = s[j + 1]
    <2> DEFINE k == j - (i - 1)
    <2>1. k \in 1 .. Len(s) - i /\ (i - 1) + k = j /\ k + i = j + 1
      BY <1>3, <1>9
    <2> HIDE DEF k
    <2>2. (a \o b)[Len(a) + k] = b[k] /\ b[k] = s[k + i]
      BY <1>5, <1>7, <2>1
    <2> QED BY <1>4, <1>6, <2>1, <2>2
  <1> QED BY <1>2, <1>3, <1>8, <1>9

\* The lines of a file as it was written.
FileOf(prog, file) ==
    LET n == Len(prog.chunks) IN
    /\ n \in Nat /\ Sequence(file) /\ Len(file) = n + 2
    /\ file[1] = WrittenHeader(Len(ProgramWords(prog)))
    /\ \A i \in 1 .. n : file[i + 1] = Record(3, Address(i), FlattenSeq(prog.chunks[i]))
    /\ file[n + 2] = Record(7, Address(prog.entry), <<>>)

\* WrittenFile, line by line.
LEMMA FileIs ==
    ASSUME NEW prog \in Program PROVE FileOf(prog, WrittenFile(prog))
  <1> DEFINE h == WrittenHeader(Len(ProgramWords(prog)))
             n == Len(prog.chunks)
             r == [i \in 1 .. n |-> Record(3, Address(i), FlattenSeq(prog.chunks[i]))]
             e == Record(7, Address(prog.entry), <<>>)
  <1>1. n \in Nat
    BY DEF Program
  <1>2. WrittenFile(prog) = <<h>> \o r \o <<e>>
    BY DEF WrittenFile
  <1>3. Sequence(r) /\ Len(r) = n
    <2> DEFINE R == {r[i] : i \in 1 .. n}
    <2>1. r \in [1 .. n -> R]
      OBVIOUS
    <2> HIDE DEF r, n, R
    <2> QED BY <1>1, <2>1, SequenceIs
  <1>4. \A i \in 1 .. n : r[i] = Record(3, Address(i), FlattenSeq(prog.chunks[i]))
    OBVIOUS
  <1> HIDE DEF h, r, e, n
  <1>5. ASSUME NEW x PROVE Sequence(<<x>>) /\ Len(<<x>>) = 1 /\ <<x>>[1] = x
    <2>1. <<x>> \in Seq({x}) /\ Len(<<x>>) = 1 /\ <<x>>[1] = x
      OBVIOUS
    <2> QED BY <2>1 DEF Sequence
  <1> DEFINE u == <<h>> \o r
             w == u \o <<e>>
  <1>6. /\ Sequence(u) /\ Len(u) = 1 + n
        /\ u[1] = h /\ \A i \in 1 .. n : u[1 + i] = r[i]
    <2> DEFINE t == <<h>>
    <2>1. Sequence(t) /\ Len(t) = 1 /\ t[1] = h
      BY <1>5
    <2>2. u = t \o r
      OBVIOUS
    <2> HIDE DEF t, u
    <2>3. Sequence(u) /\ Len(u) = Len(t) + Len(r)
      BY <1>3, <2>1, <2>2, JoinedHas
    <2>4. \A i \in 1 .. Len(t) : u[i] = t[i]
      BY <1>3, <2>1, <2>2, JoinedHas
    <2>a. \A i \in 1 .. Len(r) : (t \o r)[Len(t) + i] = r[i]
      <3>1. Sequence(t) /\ Sequence(r)
        BY <1>3, <2>1
      <3> QED BY <3>1, JoinedHas
    <2>5. \A i \in 1 .. Len(r) : u[Len(t) + i] = r[i]
      BY <2>2, <2>a
    <2> QED BY <1>1, <1>3, <2>1, <2>3, <2>4, <2>5
  <1> HIDE DEF u
  <1>7. /\ Sequence(w) /\ Len(w) = n + 2
        /\ w[n + 2] = e /\ \A i \in 1 .. n + 1 : w[i] = u[i]
    <2> DEFINE t == <<e>>
    <2>1. Sequence(t) /\ Len(t) = 1 /\ t[1] = e
      BY <1>5
    <2>2. w = u \o t
      OBVIOUS
    <2> HIDE DEF t, w
    <2>3. Sequence(w) /\ Len(w) = Len(u) + Len(t)
      BY <1>6, <2>1, <2>2, JoinedHas
    <2>4. \A i \in 1 .. Len(u) : w[i] = u[i]
      BY <1>6, <2>1, <2>2, JoinedHas
    <2>a. \A i \in 1 .. Len(t) : (u \o t)[Len(u) + i] = t[i]
      <3>1. Sequence(u) /\ Sequence(t)
        BY <1>6, <2>1
      <3> QED BY <3>1, JoinedHas
    <2>5. \A i \in 1 .. Len(t) : w[Len(u) + i] = t[i]
      BY <2>2, <2>a
    <2>6. w[Len(u) + 1] = e
      BY <2>1, <2>5
    <2>7. Len(u) + 1 = n + 2 /\ Len(u) = n + 1
      BY <1>1, <1>6
    <2> QED BY <2>1, <2>3, <2>4, <2>6, <2>7
  <1>8. WrittenFile(prog) = w
    BY <1>2 DEF u
  <1> HIDE DEF w
  <1>9. w[1] = h
    <2>1. 1 \in 1 .. n + 1
      BY <1>1
    <2> QED BY <1>6, <1>7, <2>1
  <1>10. ASSUME NEW i \in 1 .. n
         PROVE  w[i + 1] = Record(3, Address(i), FlattenSeq(prog.chunks[i]))
    <2>1. i + 1 \in 1 .. n + 1 /\ i + 1 = 1 + i
      BY <1>1
    <2> QED BY <1>4, <1>6, <1>7, <2>1
  <1> QED BY <1>1, <1>7, <1>8, <1>9, <1>10 DEF FileOf, n, h, e

\* A damaged file has lost a line, or has one line that is not what it was.
LEMMA FileDamage ==
    ASSUME NEW s, Sequence(s), NEW t \in Damages(s),
           \A j \in 1 .. Len(s) : s[j] = Line(s[j].type, s[j].bytes) /\ Len(s[j].bytes) \in Nat
    PROVE  \/ \E i \in 1 .. Len(s) : t = RemoveAt(s, i)
           \/ /\ Sequence(t) /\ Len(t) = Len(s)
              /\ \A j \in 1 .. Len(s) : t[j] \in Spoiled(s[j])
  <1> DEFINE at == 1 .. Len(s)
             Same == /\ Sequence(t) /\ Len(t) = Len(s)
                     /\ \A j \in 1 .. Len(s) : t[j] \in Spoiled(s[j])
  <1>1. \/ t \in {RemoveAt(s, i) : i \in at}
        \/ t \in {Typed(s, i, x) : i \in at, x \in 0 .. 9}
        \/ \E i \in at : t \in {Changed(s, i, b, d) : b \in 2 .. Len(s[i].bytes), d \in Deltas}
        \/ t \in {Changed(s, i, 1, BYTE - d) : i \in at, d \in 1 .. 2}
    <2> DEFINE C(i) == {Changed(s, i, b, d) : b \in 2 .. Len(s[i].bytes), d \in Deltas}
               A == {RemoveAt(s, i) : i \in at} \cup {Typed(s, i, x) : i \in at, x \in 0 .. 9}
               B == {Changed(s, i, 1, BYTE - d) : i \in at, d \in 1 .. 2}
    <2>1. Damages(s) = A \cup (UNION {C(i) : i \in at}) \cup B
      BY DEF Damages, Typed
    <2> HIDE DEF C, at
    <2>2. t \in A \cup B \/ \E i \in at : t \in C(i)
      <3> DEFINE U == {C(i) : i \in at}
      <3>1. t \in UNION U => \E X \in U : t \in X
        BY Zenon
      <3>2. (\E X \in U : t \in X) => \E i \in at : t \in C(i)
        BY Zenon
      <3>3. t \in UNION U => \E i \in at : t \in C(i)
        BY <3>1, <3>2, Zenon
      <3> DEFINE Q == \E i \in at : t \in C(i)
      <3>4. t \in A \cup (UNION U) \cup B
        BY <2>1
      <3> HIDE DEF A, B, U, Q
      <3>5. t \in A \cup B \/ Q
        BY <3>3, <3>4 DEF Q
      <3> QED BY <3>5 DEF Q
    <2> QED BY <2>2 DEF C
  <1>2. PICK S : s \in [1 .. Len(s) -> S] /\ Len(s) \in Nat
    BY SequenceHas
  <1>3. ASSUME NEW i \in at, NEW x \in Spoiled(s[i]), t = With(s, i, x) PROVE Same
    <2>1. Sequence(t) /\ Len(t) = Len(s)
      BY <1>3, Altered
    <2>2. ASSUME NEW j \in 1 .. Len(s) PROVE t[j] \in Spoiled(s[j])
      <3>1. t[j] = IF j = i THEN x ELSE s[j]
        BY <1>2, <1>3 DEF With
      <3> QED BY <1>3, <3>1 DEF Spoiled
    <2> QED BY <2>1, <2>2
  <1> HIDE DEF at, Same
  <1>4. ASSUME NEW i, NEW x, t = Typed(s, i, x)
        PROVE  t = With(s, i, Retyped(s[i], x))
    BY <1>4 DEF Typed, With, Retyped
  <1>5. ASSUME NEW i, NEW x, t = Typed(s, i, x), i \in at, x \in 0 .. 9 PROVE Same
    <2>1. Retyped(s[i], x) \in Spoiled(s[i])
      BY <1>5 DEF Spoiled
    <2> QED BY <1>3, <1>4, <1>5, <2>1
  <1>6. CASE t \in {RemoveAt(s, i) : i \in at}
    BY <1>6 DEF at
  <1>7. CASE t \in {Typed(s, i, x) : i \in at, x \in 0 .. 9}
    BY <1>5, <1>7 DEF Same
  <1>8. ASSUME NEW i \in at, NEW b, NEW d, t = Changed(s, i, b, d),
               ByteChanged(s[i], b, d) \in Spoiled(s[i])
        PROVE  Same
    <2> DEFINE x == [s[i].bytes EXCEPT ![b] = (s[i].bytes[b] + d) % BYTE]
    <2>a. t = With(s, i, [s[i] EXCEPT !.bytes = x])
      BY <1>8 DEF Changed, With
    <2>b. s[i] = Line(s[i].type, s[i].bytes)
      BY DEF at
    <2> HIDE DEF x
    <2>c. [s[i] EXCEPT !.bytes = x] = Line(s[i].type, x)
      BY <2>b DEF Line
    <2>1. t = With(s, i, ByteChanged(s[i], b, d))
      BY <2>a, <2>c DEF ByteChanged, x
    <2> QED BY <1>3, <1>8, <2>1
  <1>9. CASE \E i \in at : t \in {Changed(s, i, b, d) : b \in 2 .. Len(s[i].bytes), d \in Deltas}
    <2>1. PICK i \in at : t \in {Changed(s, i, b, d) : b \in 2 .. Len(s[i].bytes), d \in Deltas}
      BY <1>9
    <2>2. PICK b \in 2 .. Len(s[i].bytes), d \in Deltas : t = Changed(s, i, b, d)
      BY <2>1
    <2>3. d \in 1 .. BYTE - 1
      BY <2>2, DeltaAssumption
    <2>4. ByteChanged(s[i], b, d) \in Spoiled(s[i])
      BY <2>2, <2>3 DEF Spoiled
    <2> QED BY <1>8, <2>2, <2>4 DEF Same
  <1>10. CASE t \in {Changed(s, i, 1, BYTE - d) : i \in at, d \in 1 .. 2}
    <2>1. PICK i \in at, d \in 1 .. 2 : t = Changed(s, i, 1, BYTE - d)
      BY <1>10
    <2>2. ByteChanged(s[i], 1, BYTE - d) \in Spoiled(s[i])
      BY DEF Spoiled
    <2> QED BY <1>8, <2>1, <2>2 DEF Same
  <1> QED BY <1>1, <1>6, <1>7, <1>9, <1>10

\* The bytes of a line are numbers, and its count is a byte that does not reach
\* behind the line.
Plain(l) ==
    /\ l.bytes \in Seq(Nat) /\ Len(l.bytes) >= 4
    /\ l.bytes[1] \in Nat /\ l.bytes[1] < Len(l.bytes) /\ l.bytes[1] < BYTE
AsWritten(l) ==
    /\ l = Line(l.type, l.bytes) /\ Plain(l) /\ l.bytes[1] \in 3 .. BYTE - 1

\* A damaged line can still be read: its bytes are all there.
LEMMA PlainStays ==
    ASSUME NEW l, AsWritten(l), NEW m \in Spoiled(l) PROVE Plain(m)
  <1> DEFINE s == l.bytes
             c == s[1]
  <1>0. BYTE \in Nat \ {0}
    BY WordSizes
  <1>1. s \in Seq(Nat) /\ Len(s) \in Nat /\ Len(s) >= 4 /\ c \in 3 .. BYTE - 1 /\ c < Len(s)
    BY DEF AsWritten, Plain
  <1>2. CASE m.bytes = s
    BY <1>2 DEF AsWritten, Plain
  <1>3. CASE m \in {Retyped(l, t) : t \in 0 .. 9}
    <2>1. m.bytes = s
      BY <1>3 DEF Retyped, AsWritten, Line
    <2> QED BY <1>2, <2>1
  <1>4. ASSUME NEW b \in 1 .. Len(s), NEW d \in Nat, m = ByteChanged(l, b, d),
               (s[b] + d) % BYTE < Len(s) \/ b # 1
        PROVE  Plain(m)
    <2> DEFINE t == m.bytes
               y == (s[b] + d) % BYTE
    <2>1. t = [s EXCEPT ![b] = y]
      BY <1>4 DEF ByteChanged, Line
    <2>2. y \in Nat /\ y < BYTE
      <3> DEFINE z == s[b] + d
      <3>1. z \in Nat
        <4>1. s \in Seq(Nat) /\ b \in 1 .. Len(s)
          BY <1>1
        <4> HIDE DEF s
        <4>2. s[b] \in Nat
          BY <4>1
        <4> QED BY <4>2
      <3> HIDE DEF z
      <3>2. z % BYTE \in 0 .. BYTE - 1
        BY <1>0, <3>1, Division
      <3> QED BY <1>0, <3>2 DEF z
    <2>3. y < Len(s) \/ b # 1
      BY <1>4
    <2> DEFINE n == Len(s)
    <2>4. s \in [1 .. n -> Nat] /\ n \in Nat /\ n >= 4 /\ c < n /\ 1 \in 1 .. n
      BY <1>1
    <2>5. b \in 1 .. n
      OBVIOUS
    <2>6. s[1] = c
      OBVIOUS
    <2> HIDE DEF t, y, s, n, c
    <2>7. t \in [1 .. n -> Nat]
      BY <2>1, <2>2, <2>4
    <2>8. t \in Seq(Nat) /\ Len(t) = n
      BY <2>4, <2>7, SequenceIs
    <2>9. t[1] \in Nat /\ t[1] < n /\ t[1] < BYTE
      <3>1. CASE b = 1
        <4>1. t[1] = y /\ y < n
          BY <2>1, <2>3, <2>4, <3>1 DEF n
        <4> QED BY <2>2, <4>1
      <3>2. CASE b # 1
        <4>1. t[1] = c /\ c \in Nat /\ c < BYTE
          <5>1. c \in Nat /\ c < BYTE
            BY <1>0, <1>1 DEF c, s
          <5> QED BY <2>1, <2>4, <2>6, <3>2, <5>1
        <4> QED BY <2>4, <4>1
      <3> QED BY <3>1, <3>2
    <2> QED BY <2>4, <2>8, <2>9 DEF Plain, t
  <1>5. CASE m \in {ByteChanged(l, b, d) : b \in 2 .. Len(l.bytes), d \in 1 .. BYTE - 1}
    <2>1. PICK b \in 2 .. Len(l.bytes), d \in 1 .. BYTE - 1 : m = ByteChanged(l, b, d)
      BY <1>5
    <2>2. b \in 1 .. Len(s) /\ b # 1 /\ d \in Nat
      <3> DEFINE n == Len(s)
      <3>1. b \in 2 .. n /\ n \in Nat
        BY <1>1
      <3> HIDE DEF n
      <3>2. b \in 1 .. n /\ b # 1
        BY <3>1
      <3> QED BY <1>0, <3>2 DEF n
    <2> QED BY <1>4, <2>1, <2>2
  <1>6. CASE m \in {ByteChanged(l, 1, BYTE - d) : d \in 1 .. 2}
    <2>1. PICK d \in 1 .. 2 : m = ByteChanged(l, 1, BYTE - d)
      BY <1>6
    <2> DEFINE x == c - d
    <2>2. /\ x \in 0 .. BYTE - 1 /\ s[1] + (BYTE - d) = x + BYTE /\ x < Len(s)
          /\ BYTE - d \in Nat /\ 1 \in 1 .. Len(s)
      <3> DEFINE n == Len(s)
      <3>1. c \in 3 .. BYTE - 1 /\ n \in Nat /\ c < n /\ s[1] = c /\ n >= 4
        BY <1>1
      <3> HIDE DEF n, c
      <3>2. /\ x \in 0 .. BYTE - 1 /\ c + (BYTE - d) = x + BYTE /\ x < n
            /\ BYTE - d \in Nat /\ 1 \in 1 .. n
        BY <3>1, WordSizes
      <3> QED BY <3>1, <3>2 DEF n, c
    <2> HIDE DEF x, s
    <2>3. (x + BYTE) % BYTE = x
      BY <2>2, OnceAround
    <2>4. (s[1] + (BYTE - d)) % BYTE < Len(s)
      BY <2>2, <2>3
    <2> QED BY <1>4, <2>1, <2>2, <2>4
  <1> QED BY <1>2, <1>3, <1>5, <1>6 DEF Spoiled

\* The header: a count that the kernel reads back, unless it is small.
LEMMA HeaderIs ==
    ASSUME NEW c \in Nat, NEW h, h = WrittenHeader(c)
    PROVE  /\ AsWritten(h) /\ h.type = 6
           /\ HeaderSum(h) = 3 + c
           /\ 3 + c > BYTE - 1 => winix_load_srec_words_length(h) = c
           /\ 3 + c <= BYTE - 1 => winix_load_srec_words_length(h) = 0
  <1>0. BYTE \in Nat \ {0}
    BY WordSizes
  <1> DEFINE sum == 3 + c
             check == IF sum > BYTE - 1 THEN Inverted(sum) ELSE sum
             q == c \div BYTE
             r == c % BYTE
             s == h.bytes
  <1>1. q \in Nat /\ r \in Nat /\ c = q * BYTE + r
    <2>1. q \in Nat /\ r \in 0 .. BYTE - 1 /\ c = q * BYTE + r
      BY <1>0, Division
    <2> HIDE DEF q, r
    <2> QED BY <1>0, <2>1
  <1>2. sum \in Nat
    OBVIOUS
  <1>3. check \in Nat
    <2> HIDE DEF sum
    <2>1. sum % BYTE \in 0 .. BYTE - 1
      BY <1>0, <1>2, Division
    <2> QED BY <1>0, <1>2, <2>1 DEF Inverted
  <1>4. h = Line(6, <<3, q, r, check>>)
    BY DEF WrittenHeader
  <1> HIDE DEF check, q, r
  <1>5. h.type = 6 /\ s = <<3, q, r, check>> /\ h = Line(h.type, h.bytes)
    BY <1>4 DEF Line
  <1>6. s \in Seq(Nat) /\ Len(s) = 4 /\ s[1] = 3 /\ s[2] = q /\ s[3] = r /\ s[4] = check
    <2>1. /\ <<3, q, r, check>> \in Seq(Nat) /\ Len(<<3, q, r, check>>) = 4
          /\ <<3, q, r, check>>[1] = 3 /\ <<3, q, r, check>>[2] = q
          /\ <<3, q, r, check>>[3] = r /\ <<3, q, r, check>>[4] = check
      BY <1>1, <1>3
    <2> QED BY <1>5, <2>1
  <1> HIDE DEF s
  <1>7. SubSeq(s, 2, s[1]) = <<q, r>>
    <2>1. SubSeq(s, 2, 3) = [i \in 1 .. (1 + 3 - 2) |-> s[i + 2 - 1]]
      BY <1>6
    <2>2. 1 + 3 - 2 = 2 /\ \A i \in Int : i + 2 - 1 = i + 1
      OBVIOUS
    <2>3. SubSeq(s, 2, 3) = [i \in 1 .. 2 |-> s[i + 1]]
      BY <2>1, <2>2
    <2>4. [i \in 1 .. 2 |-> s[i + 1]] = <<s[2], s[3]>>
      OBVIOUS
    <2> QED BY <1>6, <2>3, <2>4
  <1>8. Number(SubSeq(s, 2, s[1])) = c
    BY <1>1, <1>7, TwoDigits
  <1>9. HeaderSum(h) = sum
    BY <1>6, <1>8 DEF HeaderSum, s
  <1>10. AsWritten(h)
    BY <1>5, <1>6, WordSizes DEF AsWritten, Plain, s
  <1> HIDE DEF sum
  <1>11. ASSUME sum > BYTE - 1 PROVE winix_load_srec_words_length(h) = c
    <2>1. s[s[1] + 1] = Inverted(sum)
      <3>1. s[1] + 1 = 4
        BY <1>6
      <3> QED BY <1>6, <1>11, <3>1 DEF check
    <2> QED BY <1>5, <1>8, <1>9, <1>11, <2>1 DEF winix_load_srec_words_length, s
  <1>12. ASSUME ~(sum > BYTE - 1) PROVE winix_load_srec_words_length(h) = 0
    BY <1>9, <1>12 DEF winix_load_srec_words_length
  <1>13. sum <= BYTE - 1 => ~(sum > BYTE - 1)
    BY <1>0, <1>2
  <1> QED BY <1>5, <1>9, <1>10, <1>11, <1>12, <1>13 DEF sum

\* Whatever the first line, a number is read from it.
LEMMA CountsAreNat ==
    ASSUME NEW l, Plain(l) PROVE winix_load_srec_words_length(l) \in Nat
  <1> DEFINE s == l.bytes
             k == s[1]
             t == SubSeq(s, 2, k)
  <1>1. s \in Seq(Nat) /\ k \in Nat /\ k <= Len(s)
    BY DEF Plain
  <1>2. t \in Seq(Nat)
    <2> HIDE DEF s, k
    <2> QED BY <1>1
  <1> HIDE DEF t
  <1>3. Number(t) \in Nat
    BY <1>2, NumberIsNat
  <1> QED BY <1>3 DEF winix_load_srec_words_length, t

Files(prog) == Damages(WrittenFile(prog)) \cup {WrittenFile(prog)}

\* What a program is made of.
LEMMA ProgramParts ==
    ASSUME NEW prog \in Program
    PROVE  /\ prog.chunks \in Seq(Seq(ProgramWord)) /\ prog.entry \in 0 .. BYTE - 1
           /\ Len(prog.chunks) \in Nat
           /\ \A i \in 1 .. Len(prog.chunks) :
                 /\ prog.chunks[i] \in Seq(ProgramWord)
                 /\ Len(prog.chunks[i]) \in 1 .. (BYTE - 6) \div WORD_BYTES
  <1>1. prog.chunks \in Seq(Seq(ProgramWord)) /\ prog.entry \in 0 .. BYTE - 1
    BY DEF Program
  <1>2. \A i \in DOMAIN prog.chunks :
           Len(prog.chunks[i]) \in 1 .. (BYTE - 6) \div WORD_BYTES
    BY DEF Program
  <1> DEFINE chunks == prog.chunks
             S == Seq(ProgramWord)
             q == (BYTE - 6) \div WORD_BYTES
  <1>3. chunks \in Seq(S) /\ \A i \in DOMAIN chunks : Len(chunks[i]) \in 1 .. q
    BY <1>1, <1>2
  <1> HIDE DEF chunks, S, q
  <1>4. /\ Len(chunks) \in Nat
        /\ \A i \in 1 .. Len(chunks) : chunks[i] \in S /\ Len(chunks[i]) \in 1 .. q
    BY <1>3
  <1> QED BY <1>1, <1>4 DEF chunks, S, q

\* A record short enough for its count is as the tools write it.
LEMMA RecordAsWritten ==
    ASSUME NEW l, NEW n \in Nat, n <= BYTE - 6, l = Line(l.type, l.bytes), Shape(l, n)
    PROVE  AsWritten(l)
  <1> DEFINE s == l.bytes
  <1>1. s \in Seq(Nat) /\ Len(s) = n + 6 /\ s[1] = n + 5
    BY DEF Shape
  <1> HIDE DEF s
  <1>2. Len(s) >= 4 /\ s[1] \in Nat /\ s[1] < Len(s) /\ s[1] \in 3 .. BYTE - 1 /\ s[1] < BYTE
    BY <1>1, WordSizes
  <1> QED BY <1>1, <1>2 DEF AsWritten, Plain, s

\* Every line of a file is as the tools write it; there is one for each chunk.
LEMMA WrittenLines ==
    ASSUME NEW prog \in Program
    PROVE  \A j \in 1 .. Len(WrittenFile(prog)) : AsWritten(WrittenFile(prog)[j])
  <1> DEFINE file == WrittenFile(prog)
             n == Len(prog.chunks)
  <1>1. FileOf(prog, file)
    BY FileIs
  <1>2. n \in Nat /\ Len(file) = n + 2
    BY <1>1 DEF FileOf
  <1>3. AsWritten(file[1])
    <2> DEFINE c == Len(ProgramWords(prog))
    <2>1. c \in Nat
      <3>1. FlattenSeq(prog.chunks) \in Seq(ProgramWord)
        BY ProgramParts, FlattenAppend
      <3> QED BY <3>1 DEF ProgramWords
    <2>2. file[1] = WrittenHeader(c)
      BY <1>1 DEF FileOf
    <2> HIDE DEF c, file
    <2> QED BY <2>1, <2>2, HeaderIs
  <1>4. AsWritten(file[n + 2])
    <2> DEFINE l == file[n + 2]
               data == <<>>
               m == 0
    <2>1. l = Record(7, Address(prog.entry), data)
      BY <1>1 DEF FileOf
    <2>2. data \in Seq(ByteValue) /\ Len(data) = m /\ m \in Nat /\ prog.entry \in Nat
          /\ m <= BYTE - 6
      BY ProgramParts, WordSizes
    <2> HIDE DEF l, data, m
    <2>3. Shape(l, m) /\ l = Line(l.type, l.bytes)
      BY <2>1, <2>2, RecordHolds
    <2>4. AsWritten(l)
      BY <2>2, <2>3, RecordAsWritten
    <2> QED BY <2>4 DEF l
  <1>5. ASSUME NEW i \in 1 .. n PROVE AsWritten(file[i + 1])
    <2> DEFINE l == file[i + 1]
               chunk == prog.chunks[i]
               data == FlattenSeq(chunk)
               m == WORD_BYTES * Len(chunk)
    <2>1. l = Record(3, Address(i), data)
      BY <1>1 DEF FileOf
    <2>2. chunk \in Seq(ProgramWord) /\ Len(chunk) \in 1 .. (BYTE - 6) \div WORD_BYTES
      BY ProgramParts
    <2>3. m \in Nat /\ m <= BYTE - 6
      <3> DEFINE k == Len(chunk)
      <3>1. k \in 1 .. (BYTE - 6) \div WORD_BYTES
        BY <2>2
      <3> HIDE DEF k
      <3>2. WORD_BYTES * k \in Nat /\ WORD_BYTES * k <= BYTE - 6
        BY <3>1, ChunkFits
      <3> QED BY <3>2 DEF k
    <2>4. data \in Seq(ByteValue) /\ Len(data) = m
      <3> HIDE DEF chunk
      <3> QED BY <2>2, BytesOfChunk DEF ChunkBytes
    <2>5. i \in Nat
      BY <1>2
    <2> HIDE DEF l, data, m, chunk
    <2>6. Shape(l, m) /\ l = Line(l.type, l.bytes)
      BY <2>1, <2>3, <2>4, <2>5, RecordHolds
    <2>7. AsWritten(l)
      BY <2>3, <2>6, RecordAsWritten
    <2> QED BY <2>7 DEF l
  <1> HIDE DEF file, n
  <1>6. ASSUME NEW j \in 1 .. Len(file) PROVE AsWritten(file[j])
    <2>1. CASE j = 1
      BY <1>3, <2>1
    <2>2. CASE j = n + 2
      BY <1>4, <2>2
    <2>3. CASE j # 1 /\ j # n + 2
      <3> DEFINE i == j - 1
      <3>1. i \in 1 .. n /\ i + 1 = j
        BY <1>2, <2>3
      <3> HIDE DEF i
      <3> QED BY <1>5, <3>1
    <2> QED BY <2>1, <2>2, <2>3
  <1> QED BY <1>6 DEF file

\* Whatever a file suffered: it has lost a line, or has the lines it had, one of
\* them spoiled.
LEMMA FileChanges ==
    ASSUME NEW prog \in Program, NEW file \in Files(prog)
    PROVE  LET written == WrittenFile(prog) IN
           \/ \E i \in 1 .. Len(written) : file = RemoveAt(written, i)
           \/ /\ Sequence(file) /\ Len(file) = Len(written)
              /\ \A j \in 1 .. Len(written) : file[j] \in Spoiled(written[j])
  <1> DEFINE written == WrittenFile(prog)
  <1>1. FileOf(prog, written) /\ \A j \in 1 .. Len(written) : AsWritten(written[j])
    BY FileIs, WrittenLines
  <1>2. Sequence(written)
    BY <1>1 DEF FileOf
  <1>3. CASE file = written
    BY <1>2, <1>3 DEF Spoiled
  <1>4. CASE file \in Damages(written)
    <2>1. \A j \in 1 .. Len(written) : /\ written[j] = Line(written[j].type, written[j].bytes)
                                       /\ Len(written[j].bytes) \in Nat
      BY <1>1 DEF AsWritten, Plain
    <2> HIDE DEF written
    <2> QED BY <1>2, <1>4, <2>1, FileDamage DEF written
  <1> QED BY <1>3, <1>4 DEF Files

\* Every line of a file as it arrives can be read.
LEMMA FilesPlain ==
    ASSUME NEW prog \in Program, NEW file \in Files(prog)
    PROVE  /\ Sequence(file) /\ Len(file) \in Nat /\ Len(file) >= 1
           /\ \A j \in 1 .. Len(file) : Plain(file[j])
  <1> DEFINE written == WrittenFile(prog)
             n == Len(written)
  <1>1. /\ Sequence(written) /\ n \in Nat /\ n >= 2
        /\ \A j \in 1 .. n : AsWritten(written[j]) /\ Plain(written[j])
    <2>1. FileOf(prog, written) /\ \A j \in 1 .. n : AsWritten(written[j])
      BY FileIs, WrittenLines
    <2>2. n = Len(prog.chunks) + 2 /\ Len(prog.chunks) \in Nat /\ Sequence(written)
      BY <2>1 DEF FileOf
    <2> HIDE DEF n
    <2> QED BY <2>1, <2>2 DEF AsWritten
  <1>2. CASE \E i \in 1 .. n : file = RemoveAt(written, i)
    <2>1. PICK i \in 1 .. n : file = RemoveAt(written, i)
      BY <1>2
    <2> HIDE DEF written
    <2>2. /\ Sequence(file) /\ Len(file) = n - 1
          /\ \A j \in 1 .. n - 1 : /\ j < i => file[j] = written[j]
                                   /\ j >= i => file[j] = written[j + 1]
      BY <1>1, <2>1, RemovedLine
    <2>3. ASSUME NEW j \in 1 .. Len(file) PROVE Plain(file[j])
      <3> HIDE DEF n
      <3>1. j \in 1 .. n - 1 /\ j \in 1 .. n /\ j + 1 \in 1 .. n /\ (j < i \/ j >= i)
        BY <1>1, <2>2
      <3> QED BY <1>1, <2>2, <3>1
    <2> HIDE DEF n
    <2> QED BY <1>1, <2>2, <2>3
  <1>3. CASE /\ Sequence(file) /\ Len(file) = n
             /\ \A j \in 1 .. n : file[j] \in Spoiled(written[j])
    <2> HIDE DEF n, written
    <2>1. \A j \in 1 .. n : Plain(file[j])
      BY <1>1, <1>3, PlainStays
    <2> QED BY <1>1, <1>3, <2>1
  <1> QED BY <1>2, <1>3, FileChanges

\* Files that start with the record of a program's count are read as that program,
\* with one chunk missing at most.
ReadAs(file, chunks) ==
    /\ chunks \in Seq(Seq(ProgramWord))
    /\ \A j \in 2 .. Len(file) :
          Consumed(file[j]) => /\ j - 1 \in 1 .. Len(chunks)
                               /\ Stored(file[j]) = chunks[j - 1]

\* A file with a spoiled line is read as the program it was made of.
LEMMA SpoiledReads ==
    ASSUME NEW prog \in Program, NEW file, WORD_BYTES > 2 \/ file = WrittenFile(prog),
           Len(file) = Len(WrittenFile(prog)),
           \A j \in 1 .. Len(file) : file[j] \in Spoiled(WrittenFile(prog)[j])
    PROVE  ReadAs(file, prog.chunks)
  <1> DEFINE written == WrittenFile(prog)
             chunks == prog.chunks
             n == Len(chunks)
  <1>1. FileOf(prog, written)
    BY FileIs
  <1>2. n \in Nat /\ Len(file) = n + 2
    BY <1>1 DEF FileOf
  <1>3. ASSUME NEW j \in 2 .. Len(file), Consumed(file[j])
        PROVE  j - 1 \in 1 .. n /\ Stored(file[j]) = chunks[j - 1]
    <2>0. file[j] \in Spoiled(written[j]) /\ j \in Nat
      <3>1. j \in 1 .. Len(file)
        OBVIOUS
      <3> QED BY <3>1
    <2>1. j # n + 2
      <3> SUFFICES ASSUME j = n + 2 PROVE FALSE
        OBVIOUS
      <3>1. written[j] = Record(7, Address(prog.entry), <<>>)
        BY <1>1 DEF FileOf
      <3>2. prog.entry \in Nat
        BY ProgramParts
      <3> QED BY <1>3, <2>0, <3>1, <3>2, EntryLine
    <2> DEFINE i == j - 1
    <2>2. i \in 1 .. n /\ i + 1 = j /\ i \in Nat
      <3> HIDE DEF n
      <3> QED BY <1>2, <2>1
    <2> HIDE DEF i
    <2>3. written[j] = Record(3, Address(i), FlattenSeq(chunks[i]))
      <3>1. written[i + 1] = Record(3, Address(i), FlattenSeq(chunks[i]))
        BY <1>1, <2>2 DEF FileOf
      <3> QED BY <2>2, <3>1
    <2>4. chunks[i] \in Seq(ProgramWord) /\ Len(chunks[i]) \in 1 .. (BYTE - 6) \div WORD_BYTES
      BY <2>2, ProgramParts
    <2>5. Stored(file[j]) = chunks[i]
      <3>1. CASE WORD_BYTES > 2
        <4> HIDE DEF written, chunks
        <4> QED BY <1>3, <2>0, <2>2, <2>3, <2>4, <3>1, ChunkLine
      <3>2. CASE file = written
        <4>1. file[j] = Record(3, Address(i), FlattenSeq(chunks[i]))
          BY <2>3, <3>2
        <4> HIDE DEF written, chunks
        <4> QED BY <2>2, <2>4, <4>1, RecordStored
      <3> QED BY <3>1, <3>2
    <2> QED BY <2>2, <2>5 DEF i
  <1>4. chunks \in Seq(Seq(ProgramWord))
    BY ProgramParts
  <1> QED BY <1>3, <1>4 DEF ReadAs

\* Chunks without one of them.
LEMMA RemovedChunk ==
    ASSUME NEW S, NEW s \in Seq(S), NEW i \in 1 .. Len(s)
    PROVE  RemoveAt(s, i) \in Seq(S)
  <1> DEFINE n == Len(s) - 1
             t == RemoveAt(s, i)
  <1>1. Sequence(s) /\ Len(s) \in Nat
    BY DEF Sequence
  <1>2. /\ Sequence(t) /\ Len(t) = n
        /\ \A j \in 1 .. n : /\ j < i => t[j] = s[j]
                             /\ j >= i => t[j] = s[j + 1]
    BY <1>1, RemovedLine
  <1>3. ASSUME NEW j \in 1 .. n PROVE t[j] \in S
    <2>1. j \in 1 .. Len(s) /\ j + 1 \in 1 .. Len(s) /\ (j < i \/ j >= i)
      BY <1>1
    <2>2. s[j] \in S /\ s[j + 1] \in S
      BY <2>1
    <2> HIDE DEF t
    <2> QED BY <1>2, <2>1, <2>2
  <1>4. n \in Nat
    BY <1>1
  <1>5. PICK T : t \in [1 .. n -> T]
    <2> HIDE DEF t, n
    <2>1. PICK T : t \in Seq(T) /\ t \in [1 .. Len(t) -> T]
      BY <1>2, SequenceHas
    <2> QED BY <1>2, <2>1
  <1> HIDE DEF t, n
  <1>6. t \in [1 .. n -> S]
    BY <1>3, <1>5
  <1>7. t \in Seq(S)
    BY <1>4, <1>6, SequenceIs
  <1> QED BY <1>7 DEF t

\* A file with a line missing is read as the program without a chunk, at most.
LEMMA ReadsChunks ==
    ASSUME WORD_BYTES > 2, NEW prog \in Program, NEW file \in Files(prog),
           winix_load_srec_words_length(file[1]) # 0
    PROVE  \E chunks \in {prog.chunks} \cup
                         {RemoveAt(prog.chunks, i) : i \in 1 .. Len(prog.chunks)} :
              ReadAs(file, chunks)
  <1> DEFINE written == WrittenFile(prog)
             n == Len(prog.chunks)
  <1>1. FileOf(prog, written)
    BY FileIs
  <1>2. n \in Nat /\ Len(written) = n + 2 /\ Sequence(written)
    BY <1>1 DEF FileOf
  <1>3. CASE /\ Sequence(file) /\ Len(file) = Len(written)
             /\ \A j \in 1 .. Len(written) : file[j] \in Spoiled(written[j])
    <2>1. ReadAs(file, prog.chunks)
      BY <1>3, SpoiledReads
    <2> QED BY <2>1
  <1>4. ASSUME NEW r \in 1 .. n + 2, file = RemoveAt(written, r)
        PROVE  \E chunks \in {prog.chunks} \cup {RemoveAt(prog.chunks, i) : i \in 1 .. n} :
                  ReadAs(file, chunks)
    <2>1. /\ Len(file) = n + 1
          /\ \A j \in 1 .. n + 1 : /\ j < r => file[j] = written[j]
                                   /\ j >= r => file[j] = written[j + 1]
      <3> HIDE DEF written, n
      <3>1. r \in 1 .. Len(written) /\ Len(written) - 1 = n + 1
        BY <1>2
      <3> QED BY <1>2, <1>4, <3>1, RemovedLine
    <2>2. ReadAs(written, prog.chunks)
      <3>1. \A j \in 1 .. Len(written) : written[j] \in Spoiled(written[j])
        BY DEF Spoiled
      <3> QED BY <3>1, SpoiledReads
    <2>3. /\ prog.chunks \in Seq(Seq(ProgramWord))
          /\ \A j \in 2 .. n + 2 :
                Consumed(written[j]) => /\ j - 1 \in 1 .. n
                                        /\ Stored(written[j]) = prog.chunks[j - 1]
      BY <1>2, <2>2 DEF ReadAs
    <2>4. r # 1
      <3> SUFFICES ASSUME r = 1 PROVE FALSE
        OBVIOUS
      <3>1. file[1] = written[2]
        BY <1>2, <2>1
      <3>2. written[2].type # 6
        <4>1. CASE n = 0
          <5>1. written[2] = Record(7, Address(prog.entry), <<>>)
            BY <1>1, <4>1 DEF FileOf
          <5> QED BY <5>1 DEF Record, Line
        <4>2. CASE n # 0
          <5>1. 1 \in 1 .. n /\ 1 + 1 = 2
            BY <1>2, <4>2
          <5>2. written[2] = Record(3, Address(1), FlattenSeq(prog.chunks[1]))
            BY <1>1, <5>1 DEF FileOf
          <5> QED BY <5>2 DEF Record, Line
        <4> QED BY <4>1, <4>2
      <3> QED BY <3>1, <3>2 DEF winix_load_srec_words_length
    <2> HIDE DEF n, written
    <2>5. CASE r = n + 2
      <3>1. ASSUME NEW j \in 2 .. Len(file), Consumed(file[j])
            PROVE  /\ j - 1 \in 1 .. Len(prog.chunks)
                   /\ Stored(file[j]) = prog.chunks[j - 1]
        <4>1. j \in 1 .. n + 1 /\ j < r /\ j \in 2 .. n + 2
          BY <1>2, <2>1, <2>5
        <4>2. file[j] = written[j]
          BY <2>1, <4>1
        <4> QED BY <2>3, <3>1, <4>1, <4>2 DEF n
      <3>2. ReadAs(file, prog.chunks)
        BY <2>3, <3>1 DEF ReadAs
      <3> QED BY <3>2
    <2>6. CASE r # n + 2
      <3> DEFINE i == r - 1
                 chunks == prog.chunks
                 rest == RemoveAt(chunks, i)
      <3>1. i \in 1 .. n
        BY <1>2, <2>4, <2>6
      <3>2. rest \in Seq(Seq(ProgramWord))
        <4>1. i \in 1 .. Len(chunks)
          BY <3>1 DEF n
        <4> HIDE DEF i, chunks
        <4> QED BY <2>3, <4>1, RemovedChunk DEF chunks
      <3>3. /\ Len(rest) = n - 1
            /\ \A k \in 1 .. n - 1 : /\ k < i => rest[k] = chunks[k]
                                     /\ k >= i => rest[k] = chunks[k + 1]
        <4>1. i \in 1 .. Len(chunks) /\ n = Len(chunks) /\ Sequence(chunks)
          BY <2>3, <3>1 DEF n, Sequence
        <4> HIDE DEF i, chunks
        <4> QED BY <4>1, RemovedLine
      <3>4. ASSUME NEW j \in 2 .. Len(file), Consumed(file[j])
            PROVE  j - 1 \in 1 .. Len(rest) /\ Stored(file[j]) = rest[j - 1]
        <4> HIDE DEF rest
        <4>0. j \in 1 .. n + 1 /\ j \in Nat /\ r \in Nat
          BY <1>2, <2>1
        <4>1. CASE j < r
          <5>1. file[j] = written[j] /\ j \in 2 .. n + 2
            BY <1>2, <2>1, <4>0, <4>1
          <5>2. j - 1 \in 1 .. n /\ Stored(file[j]) = chunks[j - 1]
            BY <2>3, <3>4, <5>1
          <5>3. j - 1 \in 1 .. n - 1 /\ j - 1 < i
            BY <1>2, <3>1, <4>0, <4>1, <5>2
          <5> QED BY <3>3, <5>2, <5>3
        <4>2. CASE j >= r
          <5>1. file[j] = written[j + 1] /\ j + 1 \in 2 .. n + 2
            BY <1>2, <2>1, <4>0, <4>2
          <5>2. (j + 1) - 1 \in 1 .. n /\ Stored(file[j]) = chunks[(j + 1) - 1]
            BY <2>3, <3>4, <5>1
          <5>3. j - 1 \in 1 .. n - 1 /\ j - 1 >= i /\ (j + 1) - 1 = (j - 1) + 1
            BY <1>2, <3>1, <4>0, <4>2, <5>2
          <5> QED BY <3>3, <5>2, <5>3
        <4> QED BY <4>0, <4>1, <4>2
      <3>5. ReadAs(file, rest)
        <4> HIDE DEF rest
        <4> QED BY <3>2, <3>4 DEF ReadAs
      <3> QED BY <3>1, <3>5
    <2> QED BY <2>5, <2>6
  <1> HIDE DEF written
  <1>5. CASE \E i \in 1 .. Len(written) : file = RemoveAt(written, i)
    BY <1>2, <1>4, <1>5
  <1> QED BY <1>3, <1>5, FileChanges DEF written

-----------------------------------------------------------------------------
(* What is loaded: the words of the lines that were read. *)

\* The words that are in a file, right or wrong.
WordsOf(file) ==
    UNION {Range(WordsIn(file[j])) \cup Range(ToolWordsIn(file[j])) : j \in 1 .. Len(file)}
StoredLines(file, k) == [j \in 1 .. k - 1 |-> Stored(file[j + 1])]

LEMMA LengthIsInt ==
    ASSUME NEW l, Plain(l)
    PROVE  DataLength(l) \in Int /\ DataLength(l) = l.bytes[1] - AddressLength(l.type) - 1
  <1>1. AddressLength(l.type) \in Int
    BY DEF AddressLength
  <1>2. l.bytes[1] \in Int
    BY DEF Plain
  <1> QED BY <1>1, <1>2 DEF DataLength

\* What a line holds for the loader and for gen_bin_code are words of the file.
LEMMA WordsTyped ==
    ASSUME NEW file, NEW j \in 1 .. Len(file), Plain(file[j])
    PROVE  /\ Stored(file[j]) \in Seq(WordsOf(file))
           /\ ToolStored(file[j]) \in Seq(WordsOf(file))
  <1> DEFINE l == file[j]
             T == WordsOf(file)
             d == DataLength(l)
             e == d \div WORD_BYTES
             up == (d + WORD_BYTES - 1) \div WORD_BYTES
  <1>0. WORD_BYTES \in Nat \ {0}
    BY WordSizes
  <1>1. d \in Int
    BY LengthIsInt
  <1>2. e \in Int /\ up \in Int
    <2> HIDE DEF d
    <2> QED BY <1>0, <1>1
  <1>3. ASSUME NEW words, NEW n \in Int, DOMAIN words = 1 .. n,
               words = [i \in 1 .. n |-> words[i]], Range(words) \subseteq T
        PROVE  words \in Seq(T)
    <2> HIDE DEF T
    <2>1. \A i \in 1 .. n : words[i] \in T
      BY <1>3 DEF Range
    <2>2. CASE n \in Nat
      <3>1. words \in [1 .. n -> T]
        BY <1>3, <2>1
      <3> QED BY <2>2, <3>1, SequenceIs
    <2>3. CASE n < 0
      <3>1. 1 .. n = {}
        BY <2>3
      <3>2. words = <<>>
        BY <1>3, <3>1
      <3> QED BY <3>2
    <2> QED BY <2>2, <2>3
  <1>4. WordsIn(l) \in Seq(T)
    <2>1. /\ DOMAIN WordsIn(l) = 1 .. e
          /\ WordsIn(l) = [i \in 1 .. e |-> WordsIn(l)[i]]
      BY DEF WordsIn
    <2>2. Range(WordsIn(l)) \subseteq T
      BY DEF WordsOf
    <2> HIDE DEF l, e, T
    <2> QED BY <1>2, <1>3, <2>1, <2>2
  <1>5. ToolWordsIn(l) \in Seq(T)
    <2>1. /\ DOMAIN ToolWordsIn(l) = 1 .. up
          /\ ToolWordsIn(l) = [i \in 1 .. up |-> ToolWordsIn(l)[i]]
      BY DEF ToolWordsIn
    <2>2. Range(ToolWordsIn(l)) \subseteq T
      BY DEF WordsOf
    <2> HIDE DEF l, up, T
    <2> QED BY <1>2, <1>3, <2>1, <2>2
  <1> HIDE DEF T
  <1> QED BY <1>4, <1>5 DEF Stored, ToolStored, T

\* And so is what several lines hold.
LEMMA LinesTyped ==
    ASSUME NEW file, Len(file) \in Nat, \A j \in 1 .. Len(file) : Plain(file[j]),
           NEW k \in 1 .. Len(file)
    PROVE  /\ StoredLines(file, k) \in Seq(Seq(WordsOf(file)))
           /\ Len(StoredLines(file, k)) = k - 1
           /\ FlattenSeq(StoredLines(file, k)) \in Seq(WordsOf(file))
  <1> DEFINE T == WordsOf(file)
             S == Seq(T)
             ss == StoredLines(file, k)
             n == k - 1
  <1>1. n \in Nat /\ \A j \in 1 .. n : j + 1 \in 1 .. Len(file)
    OBVIOUS
  <1>2. \A j \in 1 .. n : Stored(file[j + 1]) \in S
    BY <1>1, WordsTyped
  <1>3. ss \in [1 .. n -> S]
    <2> HIDE DEF S, n
    <2> QED BY <1>2 DEF StoredLines, n
  <1> HIDE DEF ss, n, S
  <1>4. ss \in Seq(S) /\ Len(ss) = n
    BY <1>1, <1>3, SequenceIs
  <1> HIDE DEF T
  <1>5. FlattenSeq(ss) \in Seq(T)
    BY <1>4, FlattenAppend DEF S
  <1> QED BY <1>4, <1>5 DEF ss, n, S, T

\* One line more.
LEMMA LineMore ==
    ASSUME NEW file, Len(file) \in Nat, \A j \in 1 .. Len(file) : Plain(file[j]),
           NEW k \in 1 .. Len(file), k + 1 <= Len(file)
    PROVE  /\ FlattenSeq(StoredLines(file, k + 1))
                 = FlattenSeq(StoredLines(file, k)) \o Stored(file[k + 1])
           /\ Len(FlattenSeq(StoredLines(file, k + 1))) \in Nat
  <1> DEFINE T == WordsOf(file)
             S == Seq(T)
             ss == StoredLines(file, k)
             tt == StoredLines(file, k + 1)
             x == Stored(file[k + 1])
             n == k - 1
  <1>1. k + 1 \in 1 .. Len(file) /\ (k + 1) - 1 = n + 1 /\ n \in Nat
    OBVIOUS
  <1>2. ss \in Seq(S) /\ Len(ss) = n
    BY LinesTyped
  <1>3. tt \in Seq(S) /\ Len(tt) = n + 1 /\ FlattenSeq(tt) \in Seq(T)
    BY <1>1, LinesTyped
  <1>4. x \in S
    BY <1>1, WordsTyped
  <1>5. ASSUME NEW j \in 1 .. n + 1 PROVE tt[j] = IF j = n + 1 THEN x ELSE ss[j]
    <2>1. tt[j] = Stored(file[j + 1])
      BY DEF StoredLines
    <2>2. CASE j = n + 1
      <3>1. j + 1 = k + 1
        BY <2>2
      <3> QED BY <2>1, <2>2, <3>1
    <2>3. CASE j # n + 1
      <3>1. j \in 1 .. k - 1
        BY <2>3
      <3>2. ss[j] = Stored(file[j + 1])
        BY <3>1 DEF StoredLines
      <3> QED BY <2>1, <2>3, <3>2
    <2> QED BY <2>2, <2>3
  <1> HIDE DEF ss, tt, x, S, n
  <1>6. tt = Append(ss, x)
    <2>1. Append(ss, x) \in Seq(S) /\ Len(Append(ss, x)) = n + 1
      BY <1>1, <1>2, <1>4
    <2>2. ASSUME NEW j \in 1 .. n + 1 PROVE tt[j] = Append(ss, x)[j]
      <3>1. CASE j = n + 1
        BY <1>2, <1>4, <1>5, <3>1
      <3>2. CASE j # n + 1
        <4>1. j \in 1 .. Len(ss)
          BY <1>1, <1>2, <3>2
        <4> QED BY <1>2, <1>4, <1>5, <3>2, <4>1
      <3> QED BY <3>1, <3>2
    <2>3. /\ tt = [j \in 1 .. n + 1 |-> tt[j]]
          /\ Append(ss, x) = [j \in 1 .. n + 1 |-> Append(ss, x)[j]]
      BY <1>3, <2>1, LenProperties
    <2> QED BY <2>2, <2>3
  <1> HIDE DEF T
  <1>7. FlattenSeq(Append(ss, x)) = FlattenSeq(ss) \o x
    <2>1. ss \in Seq(Seq(T)) /\ x \in Seq(T)
      BY <1>2, <1>4 DEF S
    <2> QED BY <2>1, FlattenAppend
  <1>8. Len(FlattenSeq(tt)) \in Nat
    BY <1>3
  <1> QED BY <1>6, <1>7, <1>8 DEF ss, tt, x

\* Behind the header nothing is loaded yet.
LEMMA NoLine == \A file : FlattenSeq(StoredLines(file, 1)) = <<>>
  <1> SUFFICES ASSUME NEW file PROVE FlattenSeq(StoredLines(file, 1)) = <<>>
    OBVIOUS
  <1>1. StoredLines(file, 1) = <<>>
    <2>1. 1 .. 1 - 1 = {}
      OBVIOUS
    <2> QED BY <2>1 DEF StoredLines
  <1> QED BY <1>1 DEF FlattenSeq

\* The loader has come to the line after the k-th.
SentOK ==
    /\ sent.prog \in Programs /\ sent.file \in Files(sent.prog)
    /\ sent.damaged <=> sent.file # WrittenFile(sent.prog)
Rest(k) ==
    /\ Sequence(incoming) /\ Len(incoming) = Len(sent.file) - k
    /\ \A j \in 1 .. Len(sent.file) - k : incoming[j] = sent.file[k + j]
ReadUpTo(k) ==
    /\ wordslength = winix_load_srec_words_length(sent.file[1]) /\ wordslength # 0
    /\ loaded = FlattenSeq(StoredLines(sent.file, k)) /\ Len(loaded) <= wordslength
    /\ \A j \in 2 .. k : Consumed(sent.file[j])
EndsAt(k) ==
    k < Len(sent.file) => /\ sent.file[k + 1].type = 7
                          /\ entry = winix_load_srec_mem_val(sent.file[k + 1])
LoadInv ==
    /\ ld_pc = "idle" => loaded = <<>>
    /\ ld_pc # "idle" => SentOK
    /\ ld_pc = "header" => Rest(0) /\ loaded = <<>>
    /\ ld_pc = "records" => \E k \in 1 .. Len(sent.file) : ReadUpTo(k) /\ Rest(k)
    /\ Loading => \E k \in 1 .. Len(sent.file) : ReadUpTo(k) /\ EndsAt(k)

\* The first line of what is incoming, and the rest.
LEMMA FirstLine ==
    ASSUME NEW s, Sequence(s), s # <<>>
    PROVE  /\ Len(s) \in Nat /\ Len(s) >= 1 /\ Head(s) = s[1]
           /\ Sequence(Tail(s)) /\ Len(Tail(s)) = Len(s) - 1
           /\ \A j \in 1 .. Len(s) - 1 : Tail(s)[j] = s[j + 1]
  <1>1. PICK S : s \in Seq(S)
    BY DEF Sequence
  <1>2. /\ Len(s) \in Nat /\ Len(s) >= 1 /\ Head(s) = s[1]
        /\ Tail(s) \in Seq(S) /\ Len(Tail(s)) = Len(s) - 1
    BY <1>1
  <1>3. \A j \in 1 .. Len(s) - 1 : Tail(s)[j] = s[j + 1]
    BY <1>1
  <1> QED BY <1>2, <1>3 DEF Sequence

\* What SentOK says of the file.
LEMMA SentIs ==
    ASSUME SentOK
    PROVE  /\ sent.prog \in Program /\ sent.file \in Files(sent.prog)
           /\ Sequence(sent.file) /\ Len(sent.file) \in Nat /\ Len(sent.file) >= 1
           /\ \A j \in 1 .. Len(sent.file) : Plain(sent.file[j])
           /\ winix_load_srec_words_length(sent.file[1]) \in Nat
  <1>1. sent.prog \in Program /\ sent.file \in Files(sent.prog)
    BY SessionAssumption DEF SentOK
  <1> DEFINE file == sent.file
             prog == sent.prog
  <1>2. /\ Sequence(file) /\ Len(file) \in Nat /\ Len(file) >= 1
        /\ \A j \in 1 .. Len(file) : Plain(file[j])
    <2> HIDE DEF file, prog
    <2> QED BY <1>1, FilesPlain DEF file, prog
  <1>3. Plain(file[1])
    <2> HIDE DEF file
    <2>1. 1 \in 1 .. Len(file)
      BY <1>2
    <2> QED BY <1>2, <2>1
  <1>4. winix_load_srec_words_length(file[1]) \in Nat
    <2> HIDE DEF file
    <2> QED BY <1>3, CountsAreNat
  <1> QED BY <1>1, <1>2, <1>4

\* ReadHeader keeps LoadInv: the header is the first line.
LEMMA HeaderStep ==
    ASSUME LoadInv, ReadHeader PROVE LoadInv'
  <1> DEFINE words == winix_load_srec_words_length(Head(incoming))
             file == sent.file
  <1>1. /\ ld_pc = "header" /\ incoming' = Tail(incoming) /\ sent' = sent
        /\ \/ words = 0 /\ ld_pc' = "failed"
           \/ /\ words # 0 /\ wordslength' = words /\ ld_pc' = "records"
              /\ loaded' = loaded
    BY DEF ReadHeader, Fails
  <1>2. SentOK /\ Rest(0) /\ loaded = <<>>
    BY <1>1 DEF LoadInv
  <1>3. SentOK'
    BY <1>1, <1>2 DEF SentOK
  <1>4. CASE ld_pc' = "failed"
    BY <1>3, <1>4 DEF LoadInv, Loading
  <1>5. CASE ld_pc' # "failed"
    <2>1. Len(file) \in Nat /\ Len(file) >= 1 /\ winix_load_srec_words_length(file[1]) \in Nat
      BY <1>2, SentIs
    <2>2. /\ Sequence(incoming) /\ Len(incoming) = Len(file)
          /\ \A j \in 1 .. Len(file) : incoming[j] = file[j]
      <3>1. Len(file) - 0 = Len(file) /\ \A j \in Int : 0 + j = j
        BY <2>1
      <3> QED BY <1>2, <3>1 DEF Rest
    <2>3. incoming # <<>>
      <3>1. Len(<<>>) = 0
        OBVIOUS
      <3> QED BY <2>1, <2>2, <3>1
    <2>4. /\ Head(incoming) = incoming[1] /\ Sequence(Tail(incoming))
          /\ Len(Tail(incoming)) = Len(incoming) - 1
          /\ \A j \in 1 .. Len(incoming) - 1 : Tail(incoming)[j] = incoming[j + 1]
      BY <2>2, <2>3, FirstLine
    <2>5. Head(incoming) = file[1]
      <3>1. 1 \in 1 .. Len(file)
        BY <2>1
      <3> QED BY <2>2, <2>4, <3>1
    <2>6. Rest(1)'
      <3>1. ASSUME NEW j \in 1 .. Len(file) - 1 PROVE Tail(incoming)[j] = file[1 + j]
        <4>1. j + 1 \in 1 .. Len(file) /\ 1 + j = j + 1
          BY <2>1
        <4> QED BY <2>2, <2>4, <4>1
      <3> QED BY <1>1, <2>2, <2>4, <3>1 DEF Rest
    <2>7. ReadUpTo(1)'
      <3>1. wordslength' = winix_load_srec_words_length(file[1]) /\ wordslength' # 0
        BY <1>1, <1>5, <2>5
      <3>2. loaded' = <<>>
        BY <1>1, <1>2, <1>5
      <3>3. loaded' = FlattenSeq(StoredLines(file, 1))
        BY <3>2, NoLine
      <3>4. Len(loaded') <= wordslength'
        <4>1. Len(<<>>) = 0
          OBVIOUS
        <4>2. wordslength' \in Nat
          BY <2>1, <3>1
        <4> QED BY <3>2, <4>1, <4>2
      <3>5. \A j \in 2 .. 1 : FALSE
        OBVIOUS
      <3> QED BY <1>1, <3>1, <3>3, <3>4, <3>5 DEF ReadUpTo
    <2>8. 1 \in 1 .. Len(sent'.file)
      BY <1>1, <2>1
    <2> QED BY <1>1, <1>3, <1>5, <2>6, <2>7, <2>8 DEF LoadInv, Loading
  <1> QED BY <1>4, <1>5

\* The next line of the file.
LEMMA NextLine ==
    ASSUME SentOK, NEW k \in 1 .. Len(sent.file), Rest(k), incoming # <<>>
    PROVE  /\ k + 1 \in 1 .. Len(sent.file) /\ Head(incoming) = sent.file[k + 1]
           /\ incoming' = Tail(incoming) /\ sent' = sent => Rest(k + 1)'
  <1> DEFINE file == sent.file
  <1>1. /\ Sequence(incoming) /\ Len(incoming) = Len(file) - k
        /\ \A j \in 1 .. Len(file) - k : incoming[j] = file[k + j]
    BY DEF Rest
  <1>2. Len(file) \in Nat
    BY SentIs
  <1>3. /\ Len(incoming) \in Nat /\ Len(incoming) >= 1
        /\ Head(incoming) = incoming[1] /\ Sequence(Tail(incoming))
        /\ Len(Tail(incoming)) = Len(incoming) - 1
        /\ \A j \in 1 .. Len(incoming) - 1 : Tail(incoming)[j] = incoming[j + 1]
    BY <1>1, FirstLine
  <1>k. k \in Nat
    OBVIOUS
  <1> HIDE DEF file
  <1>4. k + 1 \in 1 .. Len(file) /\ 1 \in 1 .. Len(file) - k
    BY <1>1, <1>2, <1>3, <1>k
  <1>5. Head(incoming) = file[k + 1]
    BY <1>1, <1>3, <1>4
  <1>6. ASSUME incoming' = Tail(incoming), sent' = sent PROVE Rest(k + 1)'
    <2>1. Len(Tail(incoming)) = Len(file) - (k + 1)
      BY <1>1, <1>2, <1>3, <1>k
    <2>2. ASSUME NEW j \in 1 .. Len(file) - (k + 1)
          PROVE  Tail(incoming)[j] = file[(k + 1) + j]
      <3>1. /\ j \in 1 .. Len(incoming) - 1 /\ j + 1 \in 1 .. Len(file) - k
            /\ k + (j + 1) = (k + 1) + j
        BY <1>1, <1>2, <1>k
      <3>2. Tail(incoming)[j] = incoming[j + 1]
        BY <1>3, <3>1
      <3>3. incoming[j + 1] = file[k + (j + 1)]
        BY <1>1, <3>1
      <3> QED BY <3>1, <3>2, <3>3
    <2> QED BY <1>3, <1>6, <2>1, <2>2 DEF Rest, file
  <1> QED BY <1>4, <1>5, <1>6 DEF file

\* ReadRecord keeps it: the words of the next line are added, and then counted.
LEMMA RecordStep ==
    ASSUME LoadInv, ReadRecord PROVE LoadInv'
  <1> DEFINE record == Head(incoming)
             file == sent.file
  <1>1. /\ ld_pc = "records" /\ incoming # <<>> /\ record.type # 7
        /\ incoming' = Tail(incoming) /\ sent' = sent
        /\ \/ ld_pc' = "failed"
           \/ /\ winix_load_srec_mem_val(record) # 0
              /\ loaded' = loaded \o Stored(record)
              /\ ld_pc' = IF Len(loaded') > wordslength THEN "failed" ELSE "records"
              /\ wordslength' = wordslength
    BY DEF ReadRecord, Fails
  <1>2. SentOK
    BY <1>1 DEF LoadInv
  <1>3. SentOK'
    BY <1>1, <1>2 DEF SentOK
  <1>4. CASE ld_pc' = "failed"
    BY <1>3, <1>4 DEF LoadInv, Loading
  <1>5. CASE ld_pc' # "failed"
    <2>1. PICK k \in 1 .. Len(file) : ReadUpTo(k) /\ Rest(k)
      BY <1>1 DEF LoadInv
    <2>2. k + 1 \in 1 .. Len(file) /\ record = file[k + 1] /\ Rest(k + 1)'
      BY <1>1, <1>2, <2>1, NextLine
    <2>3. Len(file) \in Nat /\ (\A j \in 1 .. Len(file) : Plain(file[j]))
          /\ winix_load_srec_words_length(file[1]) \in Nat
      BY <1>2, SentIs
    <2>4. loaded' = FlattenSeq(StoredLines(file, k + 1)) /\ Len(loaded') \in Nat
      <3>1. loaded' = loaded \o Stored(file[k + 1])
        BY <1>1, <1>5, <2>2
      <3>2. loaded = FlattenSeq(StoredLines(file, k))
        BY <2>1 DEF ReadUpTo
      <3>3. k + 1 <= Len(file)
        BY <2>2, <2>3
      <3> HIDE DEF file
      <3>4. /\ FlattenSeq(StoredLines(file, k + 1))
                  = FlattenSeq(StoredLines(file, k)) \o Stored(file[k + 1])
            /\ Len(FlattenSeq(StoredLines(file, k + 1))) \in Nat
        BY <2>1, <2>3, <3>3, LineMore
      <3> QED BY <3>1, <3>2, <3>4
    <2>5. /\ wordslength = winix_load_srec_words_length(file[1]) /\ wordslength # 0
          /\ \A j \in 2 .. k : Consumed(file[j])
      BY <2>1 DEF ReadUpTo
    <2>6. ld_pc' = "records" /\ wordslength' = wordslength /\ Len(loaded') <= wordslength
      <3>1. ld_pc' = "records" /\ wordslength' = wordslength /\ ~(Len(loaded') > wordslength)
        BY <1>1, <1>5
      <3> QED BY <2>3, <2>4, <2>5, <3>1
    <2>7. ReadUpTo(k + 1)'
      <3>1. Consumed(file[k + 1])
        BY <1>1, <1>5, <2>2 DEF Consumed
      <3>2. \A j \in 2 .. k + 1 : Consumed(file[j])
        BY <2>5, <3>1
      <3> QED BY <1>1, <2>4, <2>5, <2>6, <3>2 DEF ReadUpTo
    <2>8. k + 1 \in 1 .. Len(sent'.file)
      BY <1>1, <2>2
    <2>9. \E j \in 1 .. Len(sent'.file) : ReadUpTo(j)' /\ Rest(j)'
      BY <2>2, <2>7, <2>8
    <2> QED BY <1>3, <2>6, <2>9 DEF LoadInv, Loading
  <1> QED BY <1>4, <1>5

\* ReadEntry keeps it: the next line is the one that ends the file.
LEMMA EntryStep ==
    ASSUME LoadInv, ReadEntry PROVE LoadInv'
  <1> DEFINE file == sent.file
  <1>1. /\ ld_pc = "records" /\ incoming # <<>> /\ Head(incoming).type = 7
        /\ entry' = winix_load_srec_mem_val(Head(incoming))
        /\ ld_pc' = "replace" /\ sent' = sent
        /\ wordslength' = wordslength /\ loaded' = loaded
    BY DEF ReadEntry
  <1>2. SentOK
    BY <1>1 DEF LoadInv
  <1>3. SentOK'
    BY <1>1, <1>2 DEF SentOK
  <1>4. PICK k \in 1 .. Len(file) : ReadUpTo(k) /\ Rest(k)
    BY <1>1 DEF LoadInv
  <1>5. Head(incoming) = file[k + 1]
    BY <1>1, <1>2, <1>4, NextLine
  <1>6. ReadUpTo(k)' /\ EndsAt(k)'
    BY <1>1, <1>4, <1>5 DEF ReadUpTo, EndsAt
  <1>7. \E j \in 1 .. Len(sent'.file) : ReadUpTo(j)' /\ EndsAt(j)'
    BY <1>1, <1>6
  <1> QED BY <1>1, <1>3, <1>7 DEF LoadInv, Loading

\* ReadTyped keeps it: every line of the file has been read.
LEMMA TypedStep ==
    ASSUME LoadInv, ReadTyped PROVE LoadInv'
  <1> DEFINE file == sent.file
  <1>1. /\ ld_pc = "records" /\ incoming = <<>> /\ sent' = sent
        /\ wordslength' = wordslength /\ loaded' = loaded
        /\ ld_pc' = "failed" \/ ld_pc' = "replace"
    BY DEF ReadTyped, Fails
  <1>2. SentOK
    BY <1>1 DEF LoadInv
  <1>3. SentOK'
    BY <1>1, <1>2 DEF SentOK
  <1>4. CASE ld_pc' = "failed"
    BY <1>3, <1>4 DEF LoadInv, Loading
  <1>5. CASE ld_pc' = "replace"
    <2>1. PICK k \in 1 .. Len(file) : ReadUpTo(k) /\ Rest(k)
      BY <1>1 DEF LoadInv
    <2>2. ~(k < Len(file))
      <3>1. Len(file) \in Nat
        BY <1>2, SentIs
      <3>2. Len(file) - k = 0
        <4>1. Len(<<>>) = 0
          OBVIOUS
        <4> QED BY <1>1, <2>1, <4>1 DEF Rest
      <3> HIDE DEF file
      <3> QED BY <3>1, <3>2
    <2>3. ReadUpTo(k)' /\ EndsAt(k)'
      BY <1>1, <2>1, <2>2 DEF ReadUpTo, EndsAt
    <2>4. \E j \in 1 .. Len(sent'.file) : ReadUpTo(j)' /\ EndsAt(j)'
      BY <1>1, <2>3
    <2> QED BY <1>3, <1>5, <2>4 DEF LoadInv, Loading
  <1> QED BY <1>1, <1>4, <1>5

\* Every step does: the others do not touch what is loaded, or begin or end a load.
LEMMA LoadStep ==
    ASSUME LoadInv, [SessionNext]_sessionVars PROVE LoadInv'
  <1>1. ASSUME ld_pc' = "idle", loaded' = <<>> PROVE LoadInv'
    BY <1>1 DEF LoadInv, Loading
  <1>2. CASE UNCHANGED loadVars
    BY <1>2 DEF loadVars, LoadInv, Loading, SentOK, Rest, ReadUpTo, EndsAt
  <1>3. ASSUME NEW p, NEW prog \in Programs, NEW file \in Files(prog),
               exec_read_srec(p, prog, file)
        PROVE  LoadInv'
    <2>1. /\ ld_pc = "idle" /\ ld_pc' = "header" /\ incoming' = file /\ loaded' = loaded
          /\ sent' = [prog |-> prog, file |-> file, damaged |-> file # WrittenFile(prog)]
      BY <1>3 DEF exec_read_srec
    <2>2. sent'.prog = prog /\ sent'.file = file /\ (sent'.damaged <=> file # WrittenFile(prog))
      BY <2>1
    <2>3. SentOK'
      BY <2>2 DEF SentOK, Files
    <2>4. Sequence(file) /\ Len(file) \in Nat
      <3>1. prog \in Program
        BY SessionAssumption
      <3> QED BY <3>1, FilesPlain
    <2>5. Rest(0)'
      <3>1. Len(file) - 0 = Len(file) /\ \A j \in Int : 0 + j = j
        BY <2>4
      <3>2. \A j \in 1 .. Len(file) : file[j] = file[0 + j]
        BY <3>1
      <3> QED BY <2>1, <2>2, <2>4, <3>1, <3>2 DEF Rest
    <2>6. loaded' = <<>>
      BY <2>1 DEF LoadInv
    <2> QED BY <2>1, <2>3, <2>5, <2>6 DEF LoadInv, Loading
  <1>4. CASE ShellExecs
    <2>1. PICK prog \in Programs :
             \/ exec_read_srec(SHELL, prog, WrittenFile(prog))
             \/ \E file \in Damages(WrittenFile(prog)) : exec_read_srec(SHELL, prog, file)
      BY <1>4 DEF ShellExecs
    <2>2. \E file \in Files(prog) : exec_read_srec(SHELL, prog, file)
      BY <2>1 DEF Files
    <2> QED BY <1>3, <2>2
  <1>5. CASE SystemLoads
    <2>1. CASE ReadHeader
      BY <2>1, HeaderStep
    <2>2. CASE ReadRecord
      BY <2>2, RecordStep
    <2>3. CASE ReadEntry
      BY <2>3, EntryStep
    <2>4. CASE ReadTyped
      BY <2>4, TypedStep
    <2>5. CASE Replace
      <3>1. /\ ld_pc = "replace" /\ ld_pc' = "install"
            /\ sent' = sent /\ wordslength' = wordslength /\ loaded' = loaded
            /\ entry' = entry
        BY <2>5 DEF Replace
      <3>2. PICK k \in 1 .. Len(sent.file) : ReadUpTo(k) /\ EndsAt(k)
        BY <3>1 DEF LoadInv, Loading
      <3>3. SentOK'
        BY <3>1 DEF LoadInv, SentOK
      <3>4. ReadUpTo(k)' /\ EndsAt(k)'
        BY <3>1, <3>2 DEF ReadUpTo, EndsAt
      <3>5. \E j \in 1 .. Len(sent'.file) : ReadUpTo(j)' /\ EndsAt(j)'
        BY <3>1, <3>4
      <3> QED BY <3>1, <3>3, <3>5 DEF LoadInv, Loading
    <2>6. CASE Install
      BY <1>1, <2>6 DEF Install, Idle
    <2>7. CASE NoMemory
      BY <1>2, <2>7 DEF NoMemory
    <2> QED BY <1>5, <2>1, <2>2, <2>3, <2>4, <2>5, <2>6, <2>7 DEF SystemLoads, Loads
  <1>6. CASE ShellGoesOn
    BY <1>1, <1>6 DEF ShellGoesOn, Idle
  <1>7. CASE Boots \/ SystemStarts \/ Reads \/ Decodes \/ UNCHANGED sessionVars
    BY <1>2, <1>7 DEF Boots, SystemStarts, Reads, Decodes, sessionVars, loaderVars
  <1>8. CASE ShellExits
    BY <1>2, <1>8 DEF ShellExits, Exits
  <1>9. CASE ShellForks
    BY <1>2, <1>9 DEF ShellForks, Forks
  <1>10. CASE ProgramAsks
    <2>1. UNCHANGED loadVars
      BY <1>10 DEF ProgramAsks, Allocates, Forks, Exits, Faults, loaderVars
    <2> QED BY <1>2, <2>1
  <1> QED BY <1>4, <1>5, <1>6, <1>7, <1>8, <1>9, <1>10 DEF SessionNext

\* How far the loader has read, and what it has made of the lines.
LEMMA LoadInvariant == SessionSpec => []LoadInv
  <1>1. SessionInit => LoadInv
    BY DEF SessionInit, LoaderInit, LoadInv, Loading
  <1>2. LoadInv /\ [SessionNext]_sessionVars => LoadInv'
    BY LoadStep
  <1> QED BY <1>1, <1>2, PTL DEF SessionSpec

\* For every program and every damage: what is installed fits into the array it was
\* collected in and into the image, though the count is compared only after the
\* words of a line have been stored.
THEOREM LoadedFits == SessionSpec => []InstalledFits
  <1>1. LoadInv => InstalledFits
    BY DEF LoadInv, InstalledFits, ReadUpTo
  <1> QED BY <1>1, LoadInvariant, PTL

-----------------------------------------------------------------------------
(* Files that arrive as they were written. *)

\* A file as it was written is read as its program.
LEMMA WrittenReads ==
    ASSUME NEW prog \in Program, NEW file, file = WrittenFile(prog)
    PROVE  ReadAs(file, prog.chunks)
  <1>1. \A j \in 1 .. Len(file) : file[j] \in Spoiled(WrittenFile(prog)[j])
    BY DEF Spoiled
  <1> QED BY <1>1, SpoiledReads

\* The lines between the first and the last are chunks; what the first k lines hold
\* is the beginning of the program.
LEMMA WrittenHolds ==
    ASSUME NEW file, NEW chunks, ReadAs(file, chunks), NEW k \in 1 .. Len(file),
           Len(file) \in Nat,
           \A j \in 2 .. k : Consumed(file[j])
    PROVE  /\ k - 1 <= Len(chunks)
           /\ IsPrefix(FlattenSeq(StoredLines(file, k)), FlattenSeq(chunks))
           /\ FlattenSeq(chunks) \in Seq(ProgramWord)
           /\ FlattenSeq(StoredLines(file, k)) \in Seq(ProgramWord)
           /\ k - 1 = Len(chunks) => FlattenSeq(StoredLines(file, k)) = FlattenSeq(chunks)
  <1> DEFINE S == Seq(ProgramWord)
             ss == StoredLines(file, k)
             n == k - 1
  <1>1. chunks \in Seq(S) /\ Len(chunks) \in Nat
    BY DEF ReadAs
  <1>2. ASSUME NEW j \in 1 .. n PROVE j \in 1 .. Len(chunks) /\ ss[j] = chunks[j]
    <2>1. j + 1 \in 2 .. k /\ j + 1 \in 2 .. Len(file) /\ (j + 1) - 1 = j
      OBVIOUS
    <2>2. Consumed(file[j + 1])
      BY <2>1
    <2>3. j \in 1 .. Len(chunks) /\ Stored(file[j + 1]) = chunks[j]
      BY <2>1, <2>2 DEF ReadAs
    <2>4. ss[j] = Stored(file[j + 1])
      BY DEF StoredLines
    <2> QED BY <2>3, <2>4
  <1>3. n \in Nat /\ n <= Len(chunks)
    <2>1. n \in Nat
      OBVIOUS
    <2>2. CASE n = 0
      BY <1>1, <2>2
    <2>3. CASE n # 0
      <3>1. n \in 1 .. n
        BY <2>1, <2>3
      <3> HIDE DEF n
      <3>2. n \in 1 .. Len(chunks)
        BY <1>2, <3>1
      <3> QED BY <2>1, <3>2
    <2> QED BY <2>1, <2>2, <2>3
  <1>4. ss \in Seq(S) /\ Len(ss) = n
    <2>1. ss \in [1 .. n -> S]
      <3>1. \A j \in 1 .. n : chunks[j] \in S
        BY <1>1, <1>2
      <3>2. ss = [j \in 1 .. n |-> ss[j]]
        BY DEF StoredLines
      <3> HIDE DEF ss, n, S
      <3> QED BY <1>2, <3>1, <3>2
    <2> HIDE DEF ss, n, S
    <2> QED BY <1>3, <2>1, SequenceIs
  <1> HIDE DEF ss, n
  <1>5. /\ FlattenSeq(chunks) \in Seq(ProgramWord) /\ FlattenSeq(ss) \in Seq(ProgramWord)
        /\ IsPrefix(FlattenSeq(ss), FlattenSeq(chunks))
        /\ Len(ss) = Len(chunks) => FlattenSeq(ss) = FlattenSeq(chunks)
    <2> DEFINE T == ProgramWord
    <2>1. chunks \in Seq(Seq(T)) /\ ss \in Seq(Seq(T))
      BY <1>1, <1>4
    <2>2. Len(ss) <= Len(chunks) /\ \A j \in 1 .. Len(ss) : ss[j] = chunks[j]
      BY <1>2, <1>3, <1>4
    <2> HIDE DEF T
    <2>3. /\ FlattenSeq(chunks) \in Seq(T) /\ FlattenSeq(ss) \in Seq(T)
          /\ IsPrefix(FlattenSeq(ss), FlattenSeq(chunks))
          /\ Len(ss) = Len(chunks) => FlattenSeq(ss) = FlattenSeq(chunks)
      BY <2>1, <2>2, FlattenPrefix
    <2> QED BY <2>3 DEF T
  <1> QED BY <1>3, <1>4, <1>5 DEF ss, n

\* If a type 7 line follows the lines that were read, they are the whole program.
LEMMA WholeLoad ==
    ASSUME NEW prog \in Program, NEW file, file = WrittenFile(prog),
           NEW k \in 1 .. Len(file), \A j \in 2 .. k : Consumed(file[j])
    PROVE  /\ Len(prog.chunks) \in Nat /\ Len(file) = Len(prog.chunks) + 2
           /\ k \in 1 .. Len(prog.chunks) + 1
           /\ file[k + 1].type = 7 =>
                 /\ k = Len(prog.chunks) + 1
                 /\ FlattenSeq(StoredLines(file, k)) = ProgramWords(prog)
                 /\ winix_load_srec_mem_val(file[k + 1]) = prog.entry
  <1> DEFINE chunks == prog.chunks
             n == Len(chunks)
  <1>1. FileOf(prog, file) /\ ReadAs(file, chunks)
    BY FileIs, WrittenReads
  <1>2. n \in Nat /\ Len(file) = n + 2
    BY <1>1 DEF FileOf
  <1>3. k - 1 <= n /\ (k - 1 = n => FlattenSeq(StoredLines(file, k)) = FlattenSeq(chunks))
    <2>1. Len(file) \in Nat
      BY <1>2
    <2> HIDE DEF chunks
    <2> QED BY <1>1, <2>1, WrittenHolds
  <1>4. k \in 1 .. n + 1
    <2> HIDE DEF n
    <2> QED BY <1>2, <1>3
  <1>5. ASSUME file[k + 1].type = 7
        PROVE  k = n + 1 /\ winix_load_srec_mem_val(file[k + 1]) = prog.entry
    <2>1. k = n + 1
      <3>1. CASE k \in 1 .. n
        <4>1. file[k + 1] = Record(3, Address(k), FlattenSeq(chunks[k]))
          BY <1>1, <3>1 DEF FileOf
        <4>2. file[k + 1].type = 3
          BY <4>1 DEF Record, Line
        <4> QED BY <1>5, <4>2
      <3> HIDE DEF n
      <3> QED BY <1>2, <1>4, <3>1
    <2>2. file[n + 2] = Record(7, Address(prog.entry), <<>>)
      BY <1>1 DEF FileOf
    <2>3. k + 1 = n + 2
      <3> HIDE DEF n
      <3> QED BY <1>2, <2>1
    <2>4. prog.entry \in Nat
      BY ProgramParts
    <2>5. winix_load_srec_mem_val(file[n + 2]) = prog.entry
      BY <2>2, <2>4, EntryLine
    <2> QED BY <2>1, <2>3, <2>5
  <1>6. k = n + 1 => k - 1 = n
    <2> HIDE DEF n
    <2> QED BY <1>2
  <1> QED BY <1>2, <1>3, <1>4, <1>5, <1>6 DEF ProgramWords

\* What the header of a file as it was written announces.
LEMMA WrittenCount ==
    ASSUME NEW prog \in Program, NEW file, file = WrittenFile(prog)
    PROVE  LET count == Len(ProgramWords(prog)) IN
           /\ count \in Nat /\ HeaderSum(file[1]) = 3 + count
           /\ \/ winix_load_srec_words_length(file[1]) = count /\ count # 0
              \/ winix_load_srec_words_length(file[1]) = 0 /\ HeaderSum(file[1]) <= BYTE - 1
  <1> DEFINE c == Len(ProgramWords(prog))
  <1>1. c \in Nat
    <2>1. FlattenSeq(prog.chunks) \in Seq(ProgramWord)
      BY ProgramParts, FlattenAppend
    <2> QED BY <2>1 DEF ProgramWords
  <1>2. file[1] = WrittenHeader(c)
    BY FileIs DEF FileOf
  <1> HIDE DEF c
  <1>3. /\ HeaderSum(file[1]) = 3 + c
        /\ 3 + c > BYTE - 1 => winix_load_srec_words_length(file[1]) = c
        /\ 3 + c <= BYTE - 1 => winix_load_srec_words_length(file[1]) = 0
    BY <1>1, <1>2, HeaderIs
  <1>4. CASE 3 + c > BYTE - 1
    <2>1. c # 0
      BY <1>1, <1>4, WordSizes
    <2> QED BY <1>1, <1>3, <1>4, <2>1 DEF c
  <1>5. CASE 3 + c <= BYTE - 1
    BY <1>1, <1>3, <1>5 DEF c
  <1> QED BY <1>1, <1>4, <1>5, WordSizes

\* For every program: a file that arrives as reformat_srec wrote it is loaded word for
\* word, and the program starts where it should.
THEOREM LoadsWhole == SessionSpec => []WholeProgram
  <1>1. LoadInv => WholeProgram
    <2> SUFFICES ASSUME LoadInv, Loading, Undamaged
                 PROVE  /\ loaded = ProgramWords(sent.prog) /\ wordslength = Len(loaded)
                        /\ entry = sent.prog.entry
      BY DEF WholeProgram
    <2> DEFINE file == sent.file
               prog == sent.prog
    <2>1. SentOK
      BY DEF LoadInv, Loading
    <2>2. prog \in Program /\ file = WrittenFile(prog)
      BY <2>1, SentIs DEF SentOK, Undamaged
    <2>3. PICK k \in 1 .. Len(file) : ReadUpTo(k) /\ EndsAt(k)
      BY DEF LoadInv
    <2>4. /\ wordslength = winix_load_srec_words_length(file[1]) /\ wordslength # 0
          /\ loaded = FlattenSeq(StoredLines(file, k))
          /\ \A j \in 2 .. k : Consumed(file[j])
      BY <2>3 DEF ReadUpTo
    <2>5. k < Len(file) => file[k + 1].type = 7 /\ entry = winix_load_srec_mem_val(file[k + 1])
      BY <2>3 DEF EndsAt
    <2> HIDE DEF file, prog
    <2>6. /\ Len(prog.chunks) \in Nat /\ Len(file) = Len(prog.chunks) + 2
          /\ k \in 1 .. Len(prog.chunks) + 1
          /\ file[k + 1].type = 7 =>
                /\ FlattenSeq(StoredLines(file, k)) = ProgramWords(prog)
                /\ winix_load_srec_mem_val(file[k + 1]) = prog.entry
      BY <2>2, <2>3, <2>4, WholeLoad
    <2>7. k < Len(file)
      BY <2>6
    <2>8. loaded = ProgramWords(prog) /\ entry = prog.entry
      BY <2>4, <2>5, <2>6, <2>7
    <2>9. wordslength = Len(ProgramWords(prog))
      BY <2>2, <2>4, WrittenCount
    <2> QED BY <2>8, <2>9 DEF prog
  <1> QED BY <1>1, LoadInvariant, PTL

\* A load of such a file fails at the header or not at all.
LEMMA RefusalStep ==
    ASSUME LoadInv, [SessionNext]_sessionVars,
           ld_pc # "failed", ld_pc' = "failed", Undamaged
    PROVE  HeaderSum(sent.file[1]) <= BYTE - 1
  <1> DEFINE file == sent.file
             prog == sent.prog
  <1>1. ASSUME SentOK PROVE prog \in Program /\ file = WrittenFile(prog)
    BY <1>1, SentIs DEF SentOK, Undamaged
  <1>2. CASE UNCHANGED ld_pc
    BY <1>2
  <1>3. CASE ReadHeader
    <2>1. /\ ld_pc = "header"
          /\ \/ winix_load_srec_words_length(Head(incoming)) = 0
             \/ ld_pc' = "records"
      BY <1>3 DEF ReadHeader
    <2>2. winix_load_srec_words_length(Head(incoming)) = 0
      BY <2>1
    <2>3. SentOK /\ Rest(0)
      BY <2>1 DEF LoadInv
    <2>4. Head(incoming) = file[1]
      <3>1. Len(file) \in Nat /\ Len(file) >= 1
        BY <2>3, SentIs
      <3>2. /\ Sequence(incoming) /\ Len(incoming) = Len(file)
            /\ incoming[1] = file[1]
        <4>1. Len(file) - 0 = Len(file) /\ 1 \in 1 .. Len(file) /\ 0 + 1 = 1
          BY <3>1
        <4> QED BY <2>3, <4>1 DEF Rest
      <3>3. incoming # <<>>
        <4>1. Len(<<>>) = 0
          OBVIOUS
        <4> QED BY <3>1, <3>2, <4>1
      <3> QED BY <3>2, <3>3, FirstLine
    <2>5. prog \in Program /\ file = WrittenFile(prog)
      BY <1>1, <2>3
    <2> HIDE DEF file, prog
    <2>6. HeaderSum(file[1]) <= BYTE - 1
      BY <2>2, <2>4, <2>5, WrittenCount
    <2> QED BY <2>6 DEF file
  <1>4. CASE ReadRecord
    <2> DEFINE record == Head(incoming)
    <2>1. /\ ld_pc = "records" /\ incoming # <<>> /\ record.type # 7
          /\ \/ winix_load_srec_mem_val(record) = 0
             \/ /\ loaded' = loaded \o Stored(record)
                /\ ld_pc' = IF Len(loaded') > wordslength THEN "failed" ELSE "records"
      BY <1>4 DEF ReadRecord
    <2>2. SentOK
      BY <2>1 DEF LoadInv
    <2>3. PICK k \in 1 .. Len(file) : ReadUpTo(k) /\ Rest(k)
      BY <2>1 DEF LoadInv
    <2>4. k + 1 \in 1 .. Len(file) /\ record = file[k + 1]
      BY <2>1, <2>2, <2>3, NextLine
    <2>5. /\ wordslength = winix_load_srec_words_length(file[1]) /\ wordslength # 0
          /\ loaded = FlattenSeq(StoredLines(file, k))
          /\ \A j \in 2 .. k : Consumed(file[j])
      BY <2>3 DEF ReadUpTo
    <2>6. prog \in Program /\ file = WrittenFile(prog)
      BY <1>1, <2>2
    <2>7. (\A j \in 1 .. Len(file) : Plain(file[j])) /\ Len(file) \in Nat
      BY <2>2, SentIs
    <2> DEFINE n == Len(prog.chunks)
    <2> HIDE DEF file, prog, record
    <2>8. n \in Nat /\ Len(file) = n + 2 /\ k \in 1 .. n + 1
      BY <2>3, <2>5, <2>6, WholeLoad
    <2>9. k \in 1 .. n
      <3>1. k # n + 1
        <4> SUFFICES ASSUME k = n + 1 PROVE FALSE
          OBVIOUS
        <4>1. k + 1 = n + 2
          <5> HIDE DEF n
          <5> QED BY <2>8
        <4>2. file[n + 2] = Record(7, Address(prog.entry), <<>>)
          BY <2>6, FileIs DEF FileOf
        <4>3. file[k + 1].type = 7
          BY <4>1, <4>2 DEF Record, Line
        <4> QED BY <2>1, <2>4, <4>3
      <3> HIDE DEF n
      <3> QED BY <2>8, <3>1
    <2> DEFINE chunk == prog.chunks[k]
    <2>10. /\ chunk \in Seq(ProgramWord) /\ Len(chunk) \in 1 .. (BYTE - 6) \div WORD_BYTES
           /\ record = Record(3, Address(k), FlattenSeq(chunk)) /\ k \in Nat
      <3>1. file[k + 1] = Record(3, Address(k), FlattenSeq(chunk))
        BY <2>6, <2>9, FileIs DEF FileOf
      <3>2. record = Record(3, Address(k), FlattenSeq(chunk))
        BY <2>4, <3>1
      <3>3. k \in 1 .. Len(prog.chunks)
        BY <2>9
      <3>4. chunk \in Seq(ProgramWord) /\ Len(chunk) \in 1 .. (BYTE - 6) \div WORD_BYTES
        BY <2>6, <3>3, ProgramParts
      <3>5. k \in Nat
        BY <2>8, <3>3
      <3> QED BY <3>2, <3>4, <3>5
    <2>11. winix_load_srec_mem_val(record) # 0
      <3>1. winix_load_srec_mem_val(record) = Len(chunk)
        <4> HIDE DEF chunk
        <4> QED BY <2>10, RecordStored
      <3>2. Len(chunk) # 0
        <4> DEFINE c == Len(chunk)
        <4>1. c \in 1 .. (BYTE - 6) \div WORD_BYTES
          BY <2>10
        <4> HIDE DEF c
        <4>2. c # 0
          BY <4>1
        <4> QED BY <4>2 DEF c
      <3> QED BY <3>1, <3>2
    <2>12. Len(loaded') <= wordslength
      <3>1. \A j \in 2 .. k + 1 : Consumed(file[j])
        <4>1. Consumed(file[k + 1])
          BY <2>1, <2>4, <2>11 DEF Consumed
        <4> QED BY <2>5, <4>1
      <3>2. loaded' = FlattenSeq(StoredLines(file, k + 1))
        <4>1. loaded' = FlattenSeq(StoredLines(file, k)) \o Stored(file[k + 1])
          BY <2>1, <2>4, <2>5, <2>11
        <4>2. k + 1 <= Len(file)
          BY <2>4, <2>7
        <4> QED BY <2>3, <2>7, <4>1, <4>2, LineMore
      <3>3. /\ IsPrefix(FlattenSeq(StoredLines(file, k + 1)), FlattenSeq(prog.chunks))
            /\ FlattenSeq(prog.chunks) \in Seq(ProgramWord)
            /\ FlattenSeq(StoredLines(file, k + 1)) \in Seq(ProgramWord)
        <4>1. ReadAs(file, prog.chunks)
          BY <2>6, WrittenReads
        <4> QED BY <2>4, <2>7, <3>1, <4>1, WrittenHolds
      <3>4. Len(FlattenSeq(StoredLines(file, k + 1))) <= Len(FlattenSeq(prog.chunks))
        BY <3>3 DEF IsPrefix
      <3>5. wordslength = Len(ProgramWords(prog))
        BY <2>5, <2>6, WrittenCount
      <3> QED BY <3>2, <3>4, <3>5 DEF ProgramWords
    <2>13. Len(loaded') \in Nat /\ wordslength \in Nat
      <3>1. wordslength = Len(ProgramWords(prog)) /\ wordslength \in Nat
        BY <2>5, <2>6, WrittenCount
      <3>2. k + 1 <= Len(file)
        BY <2>4, <2>7
      <3>3. loaded' = FlattenSeq(StoredLines(file, k)) \o Stored(file[k + 1])
        BY <2>1, <2>4, <2>5, <2>11
      <3>4. Len(loaded') \in Nat
        BY <2>3, <2>7, <3>2, <3>3, LineMore
      <3> QED BY <3>1, <3>4
    <2>14. ~(Len(loaded') > wordslength)
      BY <2>12, <2>13
    <2> QED BY <2>1, <2>11, <2>14
  <1>5. CASE ReadTyped
    <2>1. ld_pc = "records" /\ incoming = <<>>
      BY <1>5 DEF ReadTyped
    <2>2. SentOK
      BY <2>1 DEF LoadInv
    <2>3. PICK k \in 1 .. Len(file) : ReadUpTo(k) /\ Rest(k)
      BY <2>1 DEF LoadInv
    <2>4. prog \in Program /\ file = WrittenFile(prog)
      BY <1>1, <2>2
    <2>5. \A j \in 2 .. k : Consumed(file[j])
      BY <2>3 DEF ReadUpTo
    <2>6. Len(file) - k = 0
      <3>1. Len(<<>>) = 0
        OBVIOUS
      <3> QED BY <2>1, <2>3, <3>1 DEF Rest
    <2> HIDE DEF file, prog
    <2>7. /\ Len(prog.chunks) \in Nat /\ Len(file) = Len(prog.chunks) + 2
          /\ k \in 1 .. Len(prog.chunks) + 1
      BY <2>3, <2>4, <2>5, WholeLoad
    <2> QED BY <2>6, <2>7
  <1>6. CASE ReadEntry \/ Replace \/ Install \/ NoMemory
    BY <1>6 DEF ReadEntry, Replace, Install, Idle, NoMemory, loadVars
  <1>7. CASE SystemLoads
    BY <1>3, <1>4, <1>5, <1>6, <1>7 DEF SystemLoads, Loads
  <1>8. CASE ShellExecs \/ ShellGoesOn
    BY <1>8 DEF ShellExecs, exec_read_srec, ShellGoesOn, Idle
  <1>9. CASE Boots \/ SystemStarts \/ Reads \/ Decodes \/ UNCHANGED sessionVars
    BY <1>2, <1>9 DEF Boots, SystemStarts, Reads, Decodes, sessionVars, loaderVars, loadVars
  <1>10. CASE ShellExits
    BY <1>2, <1>10 DEF ShellExits, Exits, loadVars
  <1>11. CASE ShellForks
    BY <1>2, <1>11 DEF ShellForks, Forks, loadVars
  <1>12. CASE ProgramAsks
    <2>1. UNCHANGED ld_pc
      BY <1>12 DEF ProgramAsks, Allocates, Forks, Exits, Faults, loaderVars, loadVars
    <2> QED BY <1>2, <2>1
  <1> QED BY <1>7, <1>8, <1>9, <1>10, <1>11, <1>12 DEF SessionNext

\* For every program: the loader refuses a file that arrives undamaged only if the
\* sum of its header fits into a byte, and is not inverted.
THEOREM RefusesShortOnly == SessionSpec => RefusesOnlyShort
  <1>1. LoadInv /\ [SessionNext]_sessionVars
          => [ld_pc # "failed" /\ ld_pc' = "failed" /\ Undamaged
                => HeaderSum(sent.file[1]) <= BYTE - 1]_loaderVars
    BY RefusalStep
  <1> QED BY <1>1, LoadInvariant, PTL DEF SessionSpec, RefusesOnlyShort

-----------------------------------------------------------------------------
(* Files that were damaged on their way. *)

\* For every program whose words have more than two bytes (the code's have four), and
\* every damage: what is loaded is the beginning of the program, with one record
\* missing at most.  The sum of a record notices any one byte that is wrong, and a
\* count that lost one or two cuts a word in two.
THEOREM LoadsNoWrongWord ==
    ASSUME WORD_BYTES > 2
    PROVE  SessionSpec => []NoWrongWord
  <1>1. LoadInv => NoWrongWord
    <2> DEFINE file == sent.file
               own == sent.prog.chunks
    <2> SUFFICES ASSUME LoadInv, Loading
                 PROVE  \E words \in {FlattenSeq(own)} \cup
                                     {FlattenSeq(RemoveAt(own, i)) : i \in 1 .. Len(own)} :
                           IsPrefix(loaded, words)
      BY DEF NoWrongWord
    <2>1. SentOK
      BY DEF LoadInv, Loading
    <2>2. /\ sent.prog \in Program /\ file \in Files(sent.prog) /\ Len(file) \in Nat
      BY <2>1, SentIs
    <2>3. PICK k \in 1 .. Len(file) : ReadUpTo(k)
      BY DEF LoadInv
    <2>4. /\ winix_load_srec_words_length(file[1]) # 0
          /\ loaded = FlattenSeq(StoredLines(file, k))
          /\ \A j \in 2 .. k : Consumed(file[j])
      BY <2>3 DEF ReadUpTo
    <2>5. PICK chunks \in {own} \cup {RemoveAt(own, i) : i \in 1 .. Len(own)} :
             ReadAs(file, chunks)
      BY <2>2, <2>4, ReadsChunks
    <2>6. IsPrefix(loaded, FlattenSeq(chunks))
      <3> HIDE DEF file, own
      <3> QED BY <2>2, <2>3, <2>4, <2>5, WrittenHolds
    <2>7. FlattenSeq(chunks) \in {FlattenSeq(own)} \cup
                     {FlattenSeq(RemoveAt(own, i)) : i \in 1 .. Len(own)}
      <3> HIDE DEF own
      <3> QED BY <2>5
    <2> QED BY <2>6, <2>7
  <1> QED BY <1>1, LoadInvariant, PTL

\* The least number of a set is what Min chooses.
LEMMA LeastIs ==
    ASSUME NEW T, T \subseteq Nat, T # {}
    PROVE  Min(T) \in T /\ \A n \in T : Min(T) <= n
  <1>1. \E m \in T : \A n \in T : m <= n
    <2> SUFFICES ASSUME ~ \E m \in T : \A n \in T : m <= n PROVE FALSE
      OBVIOUS
    <2>1. PICK t \in T : TRUE
      OBVIOUS
    <2> DEFINE S == {n \in 0 .. t : \A m \in 0 .. n : m \notin T}
    <2>2. 0 \in S
      <3>1. 0 \notin T
        OBVIOUS
      <3>2. \A m \in 0 .. 0 : m = 0
        OBVIOUS
      <3> QED BY <2>1, <3>1, <3>2
    <2>3. ASSUME NEW n \in 1 .. t, n - 1 \in S PROVE n \in S
      <3>1. \A m \in 0 .. n - 1 : m \notin T
        BY <2>3
      <3>2. n \notin T
        <4> SUFFICES ASSUME n \in T PROVE FALSE
          OBVIOUS
        <4>1. PICK m \in T : ~(n <= m)
          OBVIOUS
        <4>2. m \in 0 .. n - 1
          BY <4>1
        <4> QED BY <3>1, <4>2
      <3>3. \A m \in 0 .. n : m \in 0 .. n - 1 \/ m = n
        OBVIOUS
      <3> QED BY <3>1, <3>2, <3>3
    <2>4. t \in Nat /\ t \in 0 .. t
      BY <2>1
    <2> HIDE DEF S
    <2>5. t \in S
      BY <2>2, <2>3, <2>4, InductionTo
    <2> QED BY <2>1, <2>4, <2>5 DEF S
  <1> QED BY <1>1 DEF Min

\* A whole number of words is no more when it is rounded up.
LEMMA RoundsDown ==
    ASSUME NEW n \in Nat, n % WORD_BYTES = 0
    PROVE  (n + WORD_BYTES - 1) \div WORD_BYTES = n \div WORD_BYTES
  <1> DEFINE x == n + WORD_BYTES - 1
             q == n \div WORD_BYTES
             p == x \div WORD_BYTES
             r == x % WORD_BYTES
  <1>0. WORD_BYTES \in Nat \ {0} /\ x \in Nat
    BY WordSizes
  <1>1. q \in Nat /\ n = q * WORD_BYTES
    <2>1. q \in Nat /\ n = q * WORD_BYTES + (n % WORD_BYTES)
      BY <1>0, Division
    <2> HIDE DEF q
    <2>2. q * WORD_BYTES \in Nat
      BY <1>0, <2>1
    <2> QED BY <2>1, <2>2
  <1>2. p \in Nat /\ r \in 0 .. WORD_BYTES - 1 /\ x = p * WORD_BYTES + r
    <2> HIDE DEF x
    <2> QED BY <1>0, Division
  <1>3. x = n + WORD_BYTES - 1
    OBVIOUS
  <1> HIDE DEF x, q, p, r
  <1>4. (p - q) * WORD_BYTES = p * WORD_BYTES - q * WORD_BYTES
    BY <1>0, <1>1, <1>2
  <1>5. (p - q) * WORD_BYTES >= 0 /\ (p - q) * WORD_BYTES < WORD_BYTES
    <2> DEFINE y == p * WORD_BYTES
               z == q * WORD_BYTES
    <2>1. y \in Int /\ z \in Int
      BY <1>0, <1>1, <1>2
    <2> HIDE DEF y, z
    <2>2. y - z >= 0 /\ y - z < WORD_BYTES
      BY <1>0, <1>1, <1>2, <1>3, <2>1 DEF y, z
    <2> QED BY <1>4, <2>2 DEF y, z
  <1>6. p - q = 0
    BY <1>0, <1>1, <1>2, <1>5, Multiple
  <1> QED BY <1>1, <1>2, <1>6 DEF p, q, x

\* A quotient that is not negative is one of a number that is not.
LEMMA QuotientOfNat ==
    ASSUME NEW n \in Int, NEW b \in Nat \ {0}, n \div b >= 0
    PROVE  n \in Nat
  OBVIOUS

\* gen_bin_code accepts the lines the loader reads on after, and stores their words.
LEMMA ToolConsumes ==
    ASSUME NEW l, Plain(l), Consumed(l)
    PROVE  ToolStored(l) = Stored(l)
  <1> DEFINE n == DataLength(l)
             e == n \div WORD_BYTES
  <1>1. Accepted(l) /\ l.type = 3 /\ Stored(l) = WordsIn(l) /\ Stored(l) # <<>>
    BY ConsumedHolds
  <1>2. ToolAccepts(l) /\ n % WORD_BYTES = 0
    BY <1>1 DEF Accepted, ToolAccepts
  <1>3. n \in Int /\ WORD_BYTES \in Nat \ {0}
    BY LengthIsInt, WordSizes
  <1>4. n \in Nat
    <2>1. e \in Int
      <3> HIDE DEF n
      <3> QED BY <1>3
    <2>2. e >= 0
      <3> SUFFICES ASSUME e < 0 PROVE FALSE
        BY <2>1
      <3>1. WordsIn(l) = [i \in 1 .. e |-> WordsIn(l)[i]]
        BY DEF WordsIn
      <3> HIDE DEF e
      <3>2. 1 .. e = {}
        BY <2>1
      <3>3. WordsIn(l) = <<>>
        BY <3>1, <3>2
      <3> QED BY <1>1, <3>3
    <2> HIDE DEF n
    <2> QED BY <1>3, <2>2, QuotientOfNat DEF e
  <1>5. (n + WORD_BYTES - 1) \div WORD_BYTES = e
    <2> HIDE DEF n
    <2> QED BY <1>2, <1>4, RoundsDown DEF e
  <1>6. e \in Int
    <2> HIDE DEF n
    <2> QED BY <1>3
  <1>7. ToolWordsIn(l) = [i \in 1 .. e |->
            SubSeq(Data(l), WORD_BYTES * (i - 1) + 1, IF i <= e THEN WORD_BYTES * i ELSE n)]
    BY <1>5 DEF ToolWordsIn
  <1>8. WordsIn(l) = [i \in 1 .. e |->
            SubSeq(Data(l), WORD_BYTES * (i - 1) + 1, WORD_BYTES * i)]
    BY DEF WordsIn
  <1> HIDE DEF e, n
  <1>9. \A i \in 1 .. e : i <= e
    BY <1>6
  <1> QED BY <1>1, <1>2, <1>7, <1>8, <1>9 DEF ToolStored

\* A header that the loader accepts gen_bin_code does.
LEMMA ToolCounts ==
    ASSUME NEW l, winix_load_srec_words_length(l) # 0
    PROVE  ToolHeader(l) # 0
  BY DEF winix_load_srec_words_length, ToolHeader

\* It has read what the loader has, and may have read on.
LEMMA ToolReadsOn ==
    ASSUME NEW file, Sequence(file), Len(file) \in Nat, NEW k \in 1 .. Len(file),
           winix_load_srec_words_length(file[1]) # 0,
           \A j \in 2 .. k : Consumed(file[j])
    PROVE  \E m \in k .. Len(file) :
              /\ ToolReads(file) = SubSeq(file, 2, m)
              /\ Len(ToolReads(file)) = m - 1
              /\ \A i \in 1 .. m - 1 : ToolReads(file)[i] = file[i + 1]
  <1> DEFINE stops == {i \in 2 .. Len(file) : file[i].type = 7 /\ ~ToolAccepts(file[i])}
             m == IF stops = {} THEN Len(file) ELSE Min(stops) - 1
  <1>1. ToolReads(file) = SubSeq(file, 2, m)
    BY ToolCounts DEF ToolReads
  <1>2. \A j \in 2 .. k : j \notin stops
    BY DEF Consumed
  <1>3. stops \subseteq Nat /\ \A i \in stops : i \in 2 .. Len(file)
    OBVIOUS
  <1> HIDE DEF stops
  <1>4. m \in k .. Len(file)
    <2>1. CASE stops = {}
      BY <2>1
    <2>2. CASE stops # {}
      <3>1. Min(stops) \in stops
        BY <1>3, <2>2, LeastIs
      <3> DEFINE x == Min(stops)
      <3>2. x \in 2 .. Len(file) /\ x \notin 2 .. k
        BY <1>2, <1>3, <3>1
      <3>3. m = x - 1
        BY <2>2
      <3> HIDE DEF x, m
      <3> QED BY <3>2, <3>3
    <2> QED BY <2>1, <2>2
  <1> HIDE DEF m
  <1>5. /\ Len(SubSeq(file, 2, m)) = m - 1
        /\ \A i \in 1 .. m - 1 : SubSeq(file, 2, m)[i] = file[i + 1]
    <2>1. PICK S : file \in Seq(S)
      BY DEF Sequence
    <2>2. m \in Nat /\ m <= Len(file) /\ m >= 1
      BY <1>4
    <2>3. Len(SubSeq(file, 2, m)) = m - 1
      BY <2>1, <2>2
    <2>4. ASSUME NEW i \in 1 .. m - 1 PROVE SubSeq(file, 2, m)[i] = file[i + 1]
      BY <2>1, <2>2
    <2> QED BY <2>3, <2>4
  <1> QED BY <1>1, <1>4, <1>5

\* For every program and every damage: what the kernel loads is the beginning of what
\* gen_bin_code would have compiled into the kernel.  The tool accepts every line that
\* the loader reads on after, and never stops before one.
THEOREM LoaderAgreesWithTool == SessionSpec => []AgreesWithTool
  <1>1. LoadInv => AgreesWithTool
    <2> DEFINE file == sent.file
    <2> SUFFICES ASSUME LoadInv, Loading PROVE IsPrefix(loaded, ToolWords(file))
      BY DEF AgreesWithTool
    <2>1. SentOK
      BY DEF LoadInv, Loading
    <2>2. /\ Sequence(file) /\ Len(file) \in Nat
          /\ \A j \in 1 .. Len(file) : Plain(file[j])
      BY <2>1, SentIs
    <2>3. PICK k \in 1 .. Len(file) : ReadUpTo(k)
      BY DEF LoadInv
    <2>4. /\ winix_load_srec_words_length(file[1]) # 0
          /\ loaded = FlattenSeq(StoredLines(file, k))
          /\ \A j \in 2 .. k : Consumed(file[j])
      BY <2>3 DEF ReadUpTo
    <2> HIDE DEF file
    <2>5. PICK m \in k .. Len(file) :
             /\ Len(ToolReads(file)) = m - 1
             /\ \A i \in 1 .. m - 1 : ToolReads(file)[i] = file[i + 1]
      BY <2>2, <2>4, ToolReadsOn
    <2> DEFINE T == WordsOf(file)
               S == Seq(T)
               tt == StoredLines(file, k)
               lines == ToolReads(file)
               ss == [i \in 1 .. Len(lines) |-> ToolStored(lines[i])]
               n == m - 1
    <2>6. ToolWords(file) = FlattenSeq(ss)
      BY DEF ToolWords
    <2>7. /\ n \in Nat /\ k - 1 <= n
          /\ \A i \in 1 .. n : i + 1 \in 1 .. Len(file)
          /\ \A i \in 1 .. k - 1 : i \in 1 .. n /\ i + 1 \in 2 .. k
      BY <2>2
    <2>8. \A i \in 1 .. n : ss[i] = ToolStored(file[i + 1])
      BY <2>5
    <2>9. ss \in Seq(S) /\ Len(ss) = n
      <3>1. \A i \in 1 .. n : ToolStored(file[i + 1]) \in S
        BY <2>2, <2>7, WordsTyped
      <3>2. ss = [i \in 1 .. n |-> ss[i]]
        BY <2>5
      <3> HIDE DEF ss, n, S
      <3>3. ss \in [1 .. n -> S]
        BY <2>8, <3>1, <3>2
      <3> QED BY <2>7, <3>3, SequenceIs
    <2>10. tt \in Seq(S) /\ Len(tt) = k - 1
      BY <2>2, LinesTyped
    <2> HIDE DEF ss, n
    <2>11. \A i \in 1 .. k - 1 : tt[i] = ss[i]
      <3>1. ASSUME NEW i \in 1 .. k - 1 PROVE tt[i] = ss[i]
        <4>1. tt[i] = Stored(file[i + 1])
          BY DEF StoredLines
        <4>2. Consumed(file[i + 1])
          BY <2>4, <2>7
        <4>3. ToolStored(file[i + 1]) = Stored(file[i + 1])
          BY <2>2, <2>7, <4>2, ToolConsumes
        <4> QED BY <2>7, <2>8, <4>1, <4>3
      <3> QED BY <3>1
    <2> HIDE DEF tt, T
    <2>12. IsPrefix(FlattenSeq(tt), FlattenSeq(ss))
      <3>1. tt \in Seq(Seq(T)) /\ ss \in Seq(Seq(T)) /\ Len(tt) <= Len(ss)
            /\ \A i \in 1 .. Len(tt) : tt[i] = ss[i]
        BY <2>7, <2>9, <2>10, <2>11
      <3> QED BY <3>1, FlattenPrefix
    <2> QED BY <2>4, <2>6, <2>12 DEF tt
  <1> QED BY <1>1, LoadInvariant, PTL

-----------------------------------------------------------------------------
(* Words written behind the array. *)

\* Quotients by the same number are ordered as what they are quotients of.
LEMMA QuotientsOrdered ==
    ASSUME NEW x \in Nat, NEW y \in Nat, NEW b \in Nat \ {0}, x <= y
    PROVE  x \div b <= y \div b
  <1> DEFINE p == x \div b
             q == y \div b
             r == y % b
  <1>1. p \in Nat /\ p * b <= x
    <2>1. p \in Nat /\ x % b \in 0 .. b - 1 /\ x = p * b + (x % b)
      BY Division
    <2> HIDE DEF p
    <2>2. p * b \in Nat
      BY <2>1
    <2> QED BY <2>1, <2>2
  <1>2. q \in Nat /\ r \in 0 .. b - 1 /\ y = q * b + r
    BY Division
  <1> HIDE DEF p, q, r
  <1>3. CASE p > q
    <2> DEFINE e == p - q - 1
    <2>1. e \in Nat /\ e * b \in Nat /\ e * b = p * b - q * b - b
      BY <1>1, <1>2, <1>3
    <2>2. p * b \in Int /\ q * b \in Int
      BY <1>1, <1>2
    <2> DEFINE pb == p * b
               qb == q * b
    <2>3. pb \in Int /\ qb \in Int /\ pb - qb - b >= 0 /\ pb <= x /\ y = qb + r
      BY <1>1, <1>2, <2>1, <2>2
    <2> HIDE DEF pb, qb, e
    <2> QED BY <1>2, <2>3
  <1> QED BY <1>1, <1>2, <1>3 DEF p, q

\* A line holds no more words than its count can say.
LEMMA LineHolds ==
    ASSUME NEW l, Plain(l), Consumed(l)
    PROVE  Len(Stored(l)) \in Nat /\ Len(Stored(l)) <= (BYTE - 6) \div WORD_BYTES
  <1> DEFINE n == DataLength(l)
             e == n \div WORD_BYTES
  <1>1. l.type = 3 /\ Stored(l) = WordsIn(l) /\ Stored(l) # <<>>
    BY ConsumedHolds
  <1>2. n \in Int /\ n <= BYTE - 6 /\ WORD_BYTES \in Nat \ {0} /\ BYTE - 6 \in Nat
    <2>1. AddressLength(l.type) = 4
      BY <1>1 DEF AddressLength
    <2>2. n \in Int /\ n = l.bytes[1] - AddressLength(l.type) - 1
      BY LengthIsInt
    <2>3. l.bytes[1] \in Nat /\ l.bytes[1] < BYTE
      BY DEF Plain
    <2> HIDE DEF n
    <2> QED BY <2>1, <2>2, <2>3, WordSizes
  <1>3. e \in Int
    <2> HIDE DEF n
    <2> QED BY <1>2
  <1>4. WordsIn(l) = [i \in 1 .. e |-> WordsIn(l)[i]]
    BY DEF WordsIn
  <1>5. e >= 0
    <2> HIDE DEF e
    <2> SUFFICES ASSUME e < 0 PROVE FALSE
      BY <1>3
    <2>1. 1 .. e = {}
      BY <1>3
    <2>2. WordsIn(l) = <<>>
      BY <1>4, <2>1
    <2> QED BY <1>1, <2>2
  <1>6. Len(WordsIn(l)) = e
    <2>1. e \in Nat
      BY <1>3, <1>5
    <2> HIDE DEF e
    <2>2. DOMAIN WordsIn(l) = 1 .. e
      BY <1>4
    <2> QED BY <1>4, <2>1, <2>2, SequenceIs
  <1>7. e <= (BYTE - 6) \div WORD_BYTES
    <2> HIDE DEF n
    <2>1. n \in Nat
      BY <1>2, <1>5, QuotientOfNat
    <2> DEFINE y == BYTE - 6
    <2>2. y \in Nat /\ n <= y
      BY <1>2
    <2> HIDE DEF y
    <2>3. n \div WORD_BYTES <= y \div WORD_BYTES
      BY <1>2, <2>1, <2>2, QuotientsOrdered
    <2> QED BY <2>3 DEF y
  <1> HIDE DEF e
  <1> QED BY <1>1, <1>3, <1>5, <1>6, <1>7

\* ReadRecord is the step that may write behind the array.
LEMMA OverrunRecord ==
    ASSUME LoadInv, SystemLoads, ReadRecord, OverrunIsBounded
    PROVE  OverrunIsBounded'
  <1> DEFINE record == Head(incoming)
             file == sent.file
  <1>1. /\ ld_pc = "records" /\ incoming # <<>> /\ record.type # 7 /\ sent' = sent
        /\ wordslength' = wordslength
        /\ \/ loaded' = loaded
           \/ /\ winix_load_srec_mem_val(record) # 0
              /\ loaded' = loaded \o Stored(record)
              /\ ld_pc' = IF Len(loaded') > wordslength THEN "failed" ELSE "records"
    BY DEF ReadRecord, Fails
  <1>2. CASE loaded' = loaded
    BY <1>1, <1>2 DEF OverrunIsBounded
  <1>3. CASE loaded' # loaded
    <2>1. Consumed(record) /\ loaded' = loaded \o Stored(record)
          /\ ld_pc' = IF Len(loaded') > wordslength THEN "failed" ELSE "records"
      BY <1>1, <1>3 DEF Consumed
    <2>2. SentOK
      BY <1>1 DEF LoadInv
    <2>3. PICK k \in 1 .. Len(file) : ReadUpTo(k) /\ Rest(k)
      BY <1>1 DEF LoadInv
    <2>4. k + 1 \in 1 .. Len(file) /\ record = file[k + 1]
      BY <1>1, <2>2, <2>3, NextLine
    <2>5. /\ (\A j \in 1 .. Len(file) : Plain(file[j])) /\ Len(file) \in Nat
          /\ winix_load_srec_words_length(file[1]) \in Nat
      BY <2>2, SentIs
    <2>6. /\ wordslength = winix_load_srec_words_length(file[1]) /\ wordslength # 0
          /\ loaded = FlattenSeq(StoredLines(file, k)) /\ Len(loaded) <= wordslength
          /\ \A j \in 2 .. k : Consumed(file[j])
      BY <2>3 DEF ReadUpTo
    <2> DEFINE more == (BYTE - 6) \div WORD_BYTES
               n == Len(Stored(record))
    <2>7. n \in Nat /\ n <= more
      BY <2>1, <2>4, <2>5, LineHolds
    <2> HIDE DEF file, record
    <2>8. Len(loaded) \in Nat /\ Len(loaded') = Len(loaded) + n
      <3>1. Stored(record) \in Seq(WordsOf(file)) /\ loaded \in Seq(WordsOf(file))
        BY <2>3, <2>4, <2>5, <2>6, WordsTyped, LinesTyped
      <3> HIDE DEF n
      <3> QED BY <2>1, <3>1 DEF n
    <2>9. more \in Int
      <3>1. BYTE - 6 \in Nat /\ WORD_BYTES \in Nat \ {0}
        BY WordSizes
      <3> QED BY <3>1
    <2>10. Len(loaded') > wordslength => Len(loaded') - wordslength <= more
      <3> HIDE DEF n, more
      <3> QED BY <2>5, <2>6, <2>7, <2>8, <2>9
    <2>11. ASSUME Undamaged, Len(loaded') > wordslength PROVE FALSE
      <3>1. ld_pc # "failed" /\ ld_pc' = "failed"
        BY <1>1, <2>1, <2>11
      <3>2. HeaderSum(sent.file[1]) <= BYTE - 1
        BY <2>11, <3>1, RefusalStep DEF SessionNext
      <3>3. sent.prog \in Program /\ file = WrittenFile(sent.prog)
        BY <2>2, <2>11, SentIs DEF SentOK, Undamaged, file
      <3>4. HeaderSum(file[1]) \in Int
        BY <3>3, WrittenCount
      <3>5. ~(HeaderSum(file[1]) > BYTE - 1)
        BY <3>2, <3>4, WordSizes DEF file
      <3> QED BY <2>6, <3>5 DEF winix_load_srec_words_length
    <2>12. Len(loaded') > wordslength => sent.damaged
      BY <2>11 DEF Undamaged
    <2> QED BY <1>1, <2>1, <2>10, <2>12 DEF OverrunIsBounded
  <1> QED BY <1>2, <1>3

LEMMA OverrunStep ==
    ASSUME LoadInv, LoadInv', OverrunIsBounded, [SessionNext]_sessionVars
    PROVE  OverrunIsBounded'
  <1>1. CASE UNCHANGED loadVars
    BY <1>1 DEF loadVars, OverrunIsBounded
  <1>2. ASSUME UNCHANGED <<loaded, wordslength>>, ld_pc # "failed" PROVE OverrunIsBounded'
    BY <1>2 DEF OverrunIsBounded
  <1>3. CASE ShellExecs
    BY <1>2, <1>3 DEF ShellExecs, exec_read_srec
  <1>4. CASE ReadHeader
    <2>1. CASE ld_pc' = "failed"
      BY <1>2, <1>4, <2>1 DEF ReadHeader, Fails
    <2>2. CASE ld_pc' # "failed"
      <3>1. ld_pc' = "records" /\ loaded' = loaded /\ sent' = sent /\ ld_pc = "header"
        BY <1>4, <2>2 DEF ReadHeader, Fails
      <3>2. loaded' = <<>> /\ SentOK
        BY <3>1 DEF LoadInv
      <3>3. wordslength' \in Nat
        <4>1. PICK k \in 1 .. Len(sent'.file) : ReadUpTo(k)'
          BY <3>1 DEF LoadInv
        <4> QED BY <3>1, <3>2, <4>1, SentIs DEF ReadUpTo
      <3>4. Len(<<>>) = 0
        OBVIOUS
      <3> QED BY <3>2, <3>3, <3>4 DEF OverrunIsBounded
    <2> QED BY <2>1, <2>2
  <1>5. CASE SystemLoads /\ ReadRecord
    BY <1>5, OverrunRecord
  <1>6. CASE ReadEntry \/ ReadTyped \/ Replace
    BY <1>2, <1>6 DEF ReadEntry, ReadTyped, Fails, Replace
  <1>7. ASSUME loaded' = <<>>, wordslength' = 0 PROVE OverrunIsBounded'
    <2>1. ~(Len(<<>>) > 0)
      OBVIOUS
    <2> QED BY <1>7, <2>1 DEF OverrunIsBounded
  <1>8. CASE Install \/ NoMemory
    BY <1>1, <1>7, <1>8 DEF Install, Idle, NoMemory
  <1>9. CASE SystemLoads
    BY <1>4, <1>5, <1>6, <1>8, <1>9 DEF SystemLoads, Loads
  <1>10. CASE ShellGoesOn
    BY <1>1, <1>7, <1>10 DEF ShellGoesOn, Idle
  <1>11. CASE Boots \/ SystemStarts \/ Reads \/ Decodes \/ UNCHANGED sessionVars
    BY <1>1, <1>11 DEF Boots, SystemStarts, Reads, Decodes, sessionVars, loaderVars
  <1>12. CASE ShellExits \/ ShellForks
    BY <1>1, <1>12 DEF ShellExits, ShellForks, Exits, Forks
  <1>13. CASE ProgramAsks
    <2>1. UNCHANGED loadVars
      BY <1>13 DEF ProgramAsks, Allocates, Forks, Exits, Faults, loaderVars
    <2> QED BY <1>1, <2>1
  <1> QED BY <1>3, <1>9, <1>10, <1>11, <1>12, <1>13 DEF SessionNext

\* For every program and every damage: the loader writes behind the array only if the
\* file was damaged, by the words of one line at most, and gives up then.
THEOREM OverrunsAreBounded == SessionSpec => []OverrunIsBounded
  <1>1. SessionInit => OverrunIsBounded
    <2>1. ~(Len(<<>>) > 0)
      OBVIOUS
    <2> QED BY <2>1 DEF SessionInit, LoaderInit, OverrunIsBounded
  <1>2. LoadInv /\ LoadInv' /\ OverrunIsBounded /\ [SessionNext]_sessionVars
          => OverrunIsBounded'
    BY OverrunStep
  <1> QED BY <1>1, <1>2, LoadInvariant, PTL DEF SessionSpec
=============================================================================
