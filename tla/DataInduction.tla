---------------------------- MODULE DataInduction ----------------------------
(***************************************************************************)
(* Induction and recursion for proofs about what recursive functions       *)
(* compute: with a set of numbers in the place of the predicate, and a     *)
(* function of functions in the place of the step.  Then what the proofs   *)
(* of the codecs need of sequences, position by position, and FlattenSeq   *)
(* piece by piece.                                                         *)
(***************************************************************************)
EXTENDS Integers, SequencesExt, SequenceTheorems, WellFoundedInduction, TLAPS

\* A set that has 0, and with each number the next, has all of them.
LEMMA Induction ==
    ASSUME NEW S, 0 \in S, \A n \in Nat : n \in S => n + 1 \in S
    PROVE  Nat \subseteq S
<1> DEFINE T == Nat \ S
<1> SUFFICES ASSUME T # {} PROVE FALSE
    OBVIOUS
<1>1. PICK R : R = OpToRel(<, Nat)
    OBVIOUS
<1>2. IsWellFoundedOn(R, Nat)
    BY <1>1, NatLessThanWellFounded
<1>3. PICK x \in T : \A y \in T : ~(<<y, x>> \in R)
    BY <1>2, WFMin
<1>4. x - 1 \in T
    BY <1>3
<1>5. <<x - 1, x>> \in R
    BY <1>1, <1>3, <1>4 DEF OpToRel
<1> QED BY <1>3, <1>4, <1>5

\* A set of numbers that is not empty has a least element.
LEMMA Least ==
    ASSUME NEW T, T \subseteq Nat, T # {}
    PROVE  \E x \in T : \A y \in T : x <= y
<1>1. PICK R : R = OpToRel(<, Nat)
    OBVIOUS
<1>2. IsWellFoundedOn(R, Nat)
    BY <1>1, NatLessThanWellFounded
<1>3. PICK x \in T : \A y \in T : ~(<<y, x>> \in R)
    BY <1>2, WFMin
<1>4. ASSUME NEW y \in T PROVE x <= y
    <2>1. y < x => <<y, x>> \in R
        BY <1>1 DEF OpToRel
    <2> QED BY <1>3, <2>1
<1> QED BY <1>4

\* A recursion over the numbers up to a bound has a value at each.
Runs(f, L, S, base, step) ==
    f \in [0..L -> S] /\ f[0] = base /\ \A n \in 1..L : f[n] = step[n][f[n - 1]]

LEMMA Recursion ==
    ASSUME NEW L \in Nat, NEW S, NEW base \in S, NEW step \in [1..L -> [S -> S]]
    PROVE  \E f : Runs(f, L, S, base, step)
<1> DEFINE Upto(k) == \E f \in [0..k -> S] : f[0] = base /\ \A n \in 1..k : f[n] = step[n][f[n - 1]]
           K == {k \in Nat : k <= L => Upto(k)}
<1>1. 0 \in K
    <2>1. PICK f : f = [n \in 0..0 |-> base]
        OBVIOUS
    <2>2. f \in [0..0 -> S] /\ f[0] = base /\ \A n \in 1..0 : f[n] = step[n][f[n - 1]]
        BY <2>1
    <2>3. Upto(0)
        BY <2>2
    <2> QED BY <2>3
<1>2. ASSUME NEW k \in Nat, k \in K PROVE k + 1 \in K
    <2> SUFFICES ASSUME k + 1 <= L PROVE Upto(k + 1)
        OBVIOUS
    <2>1. PICK f \in [0..k -> S] : f[0] = base /\ \A n \in 1..k : f[n] = step[n][f[n - 1]]
        BY <1>2
    <2>2. PICK g : g = [n \in 0..(k + 1) |-> IF n = k + 1 THEN step[n][f[k]] ELSE f[n]]
        OBVIOUS
    <2>3. step[k + 1][f[k]] \in S
        BY <2>1
    <2>4. g \in [0..(k + 1) -> S]
        BY <2>1, <2>2, <2>3
    <2>5. g[0] = base
        BY <2>1, <2>2
    <2>6. ASSUME NEW n \in 1..(k + 1) PROVE g[n] = step[n][g[n - 1]]
        <3>1. CASE n = k + 1
            BY <2>2, <3>1
        <3>2. CASE n # k + 1
            BY <2>1, <2>2, <3>2
        <3> QED BY <3>1, <3>2
    <2> QED BY <2>4, <2>5, <2>6
<1> HIDE DEF K, Upto
<1>3. L \in K
    BY <1>1, <1>2, Induction
<1> QED BY <1>3 DEF K, Upto, Runs

\* A function that follows the recursion wherever its values are in the set
\* never leaves the set.
LEMMA RunsTyped ==
    ASSUME NEW L \in Nat, NEW S, NEW base \in S, NEW step \in [1..L -> [S -> S]],
           NEW g, DOMAIN g = 0..L, g = [n \in DOMAIN g |-> g[n]], g[0] = base,
           \A n \in 1..L : g[n - 1] \in S => g[n] = step[n][g[n - 1]]
    PROVE  Runs(g, L, S, base, step)
<1> DEFINE K == {k \in Nat : k <= L => g[k] \in S}
<1>1. 0 \in K
    OBVIOUS
<1>2. ASSUME NEW k \in Nat, k \in K PROVE k + 1 \in K
    <2> SUFFICES ASSUME k + 1 <= L PROVE g[k + 1] \in S
        OBVIOUS
    <2>1. PICK n : n = k + 1
        OBVIOUS
    <2>2. n \in 1..L /\ n - 1 = k /\ k <= L
        BY <2>1
    <2>3. g[n - 1] \in S
        BY <1>2, <2>2
    <2>4. g[n] = step[n][g[n - 1]]
        BY <2>2, <2>3
    <2> QED BY <2>1, <2>2, <2>3, <2>4
<1> HIDE DEF K
<1>3. \A k \in 0..L : g[k] \in S
    <2>1. Nat \subseteq K
        BY <1>1, <1>2, Induction
    <2> QED BY <2>1 DEF K
<1>4. \A n \in 1..L : g[n] = step[n][g[n - 1]]
    BY <1>3
<1> QED BY <1>3, <1>4 DEF Runs

-----------------------------------------------------------------------------
LEMMA FunctionIsSeq ==
    ASSUME NEW S, NEW n \in Nat, NEW f \in [1..n -> S]
    PROVE  f \in Seq(S) /\ Len(f) = n
<1>1. f \in Seq(S)
    BY SeqDef
<1> QED BY <1>1, LenProperties

\* A concatenation, position by position.
LEMMA ConcatAt ==
    ASSUME NEW T, NEW a \in Seq(T), NEW b \in Seq(T), NEW c, c = a \o b
    PROVE  /\ c \in Seq(T) /\ Len(a) \in Nat /\ Len(b) \in Nat /\ Len(c) = Len(a) + Len(b)
           /\ \A j \in 1..Len(a) : c[j] = a[j]
           /\ \A j \in 1..Len(b) : c[Len(a) + j] = b[j]
<1>1. Len(a) \in Nat /\ Len(b) \in Nat
    BY LenProperties
<1>2. c \in Seq(T) /\ Len(c) = Len(a) + Len(b)
    BY ConcatProperties
<1>3. ASSUME NEW j \in 1..Len(a) PROVE c[j] = a[j]
    <2>1. j \in 1..(Len(a) + Len(b)) /\ j <= Len(a)
        BY <1>1
    <2> QED BY <2>1, ConcatProperties
<1>4. ASSUME NEW j \in 1..Len(b) PROVE c[Len(a) + j] = b[j]
    <2>1. PICK p : p = Len(a) + j
        OBVIOUS
    <2>2. p \in 1..(Len(a) + Len(b)) /\ ~(p <= Len(a)) /\ p - Len(a) = j
        BY <1>1, <2>1
    <2>3. c[p] = b[p - Len(a)]
        BY <2>2, ConcatProperties
    <2> QED BY <2>1, <2>2, <2>3
<1> QED BY <1>1, <1>2, <1>3, <1>4

\* What a prefix says position by position.
LEMMA PrefixAt ==
    ASSUME NEW S, NEW p \in Seq(S), NEW s \in Seq(S), IsPrefix(p, s)
    PROVE  /\ Len(p) \in Nat /\ Len(s) \in Nat /\ Len(p) <= Len(s)
           /\ \A j \in 1..Len(p) : s[j] = p[j] /\ s[j] \in S
<1>1. Len(p) \in Nat /\ Len(s) \in Nat /\ Len(p) <= Len(s) /\ SubSeq(p, 1, Len(p)) = SubSeq(s, 1, Len(p))
    BY LenProperties DEF IsPrefix
<1>2. \A j \in 1..Len(p) : p[j] \in S /\ s[j] \in S
    BY <1>1, ElementOfSeq
<1>3. SubSeq(p, 1, Len(p)) = p
    BY SubSeqFull
<1>4. \A j \in 1..Len(p) : SubSeq(s, 1, Len(p))[j] = s[j]
    BY <1>1, <1>2, SubSeqProperties
<1> QED BY <1>1, <1>2, <1>3, <1>4

\* A part of a sequence, position by position.
LEMMA PartAt ==
    ASSUME NEW S, NEW s \in Seq(S), NEW m \in Nat, NEW n \in Nat, n <= Len(s)
    PROVE  /\ SubSeq(s, m + 1, n) \in Seq(S)
           /\ m <= n => /\ Len(SubSeq(s, m + 1, n)) = n - m
                        /\ \A j \in 1..(n - m) : SubSeq(s, m + 1, n)[j] = s[m + j]
           /\ n <= m => SubSeq(s, m + 1, n) = <<>>
           /\ m < n => SubSeq(s, m + 1, n) = Append(SubSeq(s, m + 1, n - 1), s[n])
<1>1. Len(s) \in Nat
    BY LenProperties
<1>2. \A i \in (m + 1)..n : s[i] \in S
    BY <1>1, ElementOfSeq
<1>3. PICK k : k = m + 1
    OBVIOUS
<1>4. k \in Int /\ n \in Int
    BY <1>3
<1>5. /\ SubSeq(s, k, n) \in Seq(S)
      /\ Len(SubSeq(s, k, n)) = IF k <= n THEN n - k + 1 ELSE 0
      /\ \A i \in 1..(n - k + 1) : SubSeq(s, k, n)[i] = s[k + i - 1]
    BY <1>2, <1>3, <1>4, SubSeqProperties
<1>6. ASSUME m <= n PROVE Len(SubSeq(s, k, n)) = n - m
    BY <1>3, <1>5, <1>6
<1>7. ASSUME m <= n, NEW j \in 1..(n - m) PROVE SubSeq(s, k, n)[j] = s[m + j]
    <2>1. j \in 1..(n - k + 1) /\ k + j - 1 = m + j
        BY <1>3, <1>7
    <2> QED BY <1>5, <2>1
<1>8. ASSUME n <= m PROVE SubSeq(s, k, n) = <<>>
    BY <1>3, <1>4, <1>8, SubSeqEmpty
<1>9. ASSUME m < n PROVE SubSeq(s, k, n) = Append(SubSeq(s, k, n - 1), s[n])
    <2>1. k \in 1..Len(s) /\ n \in k..Len(s)
        BY <1>1, <1>3, <1>9
    <2>2. SubSeq(s, k, n) = SubSeq(s, k, n - 1) \o <<s[n]>>
        BY <2>1, SubSeqRecursiveSecond
    <2>3. \A i \in k..(n - 1) : s[i] \in S
        BY <1>2, <1>3
    <2>4. SubSeq(s, k, n - 1) \in Seq(S) /\ s[n] \in S
        BY <1>2, <1>3, <1>4, <2>1, <2>3, SubSeqProperties
    <2> QED BY <2>2, <2>4, AppendIsConcat
<1> QED BY <1>3, <1>5, <1>6, <1>7, <1>8, <1>9

\* The part of a sequence that holds another one is that one.
LEMMA PartIs ==
    ASSUME NEW S, NEW s \in Seq(S), NEW m \in Nat, NEW p \in Seq(S), m + Len(p) <= Len(s),
           \A j \in 1..Len(p) : s[m + j] = p[j]
    PROVE  SubSeq(s, m + 1, m + Len(p)) = p
<1>1. Len(p) \in Nat /\ Len(s) \in Nat
    BY LenProperties
<1>2. PICK n : n = m + Len(p)
    OBVIOUS
<1>3. n \in Nat /\ n <= Len(s) /\ m <= n /\ n - m = Len(p)
    BY <1>1, <1>2
<1>4. PICK q : q = SubSeq(s, m + 1, n)
    OBVIOUS
<1>5. q \in Seq(S) /\ Len(q) = Len(p) /\ \A j \in 1..Len(p) : q[j] = s[m + j]
    BY <1>3, <1>4, PartAt
<1>6. q = p
    BY <1>5, SeqEqual
<1> QED BY <1>2, <1>4, <1>6

LEMMA BoundedIsSeq == \A S, n : BoundedSeq(S, n) \subseteq Seq(S)
<1> SUFFICES ASSUME NEW S, NEW n, NEW m \in 0..n, NEW x \in [1..m -> S] PROVE x \in Seq(S)
    BY DEF BoundedSeq, SeqOf
<1>1. m \in Nat
    OBVIOUS
<1> QED BY <1>1, SeqDef

-----------------------------------------------------------------------------
\* FlattenSeq, piece by piece.
Pieces(g, T, ss) ==
    /\ g \in [0..Len(ss) -> Seq(T)] /\ g[0] = <<>>
    /\ \A n \in 1..Len(ss) : g[n] = g[n - 1] \o ss[n]

LEMMA FlattenSteps ==
    ASSUME NEW T, NEW ss \in Seq(Seq(T))
    PROVE  \E g : Pieces(g, T, ss) /\ FlattenSeq(ss) = g[Len(ss)]
<1>1. Len(ss) \in Nat /\ <<>> \in Seq(T)
    BY LenProperties, EmptySeq
<1>2. \A n \in 1..Len(ss) : ss[n] \in Seq(T)
    BY ElementOfSeq
<1>3. CASE Len(ss) = 0
    <2>1. PICK g : g = [n \in 0..0 |-> <<>>]
        OBVIOUS
    <2>2. ss = <<>>
        BY <1>3, EmptySeq
    <2>3. FlattenSeq(ss) = <<>>
        BY <1>3, <2>2 DEF FlattenSeq
    <2>4. Pieces(g, T, ss)
        BY <1>1, <1>3, <2>1 DEF Pieces
    <2>5. g[Len(ss)] = <<>>
        BY <1>3, <2>1
    <2> QED BY <2>3, <2>4, <2>5
<1>4. CASE Len(ss) # 0
    <2>1. PICK step : step = [n \in 1..Len(ss) |-> [a \in Seq(T) |-> a \o ss[n]]]
        OBVIOUS
    <2>2. ASSUME NEW n \in 1..Len(ss) PROVE step[n] \in [Seq(T) -> Seq(T)]
        <3>1. step[n] = [a \in Seq(T) |-> a \o ss[n]]
            BY <2>1
        <3>2. \A a \in Seq(T) : a \o ss[n] \in Seq(T)
            BY <1>2, ConcatProperties
        <3> QED BY <3>1, <3>2, Zenon
    <2>3. step \in [1..Len(ss) -> [Seq(T) -> Seq(T)]]
        BY <2>1, <2>2, Zenon
    <2>4. PICK f : Runs(f, Len(ss), Seq(T), <<>>, step)
        BY <1>1, <2>3, Recursion
    <2>5. ASSUME NEW n \in 1..Len(ss) PROVE f[n] = f[n - 1] \o ss[n]
        <3>1. f[n - 1] \in Seq(T)
            BY <1>1, <2>4 DEF Runs
        <3>2. step[n] = [a \in Seq(T) |-> a \o ss[n]]
            BY <2>1
        <3>3. step[n][f[n - 1]] = f[n - 1] \o ss[n]
            BY <3>1, <3>2, Zenon
        <3> QED BY <2>4, <3>3 DEF Runs
    <2>6. Pieces(f, T, ss)
        BY <2>4, <2>5 DEF Runs, Pieces
    <2>7. PICK h : h = [i \in 1..Len(ss) |-> f[i]]
        OBVIOUS
    <2>8. f[1] = ss[1]
        <3>1. 1 \in 1..Len(ss) /\ 1 - 1 = 0
            BY <1>1, <1>4
        <3>2. f[1] = f[1 - 1] \o ss[1]
            BY <2>5, <3>1, Zenon
        <3>3. f[0] = <<>>
            BY <2>6 DEF Pieces
        <3>4. <<>> \o ss[1] = ss[1]
            BY <1>2, <3>1, ConcatEmptySeq
        <3> QED BY <3>1, <3>2, <3>3, <3>4, Zenon
    <2>9. h = [i \in 1..Len(ss) |-> IF i = 1 THEN ss[i] ELSE h[i - 1] \o ss[i]]
        <3>1. ASSUME NEW i \in 1..Len(ss), i # 1 PROVE h[i] = h[i - 1] \o ss[i]
            <4>1. i - 1 \in 1..Len(ss)
                BY <1>1, <3>1
            <4>2. h[i - 1] = f[i - 1] /\ h[i] = f[i]
                BY <2>7, <4>1
            <4>3. f[i] = f[i - 1] \o ss[i]
                BY <2>5, <3>1, Zenon
            <4> QED BY <4>2, <4>3, Zenon
        <3>2. h[1] = ss[1]
            BY <1>1, <1>4, <2>7, <2>8
        <3>3. \A i \in 1..Len(ss) : h[i] = IF i = 1 THEN ss[i] ELSE h[i - 1] \o ss[i]
            BY <3>1, <3>2, Zenon
        <3>4. h = [i \in 1..Len(ss) |-> h[i]]
            BY <2>7
        <3> QED BY <3>3, <3>4, Zenon
    <2> DEFINE flatten[i \in 1..Len(ss)] == IF i = 1 THEN ss[i] ELSE flatten[i - 1] \o ss[i]
    <2>10. flatten = CHOOSE g : g = [i \in 1..Len(ss) |-> IF i = 1 THEN ss[i] ELSE g[i - 1] \o ss[i]]
        OBVIOUS
    <2>11. FlattenSeq(ss) = flatten[Len(ss)]
        BY <1>4 DEF FlattenSeq
    <2> HIDE DEF flatten
    <2>12. flatten = [i \in 1..Len(ss) |-> IF i = 1 THEN ss[i] ELSE flatten[i - 1] \o ss[i]]
        BY <2>9, <2>10
    <2> DEFINE K == {k \in Nat : k + 1 <= Len(ss) => flatten[k + 1] = f[k + 1]}
    <2>13. 0 \in K
        BY <1>1, <1>4, <2>8, <2>12
    <2>14. ASSUME NEW k \in Nat, k \in K PROVE k + 1 \in K
        <3> SUFFICES ASSUME k + 2 <= Len(ss) PROVE flatten[k + 2] = f[k + 2]
            OBVIOUS
        <3>1. PICK m : m = k + 2
            OBVIOUS
        <3>2. m \in 1..Len(ss) /\ m # 1 /\ m - 1 = k + 1
            BY <1>1, <3>1
        <3>3. flatten[m - 1] = f[m - 1]
            BY <1>1, <2>14, <3>2
        <3>4. flatten[m] = flatten[m - 1] \o ss[m]
            BY <2>12, <3>2, Zenon
        <3>5. f[m] = f[m - 1] \o ss[m]
            BY <2>5, <3>2, Zenon
        <3> QED BY <3>1, <3>3, <3>4, <3>5
    <2> HIDE DEF K
    <2>15. Nat \subseteq K
        BY <2>13, <2>14, Induction
    <2>16. flatten[Len(ss)] = f[Len(ss)]
        <3>1. Len(ss) - 1 \in K /\ Len(ss) - 1 + 1 = Len(ss)
            BY <1>1, <1>4, <2>15
        <3> QED BY <1>1, <3>1 DEF K
    <2> QED BY <2>6, <2>11, <2>16
<1> QED BY <1>3, <1>4

\* The pieces are determined, so flattening a longer list only adds to it.
LEMMA FlattenAppend ==
    ASSUME NEW T, NEW ss \in Seq(Seq(T)), NEW x \in Seq(T)
    PROVE  FlattenSeq(ss) \in Seq(T) /\ FlattenSeq(Append(ss, x)) = FlattenSeq(ss) \o x
<1>1. PICK g : Pieces(g, T, ss) /\ FlattenSeq(ss) = g[Len(ss)]
    BY FlattenSteps
<1>2. PICK t : t = Append(ss, x)
    OBVIOUS
<1>3. /\ t \in Seq(Seq(T)) /\ Len(t) = Len(ss) + 1 /\ Len(ss) \in Nat
      /\ \A i \in 1..Len(ss) : t[i] = ss[i]
      /\ t[Len(ss) + 1] = x
    BY <1>2, AppendProperties, LenProperties
<1>4. PICK h : Pieces(h, T, t) /\ FlattenSeq(t) = h[Len(t)]
    BY <1>3, FlattenSteps
<1> DEFINE K == {k \in Nat : k <= Len(ss) => g[k] = h[k]}
<1>5. 0 \in K
    BY <1>1, <1>4 DEF Pieces
<1>6. ASSUME NEW k \in Nat, k \in K PROVE k + 1 \in K
    <2> SUFFICES ASSUME k + 1 <= Len(ss) PROVE g[k + 1] = h[k + 1]
        OBVIOUS
    <2>1. PICK m : m = k + 1
        OBVIOUS
    <2>2. m \in 1..Len(ss) /\ m \in 1..Len(t) /\ m - 1 = k /\ k <= Len(ss)
        BY <1>3, <2>1
    <2>3. g[m] = g[m - 1] \o ss[m]
        BY <1>1, <2>2 DEF Pieces
    <2>4. h[m] = h[m - 1] \o t[m]
        BY <1>4, <2>2 DEF Pieces
    <2>5. t[m] = ss[m]
        BY <1>3, <2>2
    <2>6. g[m - 1] = h[m - 1]
        BY <1>6, <2>2
    <2> QED BY <2>1, <2>3, <2>4, <2>5, <2>6
<1> HIDE DEF K
<1>7. g[Len(ss)] = h[Len(ss)]
    <2>1. Len(ss) \in K
        BY <1>3, <1>5, <1>6, Induction
    <2> QED BY <1>3, <2>1 DEF K
<1>8. h[Len(t)] = h[Len(ss)] \o x
    <2>1. Len(t) \in 1..Len(t) /\ Len(t) - 1 = Len(ss)
        BY <1>3
    <2> QED BY <1>3, <1>4, <2>1 DEF Pieces
<1>9. g[Len(ss)] \in Seq(T)
    <2>1. Len(ss) \in 0..Len(ss)
        BY <1>3
    <2>2. g \in [0..Len(ss) -> Seq(T)]
        BY <1>1 DEF Pieces
    <2> QED BY <2>1, <2>2, Zenon
<1> QED BY <1>1, <1>2, <1>4, <1>7, <1>8, <1>9

\* Earlier pieces stay where they are.
LEMMA PiecesStay ==
    ASSUME NEW T, NEW ss \in Seq(Seq(T)), NEW g, Pieces(g, T, ss), NEW i \in 0..Len(ss), NEW m \in i..Len(ss)
    PROVE  /\ g[i] \in Seq(T) /\ Len(g[i]) \in Nat /\ g[m] \in Seq(T) /\ Len(g[m]) \in Nat
           /\ Len(g[i]) <= Len(g[m])
           /\ \A j \in 1..Len(g[i]) : g[m][j] = g[i][j]
<1>1. Len(ss) \in Nat /\ i \in Nat /\ m \in 0..Len(ss) /\ m - i \in Nat
    BY LenProperties
<1>2. \A k \in 0..Len(ss) : g[k] \in Seq(T) /\ Len(g[k]) \in Nat
    BY LenProperties DEF Pieces
<1> DEFINE K == {k \in Nat : i + k <= Len(ss) =>
                     Len(g[i]) <= Len(g[i + k]) /\ \A j \in 1..Len(g[i]) : g[i + k][j] = g[i][j]}
<1>3. 0 \in K
    BY <1>1, <1>2
<1>4. ASSUME NEW k \in Nat, k \in K PROVE k + 1 \in K
    <2>1. SUFFICES ASSUME i + (k + 1) <= Len(ss)
                   PROVE  /\ Len(g[i]) <= Len(g[i + (k + 1)])
                          /\ \A j \in 1..Len(g[i]) : g[i + (k + 1)][j] = g[i][j]
        OBVIOUS
    <2>2. PICK n : n = i + (k + 1)
        OBVIOUS
    <2>3. n \in 1..Len(ss) /\ n - 1 = i + k /\ n - 1 \in 0..Len(ss) /\ i + k <= Len(ss)
        BY <1>1, <2>1, <2>2
    <2>4. g[n] = g[n - 1] \o ss[n]
        BY <2>3 DEF Pieces
    <2>5. ss[n] \in Seq(T) /\ g[n - 1] \in Seq(T)
        BY <1>2, <2>3, ElementOfSeq
    <2>6. PICK a, b, c : /\ a = g[n - 1] /\ b = ss[n] /\ c = g[n]
                         /\ a \in Seq(T) /\ b \in Seq(T) /\ c = a \o b
        BY <2>4, <2>5
    <2>7. /\ Len(a) \in Nat /\ Len(b) \in Nat /\ Len(c) = Len(a) + Len(b)
          /\ \A j \in 1..Len(a) : c[j] = a[j]
        <3>1. a \in Seq(T) /\ b \in Seq(T) /\ c = a \o b
            BY <2>6
        <3> QED BY <3>1, ConcatAt
    <2>8. PICK x, y, z : x = Len(g[i]) /\ y = Len(a) /\ z = Len(c)
        OBVIOUS
    <2>9. x \in Nat /\ y \in Nat /\ y <= z
        BY <1>2, <2>7, <2>8
    <2>10. x <= y /\ \A j \in 1..x : a[j] = g[i][j]
        BY <1>4, <2>3, <2>6, <2>8
    <2>11. z \in Nat
        BY <2>7, <2>8
    <2>12. x <= z /\ \A j \in 1..x : c[j] = g[i][j]
        <3>1. \A j \in 1..y : c[j] = a[j]
            BY <2>7, <2>8
        <3> QED BY <2>9, <2>10, <2>11, <3>1
    <2> QED BY <2>2, <2>6, <2>8, <2>12
<1> HIDE DEF K
<1>5. m - i \in K
    BY <1>1, <1>3, <1>4, Induction
<1>6. i + (m - i) = m
    BY <1>1
<1>7. Len(g[i]) <= Len(g[m]) /\ \A j \in 1..Len(g[i]) : g[m][j] = g[i][j]
    BY <1>1, <1>5, <1>6 DEF K
<1> QED BY <1>1, <1>2, <1>7
=============================================================================
