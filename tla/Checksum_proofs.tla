-------------------------- MODULE Checksum_proofs --------------------------
(***************************************************************************)
(* The checksum of rtp.cpp and what it detects, for words and payloads of  *)
(* any size.                                                               *)
(*                                                                         *)
(* The sum is a recursive function, and what it computes is shown by       *)
(* induction over its argument: of the arguments for which a statement     *)
(* fails, one would be the smallest (Smallest).                            *)
(***************************************************************************)
EXTENDS Checksum, SequenceTheorems, WellFoundedInduction, TLAPS

-----------------------------------------------------------------------------
(***************************************************************************)
(* Induction over numbers, and numbers modulo another.                     *)
(***************************************************************************)
LEMMA Smallest ==
    ASSUME NEW T, T \subseteq Nat, T # {}
    PROVE  \E n \in T : \A m \in T : n <= m
<1>1. \E n \in T : \A m \in T : ~ (<<m, n>> \in OpToRel(<, Nat))
  BY NatLessThanWellFounded, WFMin
<1>2. PICK n \in T : \A m \in T : ~ (<<m, n>> \in OpToRel(<, Nat))
  BY <1>1
<1>3. ASSUME NEW m \in T
      PROVE  n <= m
  <2>1. m \in Nat /\ n \in Nat
    OBVIOUS
  <2>2. ~ (m < n)
    BY <1>2, <2>1 DEF OpToRel
  <2> QED
    BY <2>1, <2>2
<1> QED
  BY <1>3

\* The sums after 0, 1, 2, ... terms exist, whatever adding means.
LEMMA SumsExist ==
    ASSUME NEW m \in Nat, NEW w \in [1 .. m -> Nat], NEW Plus \in [Nat \X Nat -> Nat]
    PROVE  \E g \in [0 .. m -> Nat] :
               /\ g[0] = 0
               /\ \A n \in 1 .. m : g[n] = Plus[<<g[n - 1], w[n]>>]
<1> DEFINE Good(k) == \E g \in [0 .. k -> Nat] :
                          /\ g[0] = 0
                          /\ \A n \in 1 .. k : g[n] = Plus[<<g[n - 1], w[n]>>]
           Bad == {k \in 0 .. m : ~ Good(k)}
<1>1. Good(0)
  <2> DEFINE g == [n \in 0 .. 0 |-> 0]
  <2>1. g \in [0 .. 0 -> Nat] /\ g[0] = 0
    OBVIOUS
  <2>2. \A n \in 1 .. 0 : FALSE
    OBVIOUS
  <2> HIDE DEF g
  <2> QED
    BY <2>1, <2>2
<1>2. ASSUME NEW k \in 0 .. m, k # m, Good(k)
      PROVE  Good(k + 1)
  <2>1. PICK g \in [0 .. k -> Nat] :
            /\ g[0] = 0
            /\ \A n \in 1 .. k : g[n] = Plus[<<g[n - 1], w[n]>>]
    BY <1>2
  <2> DEFINE h == [n \in 0 .. k + 1 |-> IF n = k + 1 THEN Plus[<<g[k], w[k + 1]>>] ELSE g[n]]
  <2>2. g[k] \in Nat /\ w[k + 1] \in Nat
    BY <1>2
  <2>3. Plus[<<g[k], w[k + 1]>>] \in Nat
    BY <2>2
  <2>4. h \in [0 .. k + 1 -> Nat]
    <3>1. \A n \in 0 .. k + 1 : n # k + 1 => n \in 0 .. k
      OBVIOUS
    <3> QED
      BY <2>3, <3>1
  <2>5. h[0] = 0 /\ h[k + 1] = Plus[<<g[k], w[k + 1]>>] /\ \A n \in 0 .. k : h[n] = g[n]
    BY <2>1
  <2>6. ASSUME NEW n \in 1 .. k + 1
        PROVE  h[n] = Plus[<<h[n - 1], w[n]>>]
    <3>1. CASE n = k + 1
      <4>1. n - 1 = k /\ k \in 0 .. k
        BY <3>1
      <4> QED
        BY <2>5, <3>1, <4>1
    <3>2. CASE n \in 1 .. k
      <4>1. n \in 0 .. k /\ n - 1 \in 0 .. k
        BY <3>2
      <4> QED
        BY <2>1, <2>5, <3>2, <4>1
    <3> QED
      BY <3>1, <3>2
  <2> HIDE DEF h
  <2> QED
    BY <2>4, <2>5, <2>6
<1> HIDE DEF Good
<1>3. Bad = {}
  <2> SUFFICES ASSUME Bad # {}
               PROVE  FALSE
    OBVIOUS
  <2>1. Bad \subseteq Nat
    OBVIOUS
  <2>2. PICK k \in Bad : \A j \in Bad : k <= j
    BY <2>1, Smallest
  <2>3. k \in 0 .. m /\ ~ Good(k) /\ k # 0
    BY <1>1
  <2>4. k - 1 \in 0 .. m /\ k - 1 # m /\ (k - 1) + 1 = k /\ ~ (k <= k - 1)
    BY <2>3
  <2>5. Good(k - 1)
    BY <2>2, <2>4
  <2> QED
    BY <1>2, <2>3, <2>4, <2>5
<1>4. Good(m)
  <2>1. m \in 0 .. m
    OBVIOUS
  <2> QED
    BY <1>3, <2>1
<1> QED
  BY <1>4 DEF Good

\* Quotient and remainder are what they should be.
LEMMA DivMod ==
    ASSUME NEW a \in Nat, NEW b \in Nat \ {0}
    PROVE  /\ a \div b \in Nat /\ a % b \in 0 .. b - 1
           /\ (a \div b) * b + (a % b) = a
OBVIOUS

\* Neighbouring multiples of b are b apart.
LEMMA Multiples ==
    ASSUME NEW b \in Nat \ {0}, NEW p \in Int, NEW q \in Int, p < q
    PROVE  p * b \in Int /\ q * b \in Int /\ p * b + b <= q * b
<1>1. q - p - 1 \in Nat
  OBVIOUS
<1>2. (q - p - 1) * b \in Nat
  BY <1>1
<1>3. (q - p - 1) * b = q * b - p * b - b
  OBVIOUS
<1>4. p * b \in Int /\ q * b \in Int
  OBVIOUS
<1> QED
  BY <1>2, <1>3, <1>4

LEMMA ModUnique ==
    ASSUME NEW b \in Nat \ {0}, NEW q \in Nat, NEW r \in 0 .. b - 1
    PROVE  (q * b + r) \div b = q /\ (q * b + r) % b = r
<1> DEFINE a == q * b + r
           p == a \div b
           s == a % b
<1>1. q * b \in Nat /\ a \in Nat
  OBVIOUS
<1>2. p \in Nat /\ s \in 0 .. b - 1 /\ p * b + s = a
  BY <1>1, DivMod
<1> HIDE DEF p, s
<1>3. p * b \in Nat
  BY <1>2
<1>4. p = q
  <2>1. ~ (p < q)
    <3> SUFFICES ASSUME p < q
                 PROVE  FALSE
      OBVIOUS
    <3>1. p * b + b <= q * b
      BY <1>2, Multiples
    <3> QED
      BY <1>1, <1>2, <1>3, <3>1
  <2>2. ~ (q < p)
    <3> SUFFICES ASSUME q < p
                 PROVE  FALSE
      OBVIOUS
    <3>1. q * b + b <= p * b
      BY <1>2, Multiples
    <3> QED
      BY <1>1, <1>2, <1>3, <3>1
  <2> QED
    BY <1>2, <2>1, <2>2
<1>5. s = r
  BY <1>1, <1>2, <1>3, <1>4
<1> QED
  BY <1>4, <1>5 DEF p, s

-----------------------------------------------------------------------------
(***************************************************************************)
(* The sums.                                                               *)
(***************************************************************************)
LEMMA SumsDefined ==
    ASSUME NEW w, NEW g,
           g = [n \in 0 .. Len(w) |-> IF n = 0 THEN 0 ELSE AddWord(g[n - 1], w[n])]
    PROVE  Sums(w) = [n \in 0 .. Len(w) |->
                         IF n = 0 THEN 0 ELSE AddWord(Sums(w)[n - 1], w[n])]
BY Zenon DEF Sums

LEMMA TotalsDefined ==
    ASSUME NEW w, NEW g,
           g = [n \in 0 .. Len(w) |-> IF n = 0 THEN 0 ELSE g[n - 1] + w[n]]
    PROVE  Totals(w) = [n \in 0 .. Len(w) |->
                           IF n = 0 THEN 0 ELSE Totals(w)[n - 1] + w[n]]
BY Zenon DEF Totals

LEMMA Words_OK ==
    /\ Base \in Nat /\ Base > 1 /\ WordBase \in Nat /\ WordBase > Base
    /\ WordBase - 1 \in Nat \ {0} /\ WordBase - Base \in Nat
    /\ WordBase - Base < WordBase - 1
<1>1. Base \in Nat /\ Base > 1
  BY ChecksumAssumption
<1>2. Base * Base \in Nat /\ 1 * Base + Base <= Base * Base
  BY <1>1, Multiples
<1> QED
  BY <1>1, <1>2 DEF WordBase

\* Both functions are the recursions that they are written as.
LEMMA SumsOf ==
    ASSUME NEW w \in Seq(Word)
    PROVE  /\ Sums(w)[0] = 0
           /\ \A n \in 1 .. Len(w) : Sums(w)[n] = AddWord(Sums(w)[n - 1], w[n])
<1> DEFINE m == Len(w)
           Plus == [p \in Nat \X Nat |-> AddWord(p[1], p[2])]
<1>1. m \in Nat /\ w \in [1 .. m -> Nat] /\ w = [n \in 1 .. m |-> w[n]]
  BY Words_OK DEF Word
<1>2. Plus \in [Nat \X Nat -> Nat]
  <2>1. ASSUME NEW a \in Nat, NEW b \in Nat
        PROVE  AddWord(a, b) \in Nat
    <3>1. a + b \in Nat /\ WordBase \in Nat \ {0}
      BY Words_OK
    <3>2. (a + b) \div WordBase \in Nat /\ (a + b) % WordBase \in 0 .. WordBase - 1
      BY <3>1, DivMod
    <3> QED
      BY <3>2 DEF AddWord
  <2> QED
    BY <2>1
<1>3. PICK g \in [0 .. m -> Nat] :
          g[0] = 0 /\ \A n \in 1 .. m : g[n] = Plus[<<g[n - 1], w[n]>>]
  BY <1>1, <1>2, SumsExist
<1>4. ASSUME NEW n \in 1 .. m
      PROVE  g[n] = AddWord(g[n - 1], w[n])
  <2>1. n - 1 \in 0 .. m
    BY <1>1
  <2>2. <<g[n - 1], w[n]>> \in Nat \X Nat
    BY <1>1, <2>1
  <2> QED
    BY <1>3, <2>2
<1>5. g = [n \in 0 .. m |-> IF n = 0 THEN 0 ELSE AddWord(g[n - 1], w[n])]
  <2>1. \A n \in 0 .. m : g[n] = IF n = 0 THEN 0 ELSE AddWord(g[n - 1], w[n])
    <3>1. \A n \in 0 .. m : n = 0 \/ n \in 1 .. m
      BY <1>1
    <3> QED
      BY <1>3, <1>4, <3>1
  <2> QED
    BY <2>1
<1>6. Sums(w) = [n \in 0 .. m |-> IF n = 0 THEN 0 ELSE AddWord(Sums(w)[n - 1], w[n])]
  BY <1>5, SumsDefined
<1>7. 0 \in 0 .. m /\ \A n \in 1 .. m : n \in 0 .. m /\ n # 0
  BY <1>1
<1> QED
  BY <1>6, <1>7

LEMMA TotalsOf ==
    ASSUME NEW w \in Seq(Word)
    PROVE  /\ Totals(w)[0] = 0
           /\ \A n \in 1 .. Len(w) : Totals(w)[n] = Totals(w)[n - 1] + w[n]
<1> DEFINE m == Len(w)
           Plus == [p \in Nat \X Nat |-> p[1] + p[2]]
<1>1. m \in Nat /\ w \in [1 .. m -> Nat] /\ w = [n \in 1 .. m |-> w[n]]
  BY Words_OK DEF Word
<1>2. Plus \in [Nat \X Nat -> Nat]
  OBVIOUS
<1>3. PICK g \in [0 .. m -> Nat] :
          g[0] = 0 /\ \A n \in 1 .. m : g[n] = Plus[<<g[n - 1], w[n]>>]
  BY <1>1, <1>2, SumsExist
<1>4. ASSUME NEW n \in 1 .. m
      PROVE  g[n] = g[n - 1] + w[n]
  <2>1. n - 1 \in 0 .. m
    BY <1>1
  <2>2. <<g[n - 1], w[n]>> \in Nat \X Nat
    BY <1>1, <2>1
  <2> QED
    BY <1>3, <2>2
<1>5. g = [n \in 0 .. m |-> IF n = 0 THEN 0 ELSE g[n - 1] + w[n]]
  <2>1. \A n \in 0 .. m : g[n] = IF n = 0 THEN 0 ELSE g[n - 1] + w[n]
    <3>1. \A n \in 0 .. m : n = 0 \/ n \in 1 .. m
      BY <1>1
    <3> QED
      BY <1>3, <1>4, <3>1
  <2> QED
    BY <2>1
<1>6. Totals(w) = [n \in 0 .. m |-> IF n = 0 THEN 0 ELSE Totals(w)[n - 1] + w[n]]
  BY <1>5, TotalsDefined
<1>7. 0 \in 0 .. m /\ \A n \in 1 .. m : n \in 0 .. m /\ n # 0
  BY <1>1
<1> QED
  BY <1>6, <1>7

\* The sum s stands for the total t.
Represents(s, t) ==
    /\ s \in Word /\ t \in Nat
    /\ s = 0 <=> t = 0
    /\ \E q \in Nat : t = s + q * (WordBase - 1)

\* One carry is enough.
LEMMA AddWordValue ==
    ASSUME NEW s \in Word, NEW x \in Word
    PROVE  AddWord(s, x) = IF s + x < WordBase THEN s + x ELSE s + x - (WordBase - 1)
<1>1. s \in Nat /\ x \in Nat /\ s < WordBase /\ x < WordBase /\ WordBase \in Nat \ {0}
  BY Words_OK DEF Word
<1>2. CASE s + x < WordBase
  <2>1. s + x \in 0 .. WordBase - 1 /\ 0 * WordBase + (s + x) = s + x
    BY <1>1, <1>2
  <2>2. (s + x) \div WordBase = 0 /\ (s + x) % WordBase = s + x
    BY <1>1, <2>1, ModUnique
  <2> QED
    BY <1>1, <1>2, <2>2 DEF AddWord
<1>3. CASE ~ (s + x < WordBase)
  <2>1. s + x - WordBase \in 0 .. WordBase - 1 /\ 1 * WordBase + (s + x - WordBase) = s + x
    BY <1>1, <1>3
  <2>2. (s + x) \div WordBase = 1 /\ (s + x) % WordBase = s + x - WordBase
    BY <1>1, <2>1, ModUnique
  <2> QED
    BY <1>1, <1>3, <2>2 DEF AddWord
<1> QED
  BY <1>2, <1>3

LEMMA RepresentsStep ==
    ASSUME NEW s, NEW t, Represents(s, t), NEW x \in Word
    PROVE  Represents(AddWord(s, x), t + x)
<1> DEFINE M == WordBase - 1
<1>1. /\ s \in Nat /\ x \in Nat /\ s <= M /\ x <= M /\ M \in Nat \ {0} /\ t \in Nat
      /\ s = 0 <=> t = 0
      /\ s \in Word
  BY Words_OK DEF Represents, Word
<1>2. PICK q \in Nat : t = s + q * M
  BY DEF Represents
<1>3. q * M \in Nat /\ (q + 1) * M = q * M + M
  BY <1>1
<1>4. CASE s + x <= M
  <2>1. AddWord(s, x) = s + x
    BY <1>1, <1>4, AddWordValue, Words_OK
  <2>2. t + x = (s + x) + q * M
    BY <1>1, <1>2, <1>3
  <2>3. s + x \in Word /\ (s + x = 0 <=> t + x = 0)
    BY <1>1, <1>4 DEF Word
  <2> QED
    BY <1>1, <2>1, <2>2, <2>3 DEF Represents
<1>5. CASE ~ (s + x <= M)
  <2>1. AddWord(s, x) = s + x - M
    BY <1>1, <1>5, AddWordValue, Words_OK
  <2>2. t + x = (s + x - M) + (q + 1) * M
    BY <1>1, <1>2, <1>3
  <2>3. s + x - M \in Word /\ s + x - M # 0 /\ t + x # 0
    BY <1>1, <1>5 DEF Word
  <2> QED
    BY <1>1, <2>1, <2>2, <2>3 DEF Represents
<1> QED
  BY <1>4, <1>5

LEMMA SumsRepresent ==
    ASSUME NEW w \in Seq(Word), NEW n \in 0 .. Len(w)
    PROVE  Represents(Sums(w)[n], Totals(w)[n])
<1> DEFINE Bad == {k \in 0 .. Len(w) : ~ Represents(Sums(w)[k], Totals(w)[k])}
<1>1. Len(w) \in Nat
  OBVIOUS
<1>2. Represents(0, 0)
  <2>1. WordBase \in Nat /\ 0 = 0 + 0 * (WordBase - 1)
    BY Words_OK
  <2> QED
    BY <2>1, Words_OK DEF Represents, Word
<1>3. ASSUME Bad # {}
      PROVE  FALSE
  <2>0. Bad \subseteq Nat
    BY <1>1
  <2>1. PICK k \in Bad : \A j \in Bad : k <= j
    BY <1>3, <2>0, Smallest
  <2>2. k \in 1 .. Len(w)
    BY <1>1, <1>2, SumsOf, TotalsOf
  <2>3. k - 1 \in 0 .. Len(w) /\ ~ (k <= k - 1)
    BY <1>1, <2>2
  <2>4. Represents(Sums(w)[k - 1], Totals(w)[k - 1])
    BY <2>1, <2>3
  <2>5. w[k] \in Word
    BY <2>2, ElementOfSeq
  <2> QED
    BY <2>2, <2>4, <2>5, SumsOf, TotalsOf, RepresentsStep
<1> QED
  BY <1>3

\* What a sum stands for determines it.
LEMMA RepresentsOnesComplement ==
    ASSUME NEW s, NEW t, Represents(s, t)
    PROVE  s = OnesComplement(t)
<1> DEFINE M == WordBase - 1
<1>1. s \in Nat /\ s <= M /\ M \in Nat \ {0} /\ t \in Nat /\ (s = 0 <=> t = 0)
  BY Words_OK DEF Represents, Word
<1>2. PICK q \in Nat : t = s + q * M
  BY DEF Represents
<1>3. CASE s = 0
  BY <1>1, <1>3 DEF OnesComplement
<1>4. CASE s # 0
  <2>1. s - 1 \in 0 .. M - 1 /\ q * M \in Nat
    BY <1>1, <1>4
  <2>2. t - 1 = q * M + (s - 1)
    BY <1>1, <1>2, <2>1
  <2>3. (t - 1) % M = s - 1
    BY <1>1, <2>1, <2>2, ModUnique
  <2> QED
    BY <1>1, <1>4, <2>3 DEF OnesComplement
<1> QED
  BY <1>3, <1>4

\* Of the multiples of 2^16 - 1, only 0 has a sum other than 2^16 - 1.
LEMMA FullSum ==
    ASSUME NEW s, NEW q \in Nat, Represents(s, (WordBase - 1) + q * (WordBase - 1))
    PROVE  s = WordBase - 1
<1> DEFINE M == WordBase - 1
<1>1. s \in Nat /\ s <= M /\ M \in Nat \ {0} /\ q * M \in Nat
  BY Words_OK DEF Represents, Word
<1>2. s = 0 <=> M + q * M = 0
  BY DEF Represents
<1>3. PICK p \in Nat : M + q * M = s + p * M
  BY DEF Represents
<1> HIDE DEF M
<1>4. p * M \in Nat /\ s # 0
  BY <1>1, <1>2
<1>5. ~ (p < q)
  <2>1. p < q => p * M + M <= q * M
    BY <1>1, Multiples
  <2> QED
    BY <1>1, <1>3, <1>4, <2>1
<1>6. ~ (q < p)
  <2>1. q < p => q * M + M <= p * M
    BY <1>1, Multiples
  <2> QED
    BY <1>1, <1>3, <1>4, <2>1
<1>7. p = q
  BY <1>5, <1>6
<1>8. s = M
  BY <1>1, <1>3, <1>7
<1> QED
  BY <1>8 DEF M

\* When one word changes, the total changes by as much.
LEMMA OneWordChanged ==
    ASSUME NEW a \in Seq(Word), NEW b \in Seq(Word), Len(a) = Len(b),
           NEW j \in 1 .. Len(a),
           \A k \in 1 .. Len(a) : k # j => a[k] = b[k]
    PROVE  Totals(b)[Len(b)] = Totals(a)[Len(a)] + (b[j] - a[j])
<1> DEFINE Delta(n) == IF n < j THEN 0 ELSE b[j] - a[j]
           Bad == {n \in 0 .. Len(a) : Totals(b)[n] # Totals(a)[n] + Delta(n)}
<1>1. Len(a) \in Nat /\ j \in Nat /\ 1 <= j /\ j <= Len(a)
  OBVIOUS
<1>2. \A k \in 1 .. Len(a) : a[k] \in Nat /\ b[k] \in Nat
  <2>1. Word \subseteq Nat
    BY Words_OK DEF Word
  <2> QED
    BY <2>1, ElementOfSeq
<1>3. \A n \in 0 .. Len(a) : Totals(a)[n] \in Nat /\ Totals(b)[n] \in Nat
  BY SumsRepresent DEF Represents
<1>4. ASSUME Bad # {}
      PROVE  FALSE
  <2>0. Bad \subseteq Nat
    BY <1>1
  <2>1. PICK n \in Bad : \A i \in Bad : n <= i
    BY <1>4, <2>0, Smallest
  <2>2. n \in 1 .. Len(a)
    <3>1. n \in 0 .. Len(a) /\ Totals(b)[n] # Totals(a)[n] + Delta(n)
      OBVIOUS
    <3>2. n # 0
      BY <1>1, <3>1, TotalsOf
    <3> QED
      BY <1>1, <3>1, <3>2
  <2>3. n - 1 \in 0 .. Len(a) /\ ~ (n <= n - 1)
    BY <1>1, <2>2
  <2>4. Totals(b)[n - 1] = Totals(a)[n - 1] + Delta(n - 1)
    BY <2>1, <2>3
  <2>5. /\ Totals(a)[n] = Totals(a)[n - 1] + a[n]
        /\ Totals(b)[n] = Totals(b)[n - 1] + b[n]
    BY <2>2, TotalsOf
  <2>6. Totals(b)[n] # Totals(a)[n] + Delta(n)
    OBVIOUS
  <2>7. Totals(a)[n - 1] \in Nat /\ a[n] \in Nat /\ b[n] \in Nat /\ a[j] \in Nat /\ b[j] \in Nat
    BY <1>2, <1>3, <2>2, <2>3
  <2>8. CASE n < j
    <3>1. n - 1 < j /\ n # j
      BY <1>1, <2>2, <2>8
    <3> QED
      BY <2>2, <2>4, <2>5, <2>6, <2>7, <2>8, <3>1
  <2>9. CASE n = j
    <3>1. n - 1 < j
      BY <1>1, <2>9
    <3> QED
      BY <2>4, <2>5, <2>6, <2>7, <2>9, <3>1
  <2>10. CASE n > j
    <3>1. ~ (n - 1 < j) /\ ~ (n < j) /\ n # j
      BY <1>1, <2>2, <2>10
    <3>2. a[n] = b[n]
      BY <2>2, <3>1
    <3> QED
      BY <2>4, <2>5, <2>6, <2>7, <3>1, <3>2
  <2> QED
    BY <1>1, <2>2, <2>8, <2>9, <2>10
<1>5. Len(a) \in 0 .. Len(a) /\ Delta(Len(a)) = b[j] - a[j]
  BY <1>1
<1> QED
  BY <1>4, <1>5

-----------------------------------------------------------------------------
(***************************************************************************)
(* Bytes and words.                                                        *)
(***************************************************************************)
LEMMA TwoBytes ==
    ASSUME NEW x \in Byte, NEW y \in Byte
    PROVE  x * Base + y \in Word /\ x * Base \in Nat /\ x * Base \in Word
<1>1. Base \in Nat \ {0} /\ x \in Nat /\ y \in Nat /\ x < Base /\ y < Base
  BY Words_OK DEF Byte
<1>2. x * Base \in Nat /\ x * Base + Base <= Base * Base
  BY <1>1, Multiples
<1> QED
  BY <1>1, <1>2, Words_OK DEF Word, WordBase

\* memcpy undoes memcpy, and ntohs undoes htons.
LEMMA BytesOfWord ==
    ASSUME NEW x \in Word
    PROVE  /\ Bytes(x) \in Seq(Byte) /\ Len(Bytes(x)) = 2
           /\ Bytes(x)[1] * Base + Bytes(x)[2] = x
<1>1. Base \in Nat \ {0} /\ x \in Nat /\ x < Base * Base
  BY Words_OK DEF Word, WordBase
<1>2. x \div Base \in Nat /\ x % Base \in 0 .. Base - 1 /\ (x \div Base) * Base + (x % Base) = x
  BY <1>1, DivMod
<1>3. x \div Base < Base
  <2> SUFFICES ASSUME ~ (x \div Base < Base)
               PROVE  FALSE
    OBVIOUS
  <2> DEFINE d == x \div Base
  <2>1. d \in Nat /\ d * Base \in Nat /\ x % Base \in Nat /\ d * Base + (x % Base) = x
    BY <1>1, <1>2
  <2> HIDE DEF d
  <2>2. CASE d = Base
    BY <1>1, <2>1, <2>2
  <2>3. CASE Base < d
    <3>1. Base * Base + Base <= d * Base
      BY <1>1, <2>1, <2>3, Multiples
    <3> QED
      BY <1>1, <2>1, <3>1
  <2> QED
    BY <1>1, <2>1, <2>2, <2>3 DEF d
<1>4. x \div Base \in Byte /\ x % Base \in Byte
  BY <1>1, <1>2, <1>3 DEF Byte
<1> QED
  BY <1>2, <1>4 DEF Bytes

LEMMA WordsOf ==
    ASSUME NEW b \in Seq(Byte)
    PROVE  /\ Len(b) \in Nat
           /\ Len(Words(b)) = (Len(b) + 1) \div 2 /\ Len(Words(b)) \in Nat
           /\ Words(b) \in Seq(Word)
           /\ \A k \in 1 .. Len(Words(b)) : Words(b)[k] = WordAt(b, k)
<1> DEFINE m == (Len(b) + 1) \div 2
<1>1. Len(b) \in Nat /\ m \in Nat
  OBVIOUS
<1>2. ASSUME NEW k \in 1 .. m
      PROVE  WordAt(b, k) \in Word
  <2>1. 2 * k - 1 \in 1 .. Len(b)
    BY <1>1
  <2>2. b[2 * k - 1] \in Byte
    BY <2>1, ElementOfSeq
  <2>3. 2 * k <= Len(b) => b[2 * k] \in Byte
    <3>1. 2 * k <= Len(b) => 2 * k \in 1 .. Len(b)
      BY <1>1
    <3> QED
      BY <3>1, ElementOfSeq
  <2>4. 0 \in Byte
    BY Words_OK DEF Byte
  <2> QED
    BY <2>2, <2>3, <2>4, TwoBytes DEF WordAt
<1>3. Words(b) = [k \in 1 .. m |-> WordAt(b, k)]
  BY DEF Words
<1>4. Words(b) \in [1 .. m -> Word]
  BY <1>2, <1>3
<1>5. Words(b) \in Seq(Word) /\ Len(Words(b)) = m
  BY <1>1, <1>4, <1>3
<1> QED
  BY <1>1, <1>3, <1>5

\* compute_checksum returns a word; it is 0 for a total that is a multiple of
\* 2^16 - 1 other than 0.
LEMMA ChecksumOf ==
    ASSUME NEW b \in Seq(Byte)
    PROVE  LET w == Words(b)
               s == Sums(w)[Len(w)]
           IN /\ compute_checksum(b) = (WordBase - 1) - s
              /\ Represents(s, Totals(w)[Len(w)])
              /\ compute_checksum(b) \in Word
<1> DEFINE w == Words(b)
           s == Sums(w)[Len(w)]
<1>1. w \in Seq(Word) /\ Len(w) \in Nat
  BY WordsOf
<1>2. Represents(s, Totals(w)[Len(w)])
  BY <1>1, SumsRepresent
<1>3. compute_checksum(b) = (WordBase - 1) - s
  BY DEF compute_checksum
<1>4. s \in Word
  BY <1>2 DEF Represents
<1>5. (WordBase - 1) - s \in Word
  BY <1>4, Words_OK DEF Word
<1> QED
  BY <1>2, <1>3, <1>5

-----------------------------------------------------------------------------
(***************************************************************************)
(* What serialize_packet makes.                                            *)
(***************************************************************************)
LEMMA PacketTypes ==
    ASSUME NEW p \in Packets
    PROVE  /\ p.fields \in Word /\ p.payload \in Seq(Byte)
           /\ Len(p.payload) \in Nat /\ Len(p.payload) \in Word
           /\ p = [fields |-> p.fields, payload |-> p.payload]
<1>1. p.fields \in Word /\ p.payload \in BoundedSeq(Byte, MaxPayload)
  BY DEF Packets
<1>2. PICK m \in 0 .. MaxPayload : p.payload \in [1 .. m -> Byte]
  BY <1>1 DEF BoundedSeq, SeqOf
<1>3. m \in Nat /\ m <= MaxPayload /\ MaxPayload \in Nat /\ MaxPayload < WordBase
  BY ChecksumAssumption
<1>4. p.payload \in Seq(Byte) /\ Len(p.payload) = m
  BY <1>2, <1>3
<1>5. m \in Word
  BY <1>3, Words_OK DEF Word
<1>6. p = [fields |-> p.fields, payload |-> p.payload]
  BY DEF Packets
<1> QED
  BY <1>1, <1>3, <1>4, <1>5, <1>6

\* Where everything is in a datagram.
LEMMA LayoutOf ==
    ASSUME NEW p \in Packets, NEW c \in Word
    PROVE  LET b == Layout(p, c)
           IN /\ b \in Seq(Byte) /\ Len(b) = HeaderSize + Len(p.payload)
              /\ WordAt(b, 1) = p.fields
              /\ WordAt(b, 2) = c
              /\ WordAt(b, 3) = Len(p.payload)
              /\ SubSeq(b, HeaderSize + 1, Len(b)) = p.payload
              /\ \A d \in Word : \A i \in 1 .. Len(b) :
                     i \notin {3, 4} => Layout(p, d)[i] = b[i]
<1> DEFINE F == Bytes(p.fields)
           L == Bytes(Len(p.payload))
<1>1. /\ p.payload \in Seq(Byte) /\ Len(p.payload) \in Nat
      /\ F \in Seq(Byte) /\ Len(F) = 2 /\ F[1] * Base + F[2] = p.fields
      /\ L \in Seq(Byte) /\ Len(L) = 2 /\ L[1] * Base + L[2] = Len(p.payload)
  BY PacketTypes, BytesOfWord
<1> HIDE DEF F, L
<1>0. F \in Seq(Byte) /\ L \in Seq(Byte) /\ p.payload \in Seq(Byte)
  BY <1>1
<1>2. ASSUME NEW d \in Word
      PROVE  /\ Layout(p, d) \in Seq(Byte)
             /\ Len(Layout(p, d)) = 6 + Len(p.payload)
             /\ \A i \in 1 .. 6 + Len(p.payload) :
                    Layout(p, d)[i] = IF i <= 2 THEN F[i]
                                      ELSE IF i <= 4 THEN Bytes(d)[i - 2]
                                      ELSE IF i <= 6 THEN L[i - 4]
                                      ELSE p.payload[i - 6]
  <2> DEFINE D == Bytes(d)
             FD == F \o D
             FDL == FD \o L
  <2>1. D \in Seq(Byte) /\ Len(D) = 2
    BY BytesOfWord
  <2> HIDE DEF D
  <2>2. /\ FD \in Seq(Byte) /\ Len(FD) = 4
        /\ \A i \in 1 .. 4 : FD[i] = IF i <= 2 THEN F[i] ELSE D[i - 2]
    <3>1. /\ FD \in Seq(Byte) /\ Len(FD) = Len(F) + Len(D)
          /\ \A i \in 1 .. Len(F) + Len(D) :
                 FD[i] = IF i <= Len(F) THEN F[i] ELSE D[i - Len(F)]
      BY <1>0, <2>1, ConcatProperties
    <3> HIDE DEF FD
    <3> QED
      BY <1>1, <2>1, <3>1
  <2> HIDE DEF FD
  <2>3. /\ FDL \in Seq(Byte) /\ Len(FDL) = 6
        /\ \A i \in 1 .. 6 : FDL[i] = IF i <= 4 THEN FD[i] ELSE L[i - 4]
    <3>1. /\ FDL \in Seq(Byte) /\ Len(FDL) = Len(FD) + Len(L)
          /\ \A i \in 1 .. Len(FD) + Len(L) :
                 FDL[i] = IF i <= Len(FD) THEN FD[i] ELSE L[i - Len(FD)]
      BY <1>0, <2>2, ConcatProperties
    <3> HIDE DEF FDL
    <3> QED
      BY <1>1, <2>2, <3>1
  <2> HIDE DEF FDL
  <2>4. Layout(p, d) = FDL \o p.payload
    BY DEF Layout, FDL, FD, D, F, L
  <2>5. /\ Layout(p, d) \in Seq(Byte) /\ Len(Layout(p, d)) = 6 + Len(p.payload)
        /\ \A i \in 1 .. 6 + Len(p.payload) :
               Layout(p, d)[i] = IF i <= 6 THEN FDL[i] ELSE p.payload[i - 6]
    <3> DEFINE all == FDL \o p.payload
    <3>1. /\ all \in Seq(Byte) /\ Len(all) = Len(FDL) + Len(p.payload)
          /\ \A i \in 1 .. Len(FDL) + Len(p.payload) :
                 all[i] = IF i <= Len(FDL) THEN FDL[i] ELSE p.payload[i - Len(FDL)]
      BY <1>0, <2>3, ConcatProperties
    <3>2. Layout(p, d) = all
      BY <2>4
    <3> HIDE DEF all
    <3> QED
      BY <2>3, <3>1, <3>2
  <2>6. ASSUME NEW i \in 1 .. 6 + Len(p.payload)
        PROVE  Layout(p, d)[i] = IF i <= 2 THEN F[i]
                                 ELSE IF i <= 4 THEN D[i - 2]
                                 ELSE IF i <= 6 THEN L[i - 4]
                                 ELSE p.payload[i - 6]
    <3>1. /\ i <= 6 => i \in 1 .. 6
          /\ i <= 4 => i \in 1 .. 4 /\ i <= 6
          /\ i <= 2 => i <= 4
      BY <1>1
    <3>2. Layout(p, d)[i] = IF i <= 6 THEN FDL[i] ELSE p.payload[i - 6]
      BY <2>5
    <3>3. i <= 6 => FDL[i] = IF i <= 4 THEN FD[i] ELSE L[i - 4]
      BY <2>3, <3>1
    <3>4. i <= 4 => FD[i] = IF i <= 2 THEN F[i] ELSE D[i - 2]
      BY <2>2, <3>1
    <3> QED
      BY <3>1, <3>2, <3>3, <3>4
  <2> QED
    BY <2>5, <2>6 DEF D
<1> DEFINE b == Layout(p, c)
<1>3. b \in Seq(Byte) /\ Len(b) = HeaderSize + Len(p.payload)
  BY <1>2 DEF HeaderSize
<1>4. /\ b[1] = F[1] /\ b[2] = F[2]
      /\ b[3] = Bytes(c)[1] /\ b[4] = Bytes(c)[2]
      /\ b[5] = L[1] /\ b[6] = L[2]
      /\ \A i \in 1 .. Len(p.payload) : b[6 + i] = p.payload[i]
  <2>1. /\ 1 \in 1 .. 6 + Len(p.payload) /\ 2 \in 1 .. 6 + Len(p.payload)
        /\ 3 \in 1 .. 6 + Len(p.payload) /\ 4 \in 1 .. 6 + Len(p.payload)
        /\ 5 \in 1 .. 6 + Len(p.payload) /\ 6 \in 1 .. 6 + Len(p.payload)
    BY <1>1
  <2>2. ASSUME NEW i \in 1 .. Len(p.payload)
        PROVE  b[6 + i] = p.payload[i]
    <3>1. /\ 6 + i \in 1 .. 6 + Len(p.payload) /\ ~ (6 + i <= 2) /\ ~ (6 + i <= 4)
          /\ ~ (6 + i <= 6) /\ (6 + i) - 6 = i
      BY <1>1
    <3> QED
      BY <1>2, <3>1
  <2>3. b[1] = F[1] /\ b[2] = F[2]
    BY <1>2, <2>1
  <2>4. b[3] = Bytes(c)[1] /\ b[4] = Bytes(c)[2]
    BY <1>2, <2>1
  <2>5. b[5] = L[1] /\ b[6] = L[2]
    BY <1>2, <2>1
  <2> QED
    BY <2>2, <2>3, <2>4, <2>5
<1>5. WordAt(b, 1) = p.fields /\ WordAt(b, 2) = c /\ WordAt(b, 3) = Len(p.payload)
  <2>1. 2 * 1 <= Len(b) /\ 2 * 2 <= Len(b) /\ 2 * 3 <= Len(b)
    BY <1>1, <1>3 DEF HeaderSize
  <2>2. Bytes(c)[1] * Base + Bytes(c)[2] = c
    BY BytesOfWord
  <2>3. /\ WordAt(b, 1) = b[1] * Base + b[2]
        /\ WordAt(b, 2) = b[3] * Base + b[4]
        /\ WordAt(b, 3) = b[5] * Base + b[6]
    BY <2>1 DEF WordAt
  <2> QED
    BY <1>1, <1>4, <2>2, <2>3
<1>6. SubSeq(b, HeaderSize + 1, Len(b)) = p.payload
  <2> DEFINE t == SubSeq(b, HeaderSize + 1, Len(b))
  <2>1. /\ t \in Seq(Byte) /\ Len(t) = Len(p.payload)
        /\ \A i \in 1 .. Len(p.payload) : t[i] = b[6 + i]
    <3>1. HeaderSize + 1 \in 1 .. Len(b) + 1 /\ Len(b) \in Nat
      BY <1>1, <1>3 DEF HeaderSize
    <3>2. /\ t \in Seq(Byte)
          /\ Len(t) = IF HeaderSize + 1 <= Len(b) THEN Len(b) - (HeaderSize + 1) + 1 ELSE 0
          /\ \A i \in 1 .. Len(b) - (HeaderSize + 1) + 1 : t[i] = b[(HeaderSize + 1) + i - 1]
      BY <1>3, <3>1, SubSeqProperties
    <3>3. Len(t) = Len(p.payload)
      BY <1>1, <1>3, <3>2 DEF HeaderSize
    <3>4. ASSUME NEW i \in 1 .. Len(p.payload)
          PROVE  t[i] = b[6 + i]
      <4>1. i \in 1 .. Len(b) - (HeaderSize + 1) + 1 /\ (HeaderSize + 1) + i - 1 = 6 + i
        BY <1>1, <1>3 DEF HeaderSize
      <4> QED
        BY <3>2, <4>1
    <3> QED
      BY <3>2, <3>3, <3>4
  <2> HIDE DEF t
  <2>2. t = p.payload
    BY <1>1, <1>4, <2>1, SeqEqual
  <2> QED
    BY <2>2 DEF t
<1>7. ASSUME NEW d \in Word, NEW i \in 1 .. Len(b), i \notin {3, 4}
      PROVE  Layout(p, d)[i] = b[i]
  <2>1. i \in 1 .. 6 + Len(p.payload) /\ (i <= 2 \/ ~ (i <= 4))
    BY <1>1, <1>3, <1>7 DEF HeaderSize
  <2> QED
    BY <1>2, <2>1
<1> QED
  BY <1>3, <1>5, <1>6, <1>7

-----------------------------------------------------------------------------
(***************************************************************************)
(* serialize_packet and parse_packet.                                      *)
(***************************************************************************)

\* The number that the words of a datagram add up to.
Total(b) == Totals(Words(b))[Len(Words(b))]

\* Two datagrams that differ in one word differ in their total by as much.
LEMMA TotalChanged ==
    ASSUME NEW a \in Seq(Byte), NEW b \in Seq(Byte), Len(a) = Len(b),
           NEW j \in 1 .. Len(Words(a)),
           \A k \in 1 .. Len(Words(a)) : k # j => WordAt(a, k) = WordAt(b, k)
    PROVE  Total(b) = Total(a) + (WordAt(b, j) - WordAt(a, j))
<1>1. /\ Words(a) \in Seq(Word) /\ Words(b) \in Seq(Word) /\ Len(Words(a)) = Len(Words(b))
      /\ \A k \in 1 .. Len(Words(a)) : Words(a)[k] = WordAt(a, k) /\ Words(b)[k] = WordAt(b, k)
  BY WordsOf
<1> QED
  BY <1>1, OneWordChanged DEF Total

\* The bytes of a word are bytes of the datagram.
LEMMA BytesOfIndex ==
    ASSUME NEW len \in Nat, NEW k \in 1 .. (len + 1) \div 2
    PROVE  /\ 2 * k - 1 \in 1 .. len /\ 2 * k \in Nat
           /\ 2 * k <= len => 2 * k \in 1 .. len
OBVIOUS

\* A datagram with a header has a second word.
LEMMA HeaderWords ==
    ASSUME NEW len \in Nat, len >= HeaderSize
    PROVE  2 \in 1 .. (len + 1) \div 2
BY DEF HeaderSize

\* The total of what is sent is a multiple of 2^16 - 1 other than 0.
LEMMA SerializedTotal ==
    ASSUME NEW p \in Packets
    PROVE  /\ serialize_packet(p) \in Seq(Byte)
           /\ Len(serialize_packet(p)) = HeaderSize + Len(p.payload)
           /\ \E q \in Nat :
                  Total(serialize_packet(p)) = (WordBase - 1) + q * (WordBase - 1)
<1> DEFINE a == Layout(p, 0)
           c == compute_checksum(a)
           b == serialize_packet(p)
           M == WordBase - 1
<1>1. 0 \in Word
  BY Words_OK DEF Word
<1>2. a \in Seq(Byte) /\ Len(a) = HeaderSize + Len(p.payload) /\ WordAt(a, 2) = 0
  BY <1>1, LayoutOf
<1>3. PICK s : c = M - s /\ Represents(s, Total(a)) /\ c \in Word
  BY <1>2, ChecksumOf DEF Total
<1>4. b = Layout(p, c)
  BY DEF serialize_packet
<1>5. /\ b \in Seq(Byte) /\ Len(b) = HeaderSize + Len(p.payload) /\ WordAt(b, 2) = c
      /\ \A i \in 1 .. Len(b) : i \notin {3, 4} => a[i] = b[i]
  BY <1>1, <1>3, <1>4, LayoutOf
<1> HIDE DEF a, b, c
<1>6. Len(p.payload) \in Nat
  BY PacketTypes
<1>7. 2 \in 1 .. Len(Words(a)) /\ Len(Words(a)) = (Len(a) + 1) \div 2
  <2>1. Len(Words(a)) = (Len(a) + 1) \div 2
    BY <1>2, WordsOf
  <2>2. Len(a) \in Nat /\ Len(a) >= HeaderSize
    BY <1>2, <1>6 DEF HeaderSize
  <2> QED
    BY <2>1, <2>2, HeaderWords
<1>8. ASSUME NEW k \in 1 .. Len(Words(a)), k # 2
      PROVE  WordAt(a, k) = WordAt(b, k)
  <2>1. Len(a) = Len(b) /\ Len(b) \in Nat
    BY <1>2, <1>5, <1>6 DEF HeaderSize
  <2>2. k \in 1 .. (Len(b) + 1) \div 2
    BY <1>7, <2>1
  <2>3. /\ 2 * k - 1 \in 1 .. Len(b)
        /\ 2 * k <= Len(b) => 2 * k \in 1 .. Len(b)
    BY <2>1, <2>2, BytesOfIndex
  <2>4. 2 * k - 1 \notin {3, 4} /\ 2 * k \notin {3, 4}
    BY <1>8, <2>2
  <2> QED
    BY <1>5, <2>1, <2>3, <2>4 DEF WordAt
<1>9. Total(b) = Total(a) + (c - 0)
  BY <1>2, <1>5, <1>7, <1>8, TotalChanged
<1>10. PICK q \in Nat : Total(a) = s + q * M
  BY <1>3 DEF Represents
<1>11. s \in Nat /\ M \in Nat /\ q * M \in Nat
  BY <1>3, Words_OK DEF Represents, Word
<1> HIDE DEF M
<1>12. Total(b) = M + q * M
  BY <1>3, <1>9, <1>10, <1>11
<1> QED
  BY <1>5, <1>12 DEF b, M

LEMMA TotalRefuses ==
    ASSUME NEW b \in Seq(Byte),
           ~ (\E q \in Nat : Total(b) = (WordBase - 1) + q * (WordBase - 1))
    PROVE  compute_checksum(b) # 0
<1> DEFINE M == WordBase - 1
<1>1. PICK s : compute_checksum(b) = M - s /\ Represents(s, Total(b))
  BY ChecksumOf DEF Total
<1>2. PICK q \in Nat : Total(b) = s + q * M
  BY <1>1 DEF Represents
<1>3. s \in Nat /\ M \in Nat
  BY <1>1, Words_OK DEF Represents, Word
<1>4. s # M
  BY <1>2
<1> HIDE DEF M
<1> QED
  BY <1>1, <1>3, <1>4

\* What was serialized is parsed as it was.
LEMMA ParseSerialized ==
    ASSUME NEW p \in Packets
    PROVE  parse_packet(serialize_packet(p)) = Accepted(p)
<1> DEFINE b == serialize_packet(p)
           c == compute_checksum(Layout(p, 0))
           M == WordBase - 1
<1>1. 0 \in Word
  BY Words_OK DEF Word
<1>2. Layout(p, 0) \in Seq(Byte)
  BY <1>1, LayoutOf
<1>3. c \in Word /\ b = Layout(p, c)
  BY <1>2, ChecksumOf DEF serialize_packet
<1>4. /\ b \in Seq(Byte) /\ Len(b) = HeaderSize + Len(p.payload)
      /\ WordAt(b, 1) = p.fields /\ WordAt(b, 3) = Len(p.payload)
      /\ SubSeq(b, HeaderSize + 1, Len(b)) = p.payload
  BY <1>3, LayoutOf
<1>5. compute_checksum(b) = 0
  <2>1. PICK q \in Nat : Total(b) = M + q * M
    BY SerializedTotal
  <2>2. PICK s : compute_checksum(b) = M - s /\ Represents(s, Total(b))
    BY <1>4, ChecksumOf DEF Total
  <2>3. s = M
    BY <2>1, <2>2, FullSum
  <2>4. M \in Nat
    BY Words_OK
  <2> HIDE DEF M
  <2> QED
    BY <2>2, <2>3, <2>4
<1>6. /\ Len(p.payload) \in Nat
      /\ p = [fields |-> p.fields, payload |-> p.payload]
  BY PacketTypes
<1> HIDE DEF b
<1>7. ~ (Len(b) < HeaderSize) /\ WordAt(b, 3) + HeaderSize = Len(b)
  BY <1>4, <1>6 DEF HeaderSize
<1>8. parse_packet(b) = Accepted([fields |-> WordAt(b, 1),
                                  payload |-> SubSeq(b, HeaderSize + 1, Len(b))])
  BY <1>5, <1>7 DEF parse_packet
<1> QED
  BY <1>4, <1>6, <1>8 DEF b

\* Another high byte of a word changes it by at least 2^8, and by less than
\* 2^16 - 1.
LEMMA HighByteChanged ==
    ASSUME NEW u \in 0 .. Base - 1, NEW x \in 0 .. Base - 1, u # x
    PROVE  LET d == x * Base - u * Base
           IN d \in Int /\ d # 0 /\ d < WordBase - 1 /\ -d < WordBase - 1
<1>1. Base \in Nat \ {0, 1} /\ WordBase = Base * Base
  BY Words_OK DEF WordBase
<1>2. x \in Int /\ u \in Int /\ Base \in Int /\ Base \in Nat \ {0}
  BY <1>1
<1>3. x < u => x * Base + Base <= u * Base
  BY <1>2, Multiples
<1>4. u < x => u * Base + Base <= x * Base
  BY <1>2, Multiples
<1>5. x * Base + Base <= WordBase /\ u * Base + Base <= WordBase
  <2>1. x < Base /\ u < Base
    BY <1>1
  <2>2. x * Base + Base <= Base * Base
    BY <1>2, <2>1, Multiples
  <2>3. u * Base + Base <= Base * Base
    BY <1>2, <2>1, Multiples
  <2> QED
    BY <1>1, <2>2, <2>3
<1>6. x * Base \in Nat /\ u * Base \in Nat
  BY <1>1
<1> DEFINE X == x * Base
           U == u * Base
<1>7. /\ X \in Nat /\ U \in Nat
      /\ x < u => X + Base <= U
      /\ u < x => U + Base <= X
      /\ X + Base <= WordBase /\ U + Base <= WordBase
  BY <1>3, <1>4, <1>5, <1>6
<1>8. x < u \/ u < x
  OBVIOUS
<1>9. WordBase \in Nat
  BY Words_OK
<1> SUFFICES X - U \in Int /\ X - U # 0 /\ X - U < WordBase - 1 /\ -(X - U) < WordBase - 1
  OBVIOUS
<1> HIDE DEF X, U
<1> QED
  BY <1>1, <1>7, <1>8, <1>9

\* A byte that is not what it was changes the total by less than 2^16 - 1.
LEMMA ByteChangesTotal ==
    ASSUME NEW a \in Seq(Byte), NEW i \in 1 .. Len(a), NEW x \in Byte, x # a[i]
    PROVE  LET b == [a EXCEPT ![i] = x]
           IN /\ b \in Seq(Byte) /\ Len(b) = Len(a)
              /\ \E d \in Int : /\ Total(b) = Total(a) + d /\ d # 0
                                /\ d < WordBase - 1 /\ -d < WordBase - 1
<1> DEFINE b == [a EXCEPT ![i] = x]
           j == (i + 1) \div 2
<1>1. /\ b \in Seq(Byte) /\ Len(b) = Len(a) /\ b[i] = x
      /\ \A k \in 1 .. Len(a) : k # i => b[k] = a[k]
  BY ExceptSeq
<1> HIDE DEF b
<1>2. Len(a) \in Nat /\ i \in Nat /\ 1 <= i /\ i <= Len(a)
  OBVIOUS
<1>3. Len(Words(a)) = (Len(a) + 1) \div 2
  BY WordsOf
<1>4. /\ j \in 1 .. Len(Words(a)) /\ (i = 2 * j - 1 \/ i = 2 * j)
  BY <1>2, <1>3
<1> HIDE DEF j
<1>5. ASSUME NEW k \in 1 .. Len(Words(a)), k # j
      PROVE  WordAt(a, k) = WordAt(b, k)
  <2>1. /\ 2 * k - 1 \in 1 .. Len(a) /\ 2 * k - 1 # i
        /\ 2 * k <= Len(a) => 2 * k \in 1 .. Len(a) /\ 2 * k # i
    BY <1>2, <1>3, <1>4, <1>5
  <2> QED
    BY <1>1, <2>1 DEF WordAt
<1>6. Total(b) = Total(a) + (WordAt(b, j) - WordAt(a, j))
  BY <1>1, <1>4, <1>5, TotalChanged
<1>7. /\ x \in 0 .. Base - 1 /\ a[i] \in 0 .. Base - 1 /\ Base \in Nat
      /\ x - a[i] # 0 /\ x - a[i] \in Int
  BY Words_OK, ElementOfSeq DEF Byte
<1>8. WordBase \in Nat /\ Base <= WordBase - Base /\ WordBase - Base < WordBase - 1
  <2>1. 1 * Base + Base <= Base * Base
    BY Words_OK, Multiples
  <2> QED
    BY <2>1, Words_OK DEF WordBase
<1> DEFINE d == WordAt(b, j) - WordAt(a, j)
\* The low byte of the word.
<1>9. CASE i = 2 * j
  <2>1. /\ 2 * j - 1 \in 1 .. Len(a) /\ 2 * j - 1 # i /\ 2 * j <= Len(a)
    BY <1>2, <1>4, <1>9
  <2>2. /\ WordAt(b, j) = a[2 * j - 1] * Base + x
        /\ WordAt(a, j) = a[2 * j - 1] * Base + a[i]
    BY <1>1, <1>9, <2>1 DEF WordAt
  <2>3. a[2 * j - 1] * Base \in Nat
    BY <2>1, ElementOfSeq, TwoBytes, <1>7
  <2>4. d = x - a[i]
    BY <1>7, <2>2, <2>3
  <2>5. d \in Int /\ d # 0 /\ d < WordBase - 1 /\ -d < WordBase - 1
    BY <1>7, <1>8, <2>4
  <2> QED
    BY <1>1, <1>6, <2>5 DEF b
\* The high byte of the word, or an odd byte at the end.
<1>10. CASE i = 2 * j - 1
  <2>1. 2 * j - 1 \in 1 .. Len(a) /\ 2 * j # i /\ (2 * j <= Len(a) => 2 * j \in 1 .. Len(a))
    BY <1>2, <1>4, <1>10
  <2> DEFINE y == IF 2 * j <= Len(a) THEN a[2 * j] ELSE 0
  <2>2. WordAt(b, j) = x * Base + y /\ WordAt(a, j) = a[i] * Base + y
    BY <1>1, <1>10, <2>1 DEF WordAt
  <2>3. y \in Nat
    <3>1. 2 * j <= Len(a) => a[2 * j] \in Byte
      BY <2>1, ElementOfSeq
    <3>2. Byte \subseteq Nat
      BY Words_OK DEF Byte
    <3> QED
      BY <3>1, <3>2
  <2> HIDE DEF y
  <2>4. x * Base \in Nat /\ a[i] * Base \in Nat
    BY <1>7
  <2>5. d = x * Base - a[i] * Base
    BY <2>2, <2>3, <2>4
  <2>6. a[i] \in 0 .. Base - 1 /\ x \in 0 .. Base - 1 /\ a[i] # x
    BY <1>7
  <2>7. LET e == x * Base - a[i] * Base
        IN e \in Int /\ e # 0 /\ e < WordBase - 1 /\ -e < WordBase - 1
    BY <2>6, HighByteChanged
  <2>8. d \in Int /\ d # 0 /\ d < WordBase - 1 /\ -d < WordBase - 1
    BY <2>5, <2>7
  <2> QED
    BY <1>1, <1>6, <2>8 DEF b
<1> QED
  BY <1>4, <1>9, <1>10

\* A datagram with one damaged byte is refused.
LEMMA ParseDamaged ==
    ASSUME NEW p \in Packets, NEW i \in 1 .. Len(serialize_packet(p)), NEW x \in Byte,
           x # serialize_packet(p)[i]
    PROVE  parse_packet([serialize_packet(p) EXCEPT ![i] = x]) = Refused
<1> DEFINE a == serialize_packet(p)
           b == [a EXCEPT ![i] = x]
           M == WordBase - 1
<1>1. a \in Seq(Byte)
  BY SerializedTotal
<1>2. PICK q \in Nat : Total(a) = M + q * M
  BY SerializedTotal
<1>3. b \in Seq(Byte)
  BY <1>1, ByteChangesTotal
<1>4. PICK d \in Int : /\ Total(b) = Total(a) + d /\ d # 0
                       /\ d < M /\ -d < M
  BY <1>1, ByteChangesTotal
<1>5. M \in Nat \ {0}
  BY Words_OK
<1> HIDE DEF M
<1>6. ASSUME NEW r \in Nat, Total(b) = M + r * M
      PROVE  FALSE
  <2>1. q * M \in Nat /\ r * M \in Nat
    BY <1>5
  <2>2. r * M = q * M + d
    <3>1. M + r * M = (M + q * M) + d
      BY <1>2, <1>4, <1>6
    <3>2. d \in Int /\ M \in Int
      BY <1>5
    <3> QED
      BY <2>1, <3>1, <3>2
  <2>3. q < r => q * M + M <= r * M
    BY <1>5, Multiples
  <2>4. r < q => r * M + M <= q * M
    BY <1>5, Multiples
  <2>5. q = r
    BY <1>4, <1>5, <2>1, <2>2, <2>3, <2>4
  <2> QED
    BY <1>4, <2>1, <2>2, <2>5
<1>7. compute_checksum(b) # 0
  BY <1>3, <1>6, TotalRefuses DEF M
<1> QED
  BY <1>7 DEF parse_packet

\* A datagram that begins as it should but has another length is refused.
LEMMA ParseResized ==
    ASSUME NEW p \in Packets, NEW b, Len(b) \in Nat,
           Len(b) # Len(serialize_packet(p)),
           \A i \in 1 .. HeaderSize : Len(b) >= HeaderSize => b[i] = serialize_packet(p)[i]
    PROVE  parse_packet(b) = Refused
<1> DEFINE a == serialize_packet(p)
<1>1. Len(a) = HeaderSize + Len(p.payload) /\ Len(p.payload) \in Nat
  BY SerializedTotal, PacketTypes
<1>2. WordAt(a, 3) = Len(p.payload)
  <2>1. 0 \in Word
    BY Words_OK DEF Word
  <2>2. compute_checksum(Layout(p, 0)) \in Word
    BY <2>1, LayoutOf, ChecksumOf
  <2> QED
    BY <2>2, LayoutOf DEF serialize_packet
<1> HIDE DEF a
<1>3. CASE Len(b) < HeaderSize
  BY <1>3 DEF parse_packet
<1>4. CASE ~ (Len(b) < HeaderSize)
  <2>1. b[5] = a[5] /\ b[6] = a[6]
    BY <1>4 DEF HeaderSize, a
  <2>2. 2 * 3 <= Len(b) /\ 2 * 3 <= Len(a)
    BY <1>1, <1>4 DEF HeaderSize
  <2>3. WordAt(b, 3) = Len(p.payload)
    BY <1>2, <2>1, <2>2 DEF WordAt
  <2>4. WordAt(b, 3) + HeaderSize # Len(b)
    BY <1>1, <2>3 DEF HeaderSize, a
  <2> QED
    BY <2>4 DEF parse_packet
<1> QED
  BY <1>3, <1>4

-----------------------------------------------------------------------------
(***************************************************************************)
(* The invariant: what became of the one packet that is sent.              *)
(***************************************************************************)

\* One byte of what was sent is another.
Damaged(sent) ==
    \E i \in 1 .. Len(sent), x \in Byte :
        x # sent[i] /\ wire = [sent EXCEPT ![i] = x]

\* There are fewer bytes or more, and the header, if all of it is there, is as
\* it was.
Resized(sent) ==
    /\ wire \in Seq(Byte) /\ Len(wire) # Len(sent)
    /\ Len(wire) >= HeaderSize => \A i \in 1 .. HeaderSize : wire[i] = sent[i]

ChecksumInv ==
    /\ packet \in Packets
    /\ \/ fault = "none" /\ wire = serialize_packet(packet)
       \/ fault = "byte" /\ Damaged(serialize_packet(packet))
       \/ fault = "resized" /\ Resized(serialize_packet(packet))
    /\ result = [status |-> "none"] \/ result = parse_packet(wire)

LEMMA ParseHasStatus ==
    ASSUME NEW b
    PROVE  parse_packet(b).status # "none"
BY DEF parse_packet, Refused, Accepted

LEMMA DamageByte_Inv ==
    ASSUME ChecksumInv, DamageByte
    PROVE  ChecksumInv'
<1>1. fault = "none" /\ result.status = "none" /\ UNCHANGED <<packet, result>>
  BY DEF DamageByte
<1>2. wire = serialize_packet(packet) /\ fault' = "byte"
  BY <1>1 DEF ChecksumInv, DamageByte
<1>3. wire \in Seq(Byte)
  BY <1>2, SerializedTotal DEF ChecksumInv
<1>4. DOMAIN wire = 1 .. Len(wire)
  BY <1>3
<1>5. PICK i \in 1 .. Len(wire), x \in Byte :
          x # wire[i] /\ wire' = [wire EXCEPT ![i] = x]
  BY <1>4 DEF DamageByte
<1>6. Damaged(serialize_packet(packet))'
  BY <1>1, <1>2, <1>5 DEF Damaged
<1>7. result' = [status |-> "none"]
  BY <1>1, ParseHasStatus DEF ChecksumInv
<1> QED
  BY <1>1, <1>2, <1>6, <1>7 DEF ChecksumInv

LEMMA Resize_Inv ==
    ASSUME ChecksumInv, Resize
    PROVE  ChecksumInv'
<1> DEFINE a == serialize_packet(packet)
<1>1. fault = "none" /\ result.status = "none" /\ UNCHANGED <<packet, result>>
  BY DEF Resize
<1>2. wire = a /\ fault' = "resized"
  BY <1>1 DEF ChecksumInv, Resize
<1>3. /\ wire \in Seq(Byte) /\ Len(wire) \in Nat /\ Len(wire) >= HeaderSize
  <2>1. wire \in Seq(Byte) /\ Len(wire) = HeaderSize + Len(packet.payload)
    BY <1>2, SerializedTotal DEF ChecksumInv
  <2>2. Len(packet.payload) \in Nat
    BY PacketTypes DEF ChecksumInv
  <2> QED
    BY <2>1, <2>2 DEF HeaderSize
<1>4. /\ wire' \in Seq(Byte) /\ Len(wire') # Len(wire)
      /\ Len(wire') >= HeaderSize => \A i \in 1 .. HeaderSize : wire'[i] = wire[i]
  <2>1. CASE \E n \in 0 .. Len(wire) - 1 : wire' = SubSeq(wire, 1, n)
    <3>1. PICK n \in 0 .. Len(wire) - 1 : wire' = SubSeq(wire, 1, n)
      BY <2>1
    <3>2. /\ SubSeq(wire, 1, n) \in Seq(Byte) /\ Len(SubSeq(wire, 1, n)) = n
          /\ \A i \in 1 .. n : SubSeq(wire, 1, n)[i] = wire[i]
      BY <1>3
    <3>3. n # Len(wire) /\ n \in Nat
      BY <1>3
    <3> QED
      BY <3>1, <3>2, <3>3 DEF HeaderSize
  <2>2. CASE \E tail \in BoundedSeq(Byte, 2) \ {<< >>} : wire' = wire \o tail
    <3>1. PICK tail \in BoundedSeq(Byte, 2) \ {<< >>} : wire' = wire \o tail
      BY <2>2
    <3>2. tail \in Seq(Byte) /\ tail # << >>
      <4>1. PICK m \in 0 .. 2 : tail \in [1 .. m -> Byte]
        BY <3>1 DEF BoundedSeq, SeqOf
      <4>2. m \in Nat
        OBVIOUS
      <4> QED
        BY <3>1, <4>1, <4>2
    <3>3. Len(tail) \in Nat /\ Len(tail) # 0
      BY <3>2, EmptySeq
    <3>4. /\ wire \o tail \in Seq(Byte)
          /\ Len(wire \o tail) = Len(wire) + Len(tail)
          /\ \A i \in 1 .. Len(wire) : (wire \o tail)[i] = wire[i]
      BY <1>3, <3>2
    <3>5. Len(wire) + Len(tail) # Len(wire)
      BY <1>3, <3>3
    <3>6. \A i \in 1 .. HeaderSize : i \in 1 .. Len(wire)
      BY <1>3 DEF HeaderSize
    <3> QED
      BY <3>1, <3>4, <3>5, <3>6
  <2> QED
    BY <2>1, <2>2 DEF Resize
<1>5. Resized(serialize_packet(packet))'
  BY <1>1, <1>2, <1>4 DEF Resized
<1>6. result' = [status |-> "none"]
  BY <1>1, ParseHasStatus DEF ChecksumInv
<1> QED
  BY <1>1, <1>2, <1>5, <1>6 DEF ChecksumInv

LEMMA ChecksumInv_Next ==
    ASSUME ChecksumInv, [ChecksumNext]_packet_vars
    PROVE  ChecksumInv'
<1>1. CASE Parse
  BY <1>1 DEF Parse, ChecksumInv, Damaged, Resized
<1>2. CASE UNCHANGED packet_vars
  BY <1>2 DEF packet_vars, ChecksumInv, Damaged, Resized
<1> QED
  BY <1>1, <1>2, DamageByte_Inv, Resize_Inv DEF ChecksumNext

\* Of a packet that is sent, damaged or not and parsed or not, the invariant holds.
THEOREM ChecksumInvariant == ChecksumSpec => []ChecksumInv
<1>1. ChecksumInit => ChecksumInv
  BY DEF ChecksumInit, ChecksumInv
<1> QED
  BY <1>1, ChecksumInv_Next, PTL DEF ChecksumSpec

-----------------------------------------------------------------------------
(***************************************************************************)
(* The properties.                                                         *)
(***************************************************************************)
LEMMA WireIsBytes ==
    ASSUME ChecksumInv
    PROVE  wire \in Seq(Byte)
<1> DEFINE a == serialize_packet(packet)
<1>1. a \in Seq(Byte)
  BY SerializedTotal DEF ChecksumInv
<1>2. CASE fault = "byte"
  <2>1. PICK i \in 1 .. Len(a), x \in Byte : x # a[i] /\ wire = [a EXCEPT ![i] = x]
    BY <1>2 DEF ChecksumInv, Damaged
  <2> QED
    BY <1>1, <2>1, ByteChangesTotal
<1> QED
  BY <1>1, <1>2 DEF ChecksumInv, Resized

\* For a datagram of any length, even or odd, compute_checksum is the 16-bit ones'
\* complement of the ones' complement sum: taking back one carry after each word
\* is enough, and the cast of the inverted sum loses nothing.
THEOREM OnesComplementChecksum == ChecksumSpec => []ChecksumIsOnesComplement
<1>1. ASSUME ChecksumInv
      PROVE  ChecksumIsOnesComplement
  <2> DEFINE w == Words(wire)
             s == Sums(w)[Len(w)]
             t == Totals(w)[Len(w)]
  <2>1. compute_checksum(wire) = (WordBase - 1) - s /\ Represents(s, t)
    BY <1>1, WireIsBytes, ChecksumOf
  <2>2. s = OnesComplement(t)
    BY <2>1, RepresentsOnesComplement
  <2> QED
    BY <2>1, <2>2 DEF ChecksumIsOnesComplement, OnesComplementSum
<1> QED
  BY <1>1, ChecksumInvariant, PTL

\* What serialize_packet writes, parse_packet accepts and reads as it was, for any
\* words in the header and any payload.
THEOREM ParsesWhatWasSent == ChecksumSpec => []RoundTrip
<1>1. ASSUME ChecksumInv
      PROVE  RoundTrip
  <2>1. fault = "none" /\ result.status # "none" => result = parse_packet(wire)
    BY <1>1 DEF ChecksumInv
  <2>2. fault = "none" => wire = serialize_packet(packet)
    BY <1>1 DEF ChecksumInv
  <2>3. parse_packet(serialize_packet(packet)) = Accepted(packet)
    BY <1>1, ParseSerialized DEF ChecksumInv
  <2> QED
    BY <2>1, <2>2, <2>3 DEF RoundTrip
<1> QED
  BY <1>1, ChecksumInvariant, PTL

\* parse_packet accepts no datagram of which one byte is damaged, wherever it is
\* and whatever it became.
THEOREM RefusesDamage == ChecksumSpec => []DamageRefused
<1>1. ASSUME ChecksumInv
      PROVE  DamageRefused
  <2> DEFINE a == serialize_packet(packet)
  <2>1. SUFFICES ASSUME fault = "byte"
                 PROVE  result.status # "accepted"
    BY DEF DamageRefused
  <2>2. PICK i \in 1 .. Len(a), x \in Byte : x # a[i] /\ wire = [a EXCEPT ![i] = x]
    BY <1>1, <2>1 DEF ChecksumInv, Damaged
  <2>3. parse_packet(wire) = Refused
    BY <1>1, <2>2, ParseDamaged DEF ChecksumInv
  <2> QED
    BY <1>1, <2>3 DEF ChecksumInv, Refused
<1> QED
  BY <1>1, ChecksumInvariant, PTL

\* parse_packet accepts no datagram that lost its end or carries bytes beyond it,
\* also when the checksum stays right.
THEOREM RefusesResizing == ChecksumSpec => []ResizeRefused
<1>1. ASSUME ChecksumInv
      PROVE  ResizeRefused
  <2>1. SUFFICES ASSUME fault = "resized"
                 PROVE  result.status # "accepted"
    BY DEF ResizeRefused
  <2>2. Resized(serialize_packet(packet))
    BY <1>1, <2>1 DEF ChecksumInv
  <2>3. Len(wire) \in Nat
    BY <2>2 DEF Resized
  <2>4. parse_packet(wire) = Refused
    BY <1>1, <2>2, <2>3, ParseResized DEF ChecksumInv, Resized
  <2> QED
    BY <1>1, <2>4 DEF ChecksumInv, Refused
<1> QED
  BY <1>1, ChecksumInvariant, PTL

=============================================================================
