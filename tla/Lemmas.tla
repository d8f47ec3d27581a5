-------------------------------- MODULE Lemmas --------------------------------
(***************************************************************************)
(* Facts the proofs of this project share: about natural numbers, and      *)
(* about the sequence operators the models use for the library's lists and *)
(* trees, what insertion and removal do to the elements, to their order,   *)
(* and to a queue in which nothing occurs twice.                           *)
(***************************************************************************)
EXTENDS Integers, SequencesExt, SequenceTheorems, FiniteSetTheorems,
        WellFoundedInduction, TLAPS

-----------------------------------------------------------------------------
(* Numbers: a least element, induction over a set, division with remainder. *)

NatLess == {ss \in Nat \X Nat : ss[1] < ss[2]}

\* The order of the naturals is well founded (the library states it of <).
LEMMA NatLessWF == IsWellFoundedOn(NatLess, Nat)
  <1>1. NatLess = OpToRel(<, Nat)
    BY Zenon DEF OpToRel, NatLess
  <1> QED BY <1>1, NatLessThanWellFounded

\* A nonempty set of naturals has a least element.
LEMMA LeastElement ==
    ASSUME NEW S, S \subseteq Nat, S # {}
    PROVE  \E x \in S : \A y \in S : x <= y
  <1>1. PICK x \in S : \A y \in S : ~(<<y, x>> \in NatLess)
    BY NatLessWF, WFMin
  <1>2. ASSUME NEW y \in S PROVE x <= y
    <2>1. x \in Nat /\ y \in Nat
      OBVIOUS
    <2>2. ~(y < x)
      BY <1>1, <2>1 DEF NatLess
    <2> QED BY <2>1, <2>2
  <1> QED BY <1>2

\* Induction from lo to hi, for a property given as the set that satisfies it.
LEMMA IntervalInduction ==
    ASSUME NEW lo \in Nat, NEW hi \in Nat, NEW S,
           lo \in S,
           \A i \in lo..(hi - 1) : i \in S => i + 1 \in S
    PROVE  \A i \in lo..hi : i \in S
  <1> DEFINE Bad == {i \in lo..hi : i \notin S}
  <1> SUFFICES ASSUME Bad # {} PROVE FALSE
    OBVIOUS
  <1>1. Bad \subseteq Nat
    OBVIOUS
  <1>2. PICK x \in Bad : \A y \in Bad : x <= y
    BY <1>1, LeastElement
  <1>3. x # lo /\ x \in lo..hi /\ x \notin S
    OBVIOUS
  <1>4. x - 1 \in lo..(hi - 1) /\ x - 1 \notin Bad
    BY <1>2, <1>3
  <1> QED BY <1>3, <1>4

LEMMA MulMono ==
    ASSUME NEW p \in Nat, NEW q \in Nat, NEW s \in Nat, p < q
    PROVE  s * p + s <= s * q
  <1>1. PICK d \in Nat : q = p + 1 + d
    <2>1. q - p - 1 \in Nat /\ q = p + 1 + (q - p - 1)
      OBVIOUS
    <2> QED BY <2>1
  <1>2. s * q = s * p + s + s * d
    BY <1>1
  <1>3. s * d \in Nat /\ s * p \in Nat
    OBVIOUS
  <1> QED BY <1>2, <1>3

LEMMA DivMod ==
    ASSUME NEW n \in Nat, NEW s \in Nat \ {0}
    PROVE  /\ n \div s \in Nat
           /\ n % s \in 0..(s - 1)
           /\ n = s * (n \div s) + (n % s)
  OBVIOUS

\* The quotient and the remainder are the only ones.
LEMMA DivUnique ==
    ASSUME NEW q \in Nat, NEW s \in Nat \ {0}, NEW r \in 0..(s - 1)
    PROVE  /\ (s * q + r) \div s = q
           /\ (s * q + r) % s = r
  <1> DEFINE n == s * q + r  p == n \div s  t == n % s
  <1>1. s * q \in Nat /\ n \in Nat
    <2>1. s * q \in Nat
      OBVIOUS
    <2> QED BY <2>1
  <1>2. p \in Nat /\ t \in 0..(s - 1) /\ n = s * p + t
    BY <1>1, DivMod
  <1> HIDE DEF p, t
  <1>3. p = q
    <2>1. CASE p < q
      <3>1. s * p + s <= s * q /\ s * p \in Nat
        BY <2>1, <1>2, MulMono
      <3> QED BY <1>1, <1>2, <3>1
    <2>2. CASE p > q
      <3>1. s * q + s <= s * p /\ s * p \in Nat
        BY <2>2, <1>2, MulMono
      <3> QED BY <1>1, <1>2, <3>1
    <2> QED BY <2>1, <2>2, <1>2
  <1>4. t = r
    BY <1>1, <1>2, <1>3
  <1> QED BY <1>3, <1>4 DEF p, t

\* A multiple of s is below s * d only if the next multiple is at most s * d.
LEMMA NextMultiple ==
    ASSUME NEW n \in Nat, NEW s \in Nat \ {0}, NEW d \in Nat,
           n % s = 0, n < s * d
    PROVE  n + s <= s * d
  <1> DEFINE q == n \div s
  <1>1. q \in Nat /\ n = s * q
    BY DivMod
  <1> HIDE DEF q
  <1>2. s * d \in Nat /\ s * q \in Nat
    BY <1>1
  <1>3. q < d
    <2>1. CASE d < q
      <3>1. s * d + s <= s * q
        BY <2>1, <1>1, MulMono
      <3> QED BY <3>1, <1>1, <1>2
    <2>2. CASE d = q
      BY <2>2, <1>1, <1>2
    <2> QED BY <2>1, <2>2, <1>1
  <1> QED BY <1>1, <1>3, MulMono

LEMMA MultipleRem ==
    ASSUME NEW q \in Nat, NEW s \in Nat \ {0}
    PROVE  (s * q) % s = 0 /\ (s * q) \div s = q
  <1>1. 0 \in 0..(s - 1) /\ s * q \in Nat
    OBVIOUS
  <1>2. (s * q + 0) % s = 0 /\ (s * q + 0) \div s = q
    BY <1>1, DivUnique
  <1>3. s * q + 0 = s * q
    BY <1>1
  <1> QED BY <1>2, <1>3

LEMMA IsMultiple ==
    ASSUME NEW n \in Nat, NEW t \in Nat \ {0}, n % t = 0
    PROVE  \E q \in Nat : n = t * q
  <1> DEFINE q == n \div t
  <1>1. q \in Nat /\ n = t * q
    BY DivMod
  <1> QED BY <1>1

\* A multiple of t is a multiple of every s that divides t.
LEMMA MultipleDown ==
    ASSUME NEW n \in Nat, NEW s \in Nat \ {0}, NEW t \in Nat \ {0},
           NEW d \in Nat, t = s * d, n % t = 0
    PROVE  n % s = 0
  <1>1. PICK q \in Nat : n = t * q
    BY IsMultiple
  <1>2. n = s * (d * q) /\ d * q \in Nat
    <2>1. n = (s * d) * q
      BY <1>1
    <2>2. (s * d) * q = s * (d * q)
      OBVIOUS
    <2> QED BY <2>1, <2>2
  <1> QED BY <1>2, MultipleRem

-----------------------------------------------------------------------------
(* Sequences. *)

\* The elements of s have ascending keys.
Ascending(s, key) ==
    \A i, j \in DOMAIN s : i < j => key[s[i]] <= key[s[j]]

\* The elements are those at the positions 1 to Len.
LEMMA SetOfSeq ==
    ASSUME NEW S, NEW s \in Seq(S)
    PROVE  /\ ToSet(s) \subseteq S
           /\ \A x : x \in ToSet(s) <=> \E i \in 1..Len(s) : s[i] = x
  BY LenProperties, ElementOfSeq DEF ToSet

LEMMA SetOfEmpty == ToSet(<<>>) = {} /\ IsInjective(<<>>)
  BY DEF ToSet, IsInjective

\* InsertAt shifts the elements from i on by one.
LEMMA InsertAtProps ==
    ASSUME NEW S, NEW s \in Seq(S), NEW e \in S, NEW i \in 1..(Len(s) + 1)
    PROVE  /\ InsertAt(s, i, e) \in Seq(S)
           /\ Len(InsertAt(s, i, e)) = Len(s) + 1
           /\ \A j \in 1..(Len(s) + 1) :
                 InsertAt(s, i, e)[j] =
                    IF j < i THEN s[j] ELSE IF j = i THEN e ELSE s[j - 1]
  <1> DEFINE a == SubSeq(s, 1, i - 1)
             b == SubSeq(s, i, Len(s))
             n == Len(s)
             ae == a \o <<e>>
             r == ae \o b
  <1>0. n \in Nat /\ i \in Nat /\ i >= 1 /\ i <= n + 1
    BY LenProperties
  <1>1. /\ a \in Seq(S) /\ Len(a) = i - 1
        /\ \A j \in 1..(i - 1) : a[j] = s[j]
    <2>1. \A j \in 1..(i - 1) : s[j] \in S
      BY <1>0, ElementOfSeq
    <2>2. /\ a \in Seq(S)
          /\ Len(a) = IF 1 <= i - 1 THEN (i - 1) - 1 + 1 ELSE 0
          /\ \A j \in 1..((i - 1) - 1 + 1) : a[j] = s[1 + j - 1]
      BY <1>0, <2>1, SubSeqProperties
    <2> HIDE DEF a
    <2> QED BY <1>0, <2>2
  <1>2. /\ b \in Seq(S) /\ Len(b) = n + 1 - i
        /\ \A j \in 1..(n + 1 - i) : b[j] = s[i + j - 1]
    <2>1. \A j \in i..n : s[j] \in S
      BY <1>0, ElementOfSeq
    <2>2. /\ b \in Seq(S)
          /\ Len(b) = IF i <= n THEN n - i + 1 ELSE 0
          /\ \A j \in 1..(n - i + 1) : b[j] = s[i + j - 1]
      BY <1>0, <2>1, SubSeqProperties
    <2> HIDE DEF b
    <2> QED BY <1>0, <2>2
  <1>3. /\ <<e>> \in Seq(S) /\ Len(<<e>>) = 1 /\ <<e>>[1] = e
    OBVIOUS
  <1> HIDE DEF a, b, n
  <1>4. /\ ae \in Seq(S) /\ Len(ae) = i
        /\ \A j \in 1..i : ae[j] = IF j <= i - 1 THEN a[j] ELSE <<e>>[j - (i - 1)]
    <2>1. /\ ae \in Seq(S) /\ Len(ae) = Len(a) + Len(<<e>>)
          /\ \A j \in 1..(Len(a) + Len(<<e>>)) :
                ae[j] = IF j <= Len(a) THEN a[j] ELSE <<e>>[j - Len(a)]
      BY <1>1, <1>3, ConcatProperties
    <2> HIDE DEF ae
    <2>2. Len(a) + Len(<<e>>) = i
      BY <1>0, <1>1, <1>3
    <2> QED BY <2>1, <2>2, <1>1
  <1>5. \A j \in 1..i : ae[j] = IF j < i THEN s[j] ELSE e
    <2> SUFFICES ASSUME NEW j \in 1..i PROVE ae[j] = IF j < i THEN s[j] ELSE e
      OBVIOUS
    <2>1. CASE j < i
      BY <2>1, <1>0, <1>1, <1>4
    <2>2. CASE j = i
      <3>1. j - (i - 1) = 1 /\ ~(j <= i - 1)
        BY <2>2, <1>0
      <3> QED BY <3>1, <2>2, <1>3, <1>4
    <2>3. j < i \/ j = i
      BY <1>0
    <2> QED BY <2>1, <2>2, <2>3
  <1> HIDE DEF ae
  <1>6. /\ r \in Seq(S) /\ Len(r) = n + 1
        /\ \A j \in 1..(n + 1) : r[j] = IF j <= i THEN ae[j] ELSE b[j - i]
    <2>1. /\ r \in Seq(S) /\ Len(r) = Len(ae) + Len(b)
          /\ \A j \in 1..(Len(ae) + Len(b)) :
                r[j] = IF j <= Len(ae) THEN ae[j] ELSE b[j - Len(ae)]
      BY <1>2, <1>4, ConcatProperties
    <2> HIDE DEF r
    <2>2. Len(ae) + Len(b) = n + 1
      BY <1>0, <1>2, <1>4
    <2> QED BY <2>1, <2>2, <1>4
  <1> HIDE DEF r
  <1>7. ASSUME NEW j \in 1..(n + 1)
        PROVE  r[j] = IF j < i THEN s[j] ELSE IF j = i THEN e ELSE s[j - 1]
    <2>1. CASE j <= i
      BY <2>1, <1>0, <1>5, <1>6
    <2>2. CASE j > i
      <3>1. j - i \in 1..(n + 1 - i) /\ i + (j - i) - 1 = j - 1
        BY <2>2, <1>0
      <3>2. r[j] = b[j - i] /\ b[j - i] = s[i + (j - i) - 1]
        BY <2>2, <3>1, <1>0, <1>2, <1>6
      <3> QED BY <2>2, <3>1, <3>2, <1>0
    <2> QED BY <2>1, <2>2, <1>0
  <1>8. InsertAt(s, i, e) = r
    BY DEF InsertAt, r, ae, a, b, n
  <1> QED BY <1>6, <1>7, <1>8 DEF n

\* RemoveAt shifts the elements after i by one.
LEMMA RemoveAtProps ==
    ASSUME NEW S, NEW s \in Seq(S), NEW i \in 1..Len(s)
    PROVE  /\ RemoveAt(s, i) \in Seq(S)
           /\ Len(RemoveAt(s, i)) = Len(s) - 1
           /\ \A j \in 1..(Len(s) - 1) :
                 RemoveAt(s, i)[j] = IF j < i THEN s[j] ELSE s[j + 1]
  <1> DEFINE a == SubSeq(s, 1, i - 1)
             b == SubSeq(s, i + 1, Len(s))
             n == Len(s)
             r == a \o b
  <1>0. n \in Nat /\ i \in Nat /\ i >= 1 /\ i <= n
    BY LenProperties
  <1>1. /\ a \in Seq(S) /\ Len(a) = i - 1
        /\ \A j \in 1..(i - 1) : a[j] = s[j]
    <2>1. \A j \in 1..(i - 1) : s[j] \in S
      BY <1>0, ElementOfSeq
    <2>2. /\ a \in Seq(S)
          /\ Len(a) = IF 1 <= i - 1 THEN (i - 1) - 1 + 1 ELSE 0
          /\ \A j \in 1..((i - 1) - 1 + 1) : a[j] = s[1 + j - 1]
      BY <1>0, <2>1, SubSeqProperties
    <2> HIDE DEF a
    <2> QED BY <1>0, <2>2
  <1>2. /\ b \in Seq(S) /\ Len(b) = n - i
        /\ \A j \in 1..(n - i) : b[j] = s[i + j]
    <2>1. \A j \in (i + 1)..n : s[j] \in S
      BY <1>0, ElementOfSeq
    <2>2. /\ b \in Seq(S)
          /\ Len(b) = IF i + 1 <= n THEN n - (i + 1) + 1 ELSE 0
          /\ \A j \in 1..(n - (i + 1) + 1) : b[j] = s[i + 1 + j - 1]
      BY <1>0, <2>1, SubSeqProperties
    <2> HIDE DEF b
    <2> QED BY <1>0, <2>2
  <1> HIDE DEF a, b, n
  <1>6. /\ r \in Seq(S) /\ Len(r) = n - 1
        /\ \A j \in 1..(n - 1) : r[j] = IF j <= i - 1 THEN a[j] ELSE b[j - (i - 1)]
    <2>1. /\ r \in Seq(S) /\ Len(r) = Len(a) + Len(b)
          /\ \A j \in 1..(Len(a) + Len(b)) :
                r[j] = IF j <= Len(a) THEN a[j] ELSE b[j - Len(a)]
      BY <1>1, <1>2, ConcatProperties
    <2> HIDE DEF r
    <2>2. Len(a) + Len(b) = n - 1
      BY <1>0, <1>1, <1>2
    <2> QED BY <2>1, <2>2, <1>1
  <1> HIDE DEF r
  <1>7. ASSUME NEW j \in 1..(n - 1)
        PROVE  r[j] = IF j < i THEN s[j] ELSE s[j + 1]
    <2>1. CASE j < i
      BY <2>1, <1>0, <1>1, <1>6
    <2>2. CASE j >= i
      <3>1. j - (i - 1) \in 1..(n - i) /\ i + (j - (i - 1)) = j + 1
        BY <2>2, <1>0
      <3>2. r[j] = b[j - (i - 1)] /\ b[j - (i - 1)] = s[i + (j - (i - 1))]
        BY <2>2, <3>1, <1>0, <1>2, <1>6
      <3> QED BY <2>2, <3>1, <3>2, <1>0
    <2> QED BY <2>1, <2>2, <1>0
  <1>8. RemoveAt(s, i) = r
    BY DEF RemoveAt, r, a, b, n
  <1> QED BY <1>6, <1>7, <1>8 DEF n

-----------------------------------------------------------------------------
(* Sequences in which nothing occurs twice. *)

\* What InsertAt adds to is the set of the elements.
LEMMA InsertAtSet ==
    ASSUME NEW S, NEW s \in Seq(S), NEW e \in S, NEW i \in 1..(Len(s) + 1)
    PROVE  ToSet(InsertAt(s, i, e)) = ToSet(s) \cup {e}
  <1> DEFINE r == InsertAt(s, i, e)
  <1>0. Len(s) \in Nat
    BY LenProperties
  <1>1. /\ r \in Seq(S) /\ Len(r) = Len(s) + 1
        /\ \A j \in 1..(Len(s) + 1) :
              r[j] = IF j < i THEN s[j] ELSE IF j = i THEN e ELSE s[j - 1]
    BY InsertAtProps, LenProperties
  <1> HIDE DEF r
  <1>2. ASSUME NEW x \in ToSet(r) PROVE x \in ToSet(s) \cup {e}
    <2>1. PICK j \in 1..(Len(s) + 1) : r[j] = x
      BY <1>1, SetOfSeq
    <2>2. CASE j < i
      <3>1. j \in 1..Len(s)
        BY <2>2, <1>0
      <3> QED BY <3>1, <2>1, <2>2, <1>1, SetOfSeq
    <2>3. CASE j = i
      BY <2>1, <2>3, <1>1
    <2>4. CASE j > i
      <3>1. j - 1 \in 1..Len(s) /\ ~(j < i) /\ j # i
        BY <2>4, <1>0
      <3> QED BY <3>1, <2>1, <1>1, SetOfSeq
    <2> QED BY <2>2, <2>3, <2>4, <1>0
  <1>3. e \in ToSet(r)
    <2>1. r[i] = e
      BY <1>1, <1>0
    <2> QED BY <2>1, <1>1, SetOfSeq
  <1>4. ASSUME NEW x \in ToSet(s) PROVE x \in ToSet(r)
    <2>1. PICK j \in 1..Len(s) : s[j] = x
      BY SetOfSeq
    <2>2. CASE j < i
      <3>1. j \in 1..(Len(s) + 1) /\ r[j] = x
        BY <2>1, <2>2, <1>1, <1>0
      <3> QED BY <3>1, <1>1, SetOfSeq
    <2>3. CASE j >= i
      <3>1. j + 1 \in 1..(Len(s) + 1) /\ ~(j + 1 < i) /\ j + 1 # i /\ (j + 1) - 1 = j
        BY <2>3, <1>0
      <3>2. r[j + 1] = x
        BY <3>1, <2>1, <1>1
      <3> QED BY <3>1, <3>2, <1>1, SetOfSeq
    <2> QED BY <2>2, <2>3, <1>0
  <1> QED BY <1>2, <1>3, <1>4 DEF r

\* Inserting something new keeps the elements apart.
LEMMA InsertAtInjective ==
    ASSUME NEW S, NEW s \in Seq(S), NEW e \in S \ ToSet(s), NEW i \in 1..(Len(s) + 1),
           IsInjective(s)
    PROVE  IsInjective(InsertAt(s, i, e))
  <1> DEFINE r == InsertAt(s, i, e)
             n == Len(s)
             \* the position in s of what is at j in r
             at(j) == IF j < i THEN j ELSE j - 1
  <1>0. n \in Nat /\ DOMAIN s = 1..n
    BY LenProperties
  <1>1. /\ DOMAIN r = 1..(n + 1)
        /\ \A j \in 1..(n + 1) :
              r[j] = IF j < i THEN s[j] ELSE IF j = i THEN e ELSE s[j - 1]
    BY InsertAtProps, LenProperties
  <1> HIDE DEF r
  <1>2. ASSUME NEW j \in 1..(n + 1), j # i PROVE r[j] = s[at(j)] /\ at(j) \in 1..n
    BY <1>0, <1>1, <1>2
  <1>3. \A x \in 1..n : s[x] # e
    BY SetOfSeq
  <1>4. ASSUME NEW j \in 1..(n + 1), NEW k \in 1..(n + 1), r[j] = r[k]
        PROVE  j = k
    <2>1. CASE j = i \/ k = i
      BY <2>1, <1>1, <1>2, <1>3, <1>4
    <2>2. CASE j # i /\ k # i
      <3>1. s[at(j)] = s[at(k)] /\ at(j) \in 1..n /\ at(k) \in 1..n
        BY <2>2, <1>2, <1>4
      <3>2. at(j) = at(k)
        BY <3>1, <1>0 DEF IsInjective
      <3> QED BY <3>2, <2>2, <1>0
    <2> QED BY <2>1, <2>2
  <1>5. IsInjective(r)
    BY <1>1, <1>4 DEF IsInjective
  <1> QED BY <1>5 DEF r

\* What RemoveAt leaves: everything but the element, in the order it was.
LEMMA RemoveAtInjective ==
    ASSUME NEW S, NEW s \in Seq(S), NEW i \in 1..Len(s), IsInjective(s)
    PROVE  /\ IsInjective(RemoveAt(s, i))
           /\ ToSet(RemoveAt(s, i)) = ToSet(s) \ {s[i]}
           /\ \A j, k \in DOMAIN RemoveAt(s, i) : j < k =>
                 \E p, q \in DOMAIN s :
                    p < q /\ RemoveAt(s, i)[j] = s[p] /\ RemoveAt(s, i)[k] = s[q]
  <1> DEFINE r == RemoveAt(s, i)
             n == Len(s)
             at(j) == IF j < i THEN j ELSE j + 1
  <1>0. n \in Nat /\ DOMAIN s = 1..n /\ i \in 1..n
    BY LenProperties
  <1>1. /\ r \in Seq(S) /\ Len(r) = n - 1 /\ DOMAIN r = 1..(n - 1)
        /\ \A j \in 1..(n - 1) : r[j] = IF j < i THEN s[j] ELSE s[j + 1]
    BY RemoveAtProps, LenProperties
  <1> HIDE DEF r
  <1>2. ASSUME NEW j \in 1..(n - 1) PROVE r[j] = s[at(j)] /\ at(j) \in 1..n /\ at(j) # i
    BY <1>0, <1>1
  <1>3. ASSUME NEW p \in 1..n, p # i PROVE \E j \in 1..(n - 1) : at(j) = p
    <2>1. CASE p < i
      <3>1. p \in 1..(n - 1) /\ at(p) = p
        BY <2>1, <1>0
      <3> QED BY <3>1
    <2>2. CASE p > i
      <3>1. p - 1 \in 1..(n - 1) /\ at(p - 1) = p
        BY <2>2, <1>0
      <3> QED BY <3>1
    <2> QED BY <2>1, <2>2, <1>0, <1>3
  <1>4. ASSUME NEW j \in 1..(n - 1), NEW k \in 1..(n - 1)
        PROVE  (at(j) = at(k) => j = k) /\ (j < k => at(j) < at(k))
    BY <1>0
  <1> HIDE DEF at, n
  <1>5. IsInjective(r)
    <2> SUFFICES ASSUME NEW j \in 1..(n - 1), NEW k \in 1..(n - 1), r[j] = r[k]
                 PROVE  j = k
      BY <1>1 DEF IsInjective
    <2>1. s[at(j)] = s[at(k)] /\ at(j) \in DOMAIN s /\ at(k) \in DOMAIN s
      BY <1>0, <1>2
    <2>2. at(j) = at(k)
      BY <2>1 DEF IsInjective
    <2> QED BY <2>2, <1>4
  <1>6. ToSet(r) = ToSet(s) \ {s[i]}
    <2>1. ASSUME NEW x \in ToSet(r) PROVE x \in ToSet(s) /\ x # s[i]
      <3>1. PICK j \in 1..(n - 1) : r[j] = x
        BY <1>1, SetOfSeq
      <3>2. x = s[at(j)] /\ at(j) \in 1..n /\ at(j) # i
        BY <3>1, <1>2
      <3>3. s[at(j)] # s[i]
        BY <3>2, <1>0 DEF IsInjective
      <3> QED BY <3>2, <3>3, SetOfSeq DEF n
    <2>2. ASSUME NEW x \in ToSet(s), x # s[i] PROVE x \in ToSet(r)
      <3>1. PICK p \in 1..n : s[p] = x
        BY SetOfSeq DEF n
      <3>2. PICK j \in 1..(n - 1) : at(j) = p
        BY <3>1, <2>2, <1>3
      <3>3. r[j] = x
        BY <3>1, <3>2, <1>2
      <3> QED BY <3>3, <1>1, SetOfSeq
    <2> QED BY <2>1, <2>2
  <1>7. ASSUME NEW j \in DOMAIN r, NEW k \in DOMAIN r, j < k
        PROVE  \E p, q \in DOMAIN s : p < q /\ r[j] = s[p] /\ r[k] = s[q]
    <2>1. j \in 1..(n - 1) /\ k \in 1..(n - 1)
      BY <1>1
    <2>2. /\ at(j) < at(k) /\ r[j] = s[at(j)] /\ r[k] = s[at(k)]
          /\ at(j) \in DOMAIN s /\ at(k) \in DOMAIN s
      BY <2>1, <1>7, <1>0, <1>2, <1>4
    <2> QED BY <2>2
  <1> QED BY <1>5, <1>6, <1>7 DEF r

\* RemoveFirst of an element that is there is RemoveAt its place.
LEMMA RemoveFirstIs ==
    ASSUME NEW S, NEW s \in Seq(S), NEW e
    PROVE  \/ e \notin ToSet(s) /\ RemoveFirst(s, e) = s
           \/ \E i \in 1..Len(s) : s[i] = e /\ RemoveFirst(s, e) = RemoveAt(s, i)
  <1>1. CASE e \notin ToSet(s)
    BY <1>1, SetOfSeq DEF RemoveFirst
  <1>2. CASE e \in ToSet(s)
    <2> DEFINE I == {i \in 1..Len(s) : s[i] = e}
    <2>1. I # {} /\ I \subseteq Nat
      BY <1>2, SetOfSeq, LenProperties
    <2>2. PICK x \in I : \A y \in I : x <= y
      BY <2>1, LeastElement
    <2>3. Min(I) \in I
      BY <2>2 DEF Min
    <2>4. RemoveFirst(s, e) = RemoveAt(s, Min(I))
      BY <2>1 DEF RemoveFirst, SelectInSeq
    <2> QED BY <2>3, <2>4
  <1> QED BY <1>1, <1>2

\* What RemoveFirst leaves of a sequence without repetitions.
LEMMA RemoveFirstProps ==
    ASSUME NEW S, NEW s \in Seq(S), NEW e, IsInjective(s)
    PROVE  /\ RemoveFirst(s, e) \in Seq(S)
           /\ ToSet(RemoveFirst(s, e)) = ToSet(s) \ {e}
           /\ IsInjective(RemoveFirst(s, e))
           /\ \A key : Ascending(s, key) => Ascending(RemoveFirst(s, e), key)
  <1>1. CASE e \notin ToSet(s) /\ RemoveFirst(s, e) = s
    BY <1>1
  <1>2. ASSUME NEW i \in 1..Len(s), s[i] = e, RemoveFirst(s, e) = RemoveAt(s, i)
        PROVE  /\ RemoveFirst(s, e) \in Seq(S)
               /\ ToSet(RemoveFirst(s, e)) = ToSet(s) \ {e}
               /\ IsInjective(RemoveFirst(s, e))
               /\ \A key : Ascending(s, key) => Ascending(RemoveFirst(s, e), key)
    <2>1. /\ RemoveAt(s, i) \in Seq(S)
          /\ IsInjective(RemoveAt(s, i))
          /\ ToSet(RemoveAt(s, i)) = ToSet(s) \ {s[i]}
      BY RemoveAtProps, RemoveAtInjective
    <2>2. ASSUME NEW key, Ascending(s, key) PROVE Ascending(RemoveAt(s, i), key)
      <3> SUFFICES ASSUME NEW j \in DOMAIN RemoveAt(s, i), NEW k \in DOMAIN RemoveAt(s, i), j < k
                   PROVE  key[RemoveAt(s, i)[j]] <= key[RemoveAt(s, i)[k]]
        BY DEF Ascending
      <3>1. PICK p \in DOMAIN s, q \in DOMAIN s :
               p < q /\ RemoveAt(s, i)[j] = s[p] /\ RemoveAt(s, i)[k] = s[q]
        BY RemoveAtInjective
      <3>2. key[s[p]] <= key[s[q]]
        BY <3>1, <2>2 DEF Ascending
      <3> QED BY <3>1, <3>2
    <2> QED BY <1>2, <2>1, <2>2
  <1> QED BY <1>1, <1>2, RemoveFirstIs

\* Tail drops the first element.
LEMMA TailProps ==
    ASSUME NEW S, NEW s \in Seq(S), s # <<>>, IsInjective(s)
    PROVE  /\ Head(s) \in ToSet(s) /\ Head(s) \in S
           /\ Tail(s) \in Seq(S)
           /\ ToSet(Tail(s)) = ToSet(s) \ {Head(s)}
           /\ IsInjective(Tail(s))
           /\ \A key : Ascending(s, key) =>
                 /\ Ascending(Tail(s), key)
                 /\ \A x \in ToSet(s) : x # Head(s) => key[Head(s)] <= key[x]
  <1> DEFINE r == Tail(s)
  <1>0. Len(s) \in Nat \ {0} /\ DOMAIN s = 1..Len(s) /\ Head(s) = s[1]
    BY LenProperties, EmptySeq
  <1>1. /\ r \in Seq(S) /\ Len(r) = Len(s) - 1 /\ DOMAIN r = 1..(Len(s) - 1)
        /\ \A j \in 1..(Len(s) - 1) : r[j] = s[j + 1]
    BY HeadTailProperties, LenProperties
  <1> HIDE DEF r
  <1>2. Head(s) \in ToSet(s) /\ Head(s) \in S
    <2>1. 1 \in 1..Len(s)
      BY <1>0
    <2> QED BY <2>1, <1>0, SetOfSeq
  <1>3. ToSet(r) = ToSet(s) \ {Head(s)}
    <2>1. ASSUME NEW x \in ToSet(r) PROVE x \in ToSet(s) /\ x # Head(s)
      <3>1. PICK j \in 1..(Len(s) - 1) : r[j] = x
        BY <1>1, SetOfSeq
      <3>2. j + 1 \in 1..Len(s) /\ j + 1 # 1 /\ 1 \in 1..Len(s) /\ s[j + 1] = x
        BY <3>1, <1>0, <1>1
      <3>3. s[j + 1] # s[1]
        BY <3>2, <1>0 DEF IsInjective
      <3> QED BY <3>2, <3>3, <1>0, SetOfSeq
    <2>2. ASSUME NEW x \in ToSet(s), x # Head(s) PROVE x \in ToSet(r)
      <3>1. PICK j \in 1..Len(s) : s[j] = x
        BY SetOfSeq
      <3>2. j # 1
        BY <3>1, <2>2, <1>0
      <3>3. j - 1 \in 1..(Len(s) - 1) /\ (j - 1) + 1 = j
        BY <3>2, <1>0
      <3>4. r[j - 1] = x
        BY <3>1, <3>3, <1>1
      <3> QED BY <3>3, <3>4, <1>1, SetOfSeq
    <2> QED BY <2>1, <2>2
  <1>4. IsInjective(r)
    <2> SUFFICES ASSUME NEW j \in 1..(Len(s) - 1), NEW k \in 1..(Len(s) - 1), r[j] = r[k]
                 PROVE  j = k
      BY <1>1 DEF IsInjective
    <2>1. s[j + 1] = s[k + 1] /\ j + 1 \in DOMAIN s /\ k + 1 \in DOMAIN s
      BY <1>0, <1>1
    <2>2. j + 1 = k + 1
      BY <2>1 DEF IsInjective
    <2> QED BY <2>2, <1>0
  <1>5. ASSUME NEW key, Ascending(s, key)
        PROVE  /\ Ascending(r, key)
               /\ \A x \in ToSet(s) : x # Head(s) => key[Head(s)] <= key[x]
    <2>1. ASSUME NEW j \in DOMAIN r, NEW k \in DOMAIN r, j < k
          PROVE  key[r[j]] <= key[r[k]]
      <3>1. /\ j + 1 \in DOMAIN s /\ k + 1 \in DOMAIN s /\ j + 1 < k + 1
            /\ r[j] = s[j + 1] /\ r[k] = s[k + 1]
        BY <1>0, <1>1, <2>1
      <3>2. key[s[j + 1]] <= key[s[k + 1]]
        BY <3>1, <1>5 DEF Ascending
      <3> QED BY <3>1, <3>2
    <2>2. ASSUME NEW x \in ToSet(s), x # Head(s) PROVE key[Head(s)] <= key[x]
      <3>1. PICK j \in 1..Len(s) : s[j] = x
        BY SetOfSeq
      <3>2. j # 1
        BY <3>1, <2>2, <1>0
      <3>3. 1 \in DOMAIN s /\ j \in DOMAIN s /\ 1 < j
        BY <3>2, <1>0
      <3>4. key[s[1]] <= key[s[j]]
        BY <3>3, <1>5 DEF Ascending
      <3> QED BY <3>1, <3>4, <1>0
    <2> QED BY <2>1, <2>2 DEF Ascending
  <1> QED BY <1>1, <1>2, <1>3, <1>4, <1>5 DEF r

\* Append adds at the end, which is insertion after the last element.
LEMMA AppendProps ==
    ASSUME NEW S, NEW s \in Seq(S), NEW e \in S
    PROVE  /\ Append(s, e) \in Seq(S)
           /\ ToSet(Append(s, e)) = ToSet(s) \cup {e}
           /\ (IsInjective(s) /\ e \notin ToSet(s)) => IsInjective(Append(s, e))
  <1> DEFINE r == InsertAt(s, Len(s) + 1, e)
  <1>0. Len(s) \in Nat /\ Len(s) + 1 \in 1..(Len(s) + 1)
    BY LenProperties
  <1>1. /\ r \in Seq(S) /\ Len(r) = Len(s) + 1
        /\ \A j \in 1..(Len(s) + 1) : r[j] = IF j < Len(s) + 1 THEN s[j] ELSE
                                             IF j = Len(s) + 1 THEN e ELSE s[j - 1]
    BY <1>0, InsertAtProps
  <1>2. /\ Append(s, e) \in Seq(S) /\ Len(Append(s, e)) = Len(s) + 1
        /\ \A j \in 1..(Len(s) + 1) :
              Append(s, e)[j] = IF j < Len(s) + 1 THEN s[j] ELSE e
    BY <1>0
  <1>3. Append(s, e) = r
    <2> HIDE DEF r
    <2>1. \A j \in 1..(Len(s) + 1) : Append(s, e)[j] = r[j]
      BY <1>0, <1>1, <1>2
    <2> QED BY <2>1, <1>1, <1>2, SeqEqual
  <1> QED BY <1>0, <1>2, <1>3, InsertAtSet, InsertAtInjective

\* Concatenation puts an element in front of the others.
LEMMA ConsProps ==
    ASSUME NEW S, NEW s \in Seq(S), NEW e \in S
    PROVE  /\ <<e>> \o s \in Seq(S) /\ Len(<<e>> \o s) = Len(s) + 1
           /\ (<<e>> \o s)[1] = e /\ Head(<<e>> \o s) = e
           /\ \A i \in 1..Len(s) : (<<e>> \o s)[i + 1] = s[i]
           /\ ToSet(<<e>> \o s) = ToSet(s) \cup {e}
  <1> DEFINE r == <<e>> \o s
  <1>0. Len(s) \in Nat /\ <<e>> \in Seq(S) /\ Len(<<e>>) = 1 /\ <<e>>[1] = e
    BY LenProperties
  <1>1. /\ r \in Seq(S) /\ Len(r) = Len(<<e>>) + Len(s)
        /\ \A i \in 1..(Len(<<e>>) + Len(s)) :
              r[i] = IF i <= Len(<<e>>) THEN <<e>>[i] ELSE s[i - Len(<<e>>)]
    BY <1>0, ConcatProperties
  <1> HIDE DEF r
  <1>2. Len(r) = Len(s) + 1 /\ r[1] = e
    <2>1. Len(r) = Len(s) + 1 /\ 1 \in 1..(Len(<<e>>) + Len(s)) /\ 1 <= Len(<<e>>)
      BY <1>0, <1>1
    <2> QED BY <1>0, <1>1, <2>1
  <1>3. ASSUME NEW i \in 1..Len(s) PROVE r[i + 1] = s[i]
    <2>1. i + 1 \in 1..(Len(<<e>>) + Len(s)) /\ ~(i + 1 <= 1) /\ (i + 1) - 1 = i
      BY <1>0
    <2> QED BY <1>0, <1>1, <2>1
  <1>4. Head(r) = e
    <2>1. r # <<>>
      BY <1>0, <1>2, EmptySeq
    <2> QED BY <1>1, <1>2, <2>1
  <1>5. ToSet(r) = ToSet(s) \cup {e}
    <2>1. ASSUME NEW x \in ToSet(r) PROVE x \in ToSet(s) \cup {e}
      <3>1. PICK i \in 1..(Len(s) + 1) : r[i] = x
        BY <1>1, <1>2, SetOfSeq
      <3>2. CASE i = 1
        BY <1>2, <3>1, <3>2
      <3>3. CASE i # 1
        <4>1. i - 1 \in 1..Len(s) /\ (i - 1) + 1 = i
          BY <1>0, <3>3
        <4>2. s[i - 1] = x
          BY <1>3, <3>1, <4>1
        <4> QED BY <4>1, <4>2, SetOfSeq
      <3> QED BY <3>2, <3>3
    <2>2. e \in ToSet(r)
      <3>1. 1 \in 1..Len(r)
        BY <1>0, <1>2
      <3> QED BY <1>1, <1>2, <3>1, SetOfSeq
    <2>3. ASSUME NEW x \in ToSet(s) PROVE x \in ToSet(r)
      <3>1. PICK i \in 1..Len(s) : s[i] = x
        BY SetOfSeq
      <3>2. i + 1 \in 1..Len(r) /\ r[i + 1] = x
        BY <1>0, <1>2, <1>3, <3>1
      <3> QED BY <1>1, <3>2, SetOfSeq
    <2> QED BY <2>1, <2>2, <2>3
  <1> QED BY <1>1, <1>2, <1>3, <1>4, <1>5 DEF r

\* How often an element occurs when nothing occurs twice.
LEMMA OccursOnce ==
    ASSUME NEW S, NEW s \in Seq(S), NEW t, IsInjective(s)
    PROVE  Cardinality({i \in DOMAIN s : s[i] = t}) = IF t \in ToSet(s) THEN 1 ELSE 0
  <1> DEFINE I == {i \in DOMAIN s : s[i] = t}
  <1>1. CASE t \notin ToSet(s)
    <2>1. I = {}
      BY <1>1 DEF ToSet
    <2> QED BY <1>1, <2>1, FS_EmptySet
  <1>2. CASE t \in ToSet(s)
    <2>1. PICK i \in DOMAIN s : s[i] = t
      BY <1>2 DEF ToSet
    <2>2. I = {i}
      BY <2>1 DEF IsInjective
    <2> QED BY <1>2, <2>2, FS_Singleton
  <1> QED BY <1>1, <1>2

-----------------------------------------------------------------------------
(* Insertion into a sequence kept in order. *)

\* In an ascending sequence the elements with keys up to e come first, and
\* their number says where they end.
LEMMA UpTo ==
    ASSUME NEW S, NEW s \in Seq(S), NEW key, NEW e \in Int,
           \A x \in ToSet(s) : key[x] \in Int,
           Ascending(s, key)
    PROVE  LET c == Cardinality({i \in DOMAIN s : key[s[i]] <= e})
           IN  c \in 0..Len(s) /\ \A i \in 1..Len(s) : i <= c <=> key[s[i]] <= e
  <1> DEFINE n == Len(s)
             P == {i \in DOMAIN s : key[s[i]] <= e}
             Q == {i \in 1..(n + 1) : i \notin P}
  <1>0. n \in Nat /\ DOMAIN s = 1..n
    BY LenProperties
  <1>1. \A i \in 1..n : key[s[i]] \in Int
    BY SetOfSeq
  <1>2. Q \subseteq Nat /\ n + 1 \in Q
    BY <1>0
  <1>3. PICK m \in Q : \A q \in Q : m <= q
    BY <1>2, LeastElement
  <1>4. m \in 1..(n + 1) /\ m \notin P
    BY <1>3
  <1>5. \A i \in 1..(m - 1) : i \in P
    BY <1>0, <1>3, <1>4
  <1>6. \A i \in P : i \in 1..(m - 1)
    <2> SUFFICES ASSUME NEW i \in P, i > m PROVE FALSE
      BY <1>0, <1>4
    <2>1. m \in DOMAIN s /\ i \in DOMAIN s
      BY <1>0, <1>4
    <2>2. key[s[m]] <= key[s[i]]
      BY <2>1 DEF Ascending
    <2>3. key[s[m]] \in Int /\ key[s[i]] \in Int /\ key[s[i]] <= e
      BY <2>1, <1>0, <1>1
    <2>4. key[s[m]] <= e
      BY <2>2, <2>3
    <2> QED BY <2>1, <2>4, <1>4
  <1>7. P = 1..(m - 1)
    BY <1>5, <1>6
  <1> HIDE DEF P, Q
  <1>8. Cardinality(1..(m - 1)) = m - 1
    <2>1. 1 \in Int /\ m - 1 \in Int
      BY <1>4
    <2>2. Cardinality(1..(m - 1)) = IF 1 > m - 1 THEN 0 ELSE (m - 1) - 1 + 1
      BY <2>1, FS_Interval
    <2> QED BY <2>2, <1>4
  <1>9. Cardinality(P) = m - 1
    BY <1>7, <1>8
  <1>10. \A i \in 1..n : i \in P <=> key[s[i]] <= e
    BY <1>0 DEF P
  <1>11. Cardinality(P) \in 0..n
    BY <1>0, <1>4, <1>9
  <1>12. \A i \in 1..n : i <= Cardinality(P) <=> key[s[i]] <= e
    BY <1>0, <1>4, <1>7, <1>9, <1>10
  <1> QED BY <1>11, <1>12 DEF P

\* Inserting behind them keeps the sequence ascending, whatever the key of
\* what is inserted was before.
LEMMA InsertAscending ==
    ASSUME NEW S, NEW s \in Seq(S), NEW key, NEW new, NEW e \in Int, NEW t \in S,
           \A x \in ToSet(s) : key[x] \in Int /\ new[x] = key[x],
           new[t] = e, Ascending(s, key)
    PROVE  LET p == 1 + Cardinality({i \in DOMAIN s : key[s[i]] <= e})
           IN  p \in 1..(Len(s) + 1) /\ Ascending(InsertAt(s, p, t), new)
  <1> DEFINE n == Len(s)
             c == Cardinality({i \in DOMAIN s : key[s[i]] <= e})
             p == 1 + c
             r == InsertAt(s, p, t)
  <1>0. n \in Nat /\ DOMAIN s = 1..n
    BY LenProperties
  <1>1. c \in 0..n /\ \A i \in 1..n : i <= c <=> key[s[i]] <= e
    BY UpTo
  <1> HIDE DEF c
  <1>2. p \in 1..(n + 1)
    BY <1>0, <1>1
  <1>3. /\ DOMAIN r = 1..(n + 1)
        /\ \A j \in 1..(n + 1) :
              r[j] = IF j < p THEN s[j] ELSE IF j = p THEN t ELSE s[j - 1]
    <2> HIDE DEF p
    <2>1. /\ r \in Seq(S) /\ Len(r) = n + 1
          /\ \A j \in 1..(n + 1) :
                r[j] = IF j < p THEN s[j] ELSE IF j = p THEN t ELSE s[j - 1]
      BY <1>2, InsertAtProps
    <2> HIDE DEF r
    <2> QED BY <2>1, LenProperties
  <1> HIDE DEF r
  <1>4. \A i \in 1..n : key[s[i]] \in Int /\ new[s[i]] = key[s[i]]
    BY SetOfSeq
  <1>5. \A i, j \in 1..n : i < j => key[s[i]] <= key[s[j]]
    BY <1>0 DEF Ascending
  <1>6. ASSUME NEW i \in 1..(n + 1), NEW j \in 1..(n + 1), i < j
        PROVE  new[r[i]] <= new[r[j]]
    <2>1. CASE i < p /\ j < p
      <3>1. i \in 1..n /\ j \in 1..n
        BY <2>1, <1>2, <1>0
      <3> QED BY <3>1, <2>1, <1>3, <1>4, <1>5, <1>6
    <2>2. CASE i < p /\ j = p
      <3>1. i \in 1..n /\ i <= c
        BY <2>2, <1>0, <1>1
      <3>2. r[i] = s[i] /\ r[j] = t
        BY <2>2, <1>3, <1>2, <1>0
      <3> QED BY <3>1, <3>2, <1>1, <1>4
    <2>3. CASE i < p /\ j > p
      <3>1. i \in 1..n /\ j - 1 \in 1..n /\ i < j - 1
        BY <2>3, <1>0, <1>2
      <3>2. r[i] = s[i] /\ r[j] = s[j - 1]
        BY <2>3, <1>3, <1>2, <1>0
      <3> QED BY <3>1, <3>2, <1>4, <1>5
    <2>4. CASE i = p
      <3>1. j - 1 \in 1..n /\ ~(j - 1 <= c)
        BY <2>4, <1>0, <1>1, <1>6
      <3>2. r[i] = t /\ r[j] = s[j - 1]
        BY <2>4, <1>3, <1>2, <1>0, <1>6
      <3>3. ~(key[s[j - 1]] <= e)
        BY <3>1, <1>1
      <3> QED BY <3>1, <3>2, <3>3, <1>4
    <2>5. CASE i > p
      <3>1. i - 1 \in 1..n /\ j - 1 \in 1..n /\ i - 1 < j - 1
        BY <2>5, <1>0, <1>2, <1>6
      <3>2. r[i] = s[i - 1] /\ r[j] = s[j - 1]
        BY <2>5, <1>3, <1>2, <1>0, <1>6
      <3> QED BY <3>1, <3>2, <1>4, <1>5
    <2> QED BY <2>1, <2>2, <2>3, <2>4, <2>5, <1>2, <1>0
  <1>7. Ascending(r, new)
    BY <1>3, <1>6 DEF Ascending
  <1> QED BY <1>2, <1>7 DEF r, c
=============================================================================
