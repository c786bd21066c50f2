------------------------------ MODULE PduProofs ------------------------------
(***************************************************************************)
(* Facts about the operators of Pdu and Address, and about joining texts,  *)
(* for every limit of the user data, all texts and all numbers.            *)
(***************************************************************************)
EXTENDS Pdu, SequencesExt, WellFoundedInduction, SequenceTheorems, FiniteSetTheorems,
        TLAPS

\* The minimum that decode_7bit() and decode_ucs2() stop at, and that of two.
LEMMA LeastElement ==
  ASSUME NEW S \in SUBSET Nat, S # {}
  PROVE  Min(S) \in S /\ \A y \in S : Min(S) =< y
<1>1. PICK x \in S : \A y \in S : <<y, x>> \notin OpToRel(<, Nat)
  BY WFMin, NatLessThanWellFounded
<1>2. \A y \in S : ~ (y < x)
  BY <1>1, Zenon DEF OpToRel
<1>3. \A y \in S : x =< y
  BY <1>2
<1> QED
  BY <1>3 DEF Min

LEMMA MinOfTwo ==
  ASSUME NEW a \in Nat, NEW b \in Nat
  PROVE  Min({a, b}) = IF a =< b THEN a ELSE b
<1>1. {a, b} \in SUBSET Nat /\ {a, b} # {}
  OBVIOUS
<1>2. Min({a, b}) \in {a, b} /\ \A y \in {a, b} : Min({a, b}) =< y
  BY <1>1, LeastElement
<1> QED
  BY <1>2

-----------------------------------------------------------------------------
(***************************************************************************)
(* Joining texts, as process_multipart_message() does: FlattenSeq() goes   *)
(* over the list of what is joined so far.                                 *)
(***************************************************************************)
\* f is the list of what is joined so far, as FlattenSeq() builds it.
Joins(f, ss, n) == f = [i \in 1..n |-> IF i = 1 THEN ss[i] ELSE f[i-1] \o ss[i]]

LEMMA JoinExists ==
  ASSUME NEW ss, NEW n \in Nat
  PROVE  \E f : Joins(f, ss, n)
<1> DEFINE missing == {m \in Nat : ~ \E f : Joins(f, ss, m)}
<1> SUFFICES ASSUME missing # {} PROVE FALSE
  OBVIOUS
<1>1. PICK m \in missing : \A y \in missing : m =< y
  BY LeastElement
<1>2. CASE m = 0
  <2>1. PICK f : f = [i \in 1..0 |-> 0]
    OBVIOUS
  <2>2. Joins(f, ss, 0)
    BY <2>1 DEF Joins
  <2> QED
    BY <1>1, <1>2, <2>2
<1>3. CASE m > 0
  <2>1. m - 1 \in Nat /\ m - 1 \notin missing
    BY <1>1, <1>3
  <2>2. PICK f : Joins(f, ss, m - 1)
    BY <2>1
  <2>3. PICK g : g = [i \in 1..m |-> IF i < m THEN f[i]
                                     ELSE IF i = 1 THEN ss[i] ELSE f[i - 1] \o ss[i]]
    OBVIOUS
  <2>4. \A i \in 1..(m - 1) : g[i] = f[i]
    BY <1>1, <2>3
  <2>5. ASSUME NEW i \in 1..m
        PROVE  g[i] = IF i = 1 THEN ss[i] ELSE g[i - 1] \o ss[i]
    <3>1. CASE i = m
      <4>1. i # 1 => i - 1 \in 1..(m - 1)
        BY <1>1, <1>3, <3>1
      <4> QED
        BY <1>1, <1>3, <2>3, <2>4, <3>1, <4>1
    <3>2. CASE i < m
      <4>1. i \in 1..(m - 1) /\ (i # 1 => i - 1 \in 1..(m - 1))
        BY <1>1, <3>2
      <4>2. f[i] = IF i = 1 THEN ss[i] ELSE f[i - 1] \o ss[i]
        BY <2>2, <4>1 DEF Joins
      <4> QED
        BY <2>4, <4>1, <4>2
    <3> QED
      BY <1>1, <3>1, <3>2
  <2>6. Joins(g, ss, m)
    BY <2>3, <2>5 DEF Joins
  <2> QED
    BY <1>1, <2>6
<1> QED
  BY <1>1, <1>2, <1>3

LEMMA FlattenJoins ==
  ASSUME NEW ss, NEW n \in Nat \ {0}, Len(ss) = n
  PROVE  \E f : Joins(f, ss, n) /\ FlattenSeq(ss) = f[n]
<1>1. \E f : Joins(f, ss, n)
  BY JoinExists
<1> DEFINE g == CHOOSE f : f = [i \in 1..n |-> IF i = 1 THEN ss[i] ELSE f[i-1] \o ss[i]]
<1>2. Joins(g, ss, n)
  BY <1>1, Zenon DEF Joins
<1>3. FlattenSeq(ss) = g[n]
  BY Zenon DEF FlattenSeq
<1> QED
  BY <1>2, <1>3

LEMMA JoinType ==
  ASSUME NEW S, NEW n \in Nat, NEW ss, \A i \in 1..n : ss[i] \in Seq(S),
         NEW f, Joins(f, ss, n)
  PROVE  \A i \in 1..n : f[i] \in Seq(S)
<1> DEFINE bad == {i \in 1..n : f[i] \notin Seq(S)}
<1> SUFFICES ASSUME bad # {} PROVE FALSE
  OBVIOUS
<1>1. PICK i \in bad : \A y \in bad : i =< y
  <2>1. bad \in SUBSET Nat
    OBVIOUS
  <2> HIDE DEF bad
  <2> QED
    BY <2>1, LeastElement
<1>2. f[i] = IF i = 1 THEN ss[i] ELSE f[i - 1] \o ss[i]
  BY DEF Joins
<1>3. CASE i = 1
  BY <1>2, <1>3
<1>4. CASE i # 1
  <2>1. i - 1 \in 1..n /\ i - 1 \notin bad
    BY <1>1, <1>4
  <2>2. f[i - 1] \in Seq(S) /\ ss[i] \in Seq(S)
    BY <2>1
  <2>3. f[i - 1] \o ss[i] \in Seq(S)
    BY <2>2, ConcatProperties
  <2> QED
    BY <1>2, <1>4, <2>3
<1> QED
  BY <1>3, <1>4

LEMMA FlattenType ==
  ASSUME NEW S, NEW n \in Nat \ {0}, NEW ss, Len(ss) = n,
         \A i \in 1..n : ss[i] \in Seq(S)
  PROVE  FlattenSeq(ss) \in Seq(S)
<1>1. PICK f : Joins(f, ss, n) /\ FlattenSeq(ss) = f[n]
  BY FlattenJoins
<1> QED
  BY <1>1, JoinType

\* ss are the pieces of t, cut[k] being the end of the k-th one.
Pieces(ss, t, n, cut) ==
  /\ Len(ss) = n /\ cut[0] = 0
  /\ \A k \in 0..n : cut[k] \in 0..Len(t)
  /\ \A k \in 1..n : /\ cut[k - 1] =< cut[k]
                    /\ ss[k] = SubSeq(t, cut[k - 1] + 1, cut[k])

LEMMA FlattenPieces ==
  ASSUME NEW S, NEW t \in Seq(S), NEW n \in Nat \ {0}, NEW ss, NEW cut,
         Pieces(ss, t, n, cut)
  PROVE  FlattenSeq(ss) = SubSeq(t, 1, cut[n])
<1>1. PICK f : Joins(f, ss, n) /\ FlattenSeq(ss) = f[n]
  BY FlattenJoins DEF Pieces
<1> DEFINE bad == {i \in 1..n : f[i] # SubSeq(t, 1, cut[i])}
<1> SUFFICES ASSUME bad # {} PROVE FALSE
  <2>1. n \in 1..n
    OBVIOUS
  <2> QED
    BY <1>1, <2>1
<1>2. PICK i \in bad : \A y \in bad : i =< y
  <2>1. bad \in SUBSET Nat
    OBVIOUS
  <2> HIDE DEF bad
  <2> QED
    BY <2>1, LeastElement
<1>3. f[i] = IF i = 1 THEN ss[i] ELSE f[i - 1] \o ss[i]
  BY <1>1 DEF Joins
<1>4. CASE i = 1
  <2>1. 1 - 1 = 0 /\ 0 + 1 = 1 /\ 1 \in 1..n
    OBVIOUS
  <2>2. ss[1] = SubSeq(t, cut[1 - 1] + 1, cut[1]) /\ cut[0] = 0
    BY <2>1 DEF Pieces
  <2> QED
    BY <1>3, <1>4, <2>1, <2>2
<1>5. CASE i # 1
  <2>1. i - 1 \in 1..n /\ i - 1 \notin bad /\ i - 1 \in 0..n
    BY <1>2, <1>5
  <2>2. f[i] = SubSeq(t, 1, cut[i - 1]) \o SubSeq(t, cut[i - 1] + 1, cut[i])
    BY <1>3, <1>5, <2>1 DEF Pieces
  <2>3. PICK a, b : a = cut[i - 1] /\ b = cut[i]
    OBVIOUS
  <2>4. a \in Nat /\ b \in Nat /\ a =< b /\ b =< Len(t)
    BY <2>1, <2>3 DEF Pieces
  <2>5. SubSeq(t, 1, a) \o SubSeq(t, a + 1, b) = SubSeq(t, 1, b)
    <3>1. /\ 1 \in 1..Len(t) + 1 /\ a \in 1 - 1..Len(t) /\ b \in a..Len(t)
      BY <2>4
    <3> QED
      BY <3>1, ConcatAdjacentSubSeq
  <2> QED
    BY <2>2, <2>3, <2>5
<1> QED
  BY <1>4, <1>5

-----------------------------------------------------------------------------
(***************************************************************************)
(* Reading from the first bit takes a beginning of the text.               *)
(***************************************************************************)
LEMMA WholeCharacters ==
  ASSUME NEW j \in Nat
  PROVE  /\ (7 * j) % 7 = 0 /\ (7 * j) \div 7 = j
         /\ (16 * j) % 16 = 0 /\ (16 * j) \div 16 = j
<1>1. (7 * j) % 7 = 0
  OBVIOUS
<1>2. (7 * j) \div 7 = j
  OBVIOUS
<1>3. (16 * j) % 16 = 0
  OBVIOUS
<1>4. (16 * j) \div 16 = j
  OBVIOUS
<1> QED
  BY <1>1, <1>2, <1>3, <1>4

LEMMA ReadingFromStart ==
  ASSUME NEW S, NEW t \in Seq(S), NEW n \in Nat, n = Len(t),
         NEW count \in Int, count =< n, NEW c \in Codings
  PROVE  /\ IsPrefix(Reading(t, 0, count, c), t)
         /\ count = n => Reading(t, 0, count, c) = t
<1>1. Len(t) = n /\ t = [k \in 1..n |-> t[k]]
  OBVIOUS
<1>2. ASSUME NEW k \in 1..count
      PROVE  CharAt(t, 0 + CharBits(c) * (k - 1), c) = t[k]
  <2>1. PICK j \in Nat : j = k - 1 /\ j < n /\ j + 1 = k
    OBVIOUS
  <2>2. 0 + CharBits(c) * (k - 1) = CharBits(c) * j /\ CharBits(c) \in {7, 16}
    BY <2>1 DEF CharBits
  <2>3. /\ (CharBits(c) * j) % CharBits(c) = 0
        /\ (CharBits(c) * j) \div CharBits(c) = j
    BY <2>2, WholeCharacters
  <2> QED
    BY <1>1, <2>1, <2>2, <2>3 DEF CharAt
<1>3. Reading(t, 0, count, c) = [k \in 1..count |-> t[k]]
  BY <1>2 DEF Reading
<1>4. PICK l \in 0..n : 1..count = 1..l
  <2>1. CASE count >= 0
    BY <2>1
  <2>2. CASE count < 0
    <3>1. 1..count = 1..0
      BY <2>2
    <3> QED
      BY <3>1
  <2> QED
    BY <2>1, <2>2
<1>5. PICK r : r = [k \in 1..l |-> t[k]]
  OBVIOUS
<1>6. Len(r) = l /\ DOMAIN r = 1..l /\ \A k \in 1..l : r[k] = t[k]
  BY <1>5
<1>7. SubSeq(r, 1, l) = SubSeq(t, 1, l)
  <2>1. SubSeq(r, 1, l) = [k \in 1..l |-> r[k]]
    BY <1>5, <1>6
  <2>2. SubSeq(t, 1, l) = [k \in 1..l |-> t[k]]
    BY <1>1
  <2> QED
    BY <1>6, <2>1, <2>2
<1>8. IsPrefix(r, t)
  <2>1. Len(r) =< Len(t)
    BY <1>1, <1>4, <1>6
  <2>2. SubSeq(r, 1, Len(r)) = SubSeq(t, 1, Len(r))
    BY <1>6, <1>7, Zenon
  <2> QED
    BY <2>1, <2>2, Zenon DEF IsPrefix
<1>9. count = n => r = t
  BY <1>1, <1>4, <1>5
<1> QED
  BY <1>3, <1>4, <1>5, <1>8, <1>9

LEMMA SeptetsBound ==
  ASSUME NEW n \in Nat, NEW size
  PROVE  Septets(n, size) \in 0..n
<1> DEFINE stops == {j \in 0..(n - 1) : j + j \div 7 >= size}
<1>1. stops \in SUBSET Nat /\ stops \subseteq 0..(n - 1)
  OBVIOUS
<1>2. stops # {} => Min(stops) \in stops
  <2> HIDE DEF stops
  <2> QED
    BY <1>1, LeastElement
<1> QED
  BY <1>1, <1>2 DEF Septets

\* Whatever bit is read from, the characters are those of the text, or garbled.
LEMMA ReadingType ==
  ASSUME NEW S, GARBLED \in S, NEW t \in Seq(S), NEW bit \in Nat, NEW count \in Int,
         NEW c \in Codings
  PROVE  Reading(t, bit, count, c) \in Seq(S)
<1>1. CharBits(c) \in {7, 16}
  BY DEF CharBits
<1>2. ASSUME NEW k \in 1..count
      PROVE  CharAt(t, bit + CharBits(c) * (k - 1), c) \in S
  <2>1. PICK b \in Nat : b = bit + CharBits(c) * (k - 1)
    <3>1. CharBits(c) * (k - 1) \in Nat
      BY <1>1
    <3> QED
      BY <3>1
  <2>2. b \div CharBits(c) \in Nat
    BY <1>1
  <2>3. \A j \in Nat : j < Len(t) => t[j + 1] \in S
    OBVIOUS
  <2> QED
    BY <2>1, <2>2, <2>3 DEF CharAt
<1>3. PICK n \in Nat : 1..count = 1..n
  <2>1. CASE count >= 0
    BY <2>1
  <2>2. CASE count < 0
    <3>1. 1..count = 1..0
      BY <2>2
    <3> QED
      BY <3>1
  <2> QED
    BY <2>1, <2>2
<1>4. Reading(t, bit, count, c) \in [1..n -> S]
  BY <1>2, <1>3 DEF Reading
<1> QED
  BY <1>4

\* One character more than there are is garbled.
LEMMA ReadingBeyond ==
  ASSUME NEW S, NEW t \in Seq(S), NEW count \in Int, count =< Len(t) + 1,
         NEW c \in Codings
  PROVE  IsPrefix(Reading(t, 0, count, c), Append(t, GARBLED))
<1>1. PICK n \in Nat : n = Len(t)
  OBVIOUS
<1>2. PICK u : u = Append(t, GARBLED)
  OBVIOUS
<1>3. /\ Len(u) = n + 1 /\ u \in Seq(S \cup {GARBLED})
      /\ u[n + 1] = GARBLED /\ \A k \in 1..n : u[k] = t[k]
  BY <1>1, <1>2
<1>4. ASSUME NEW k \in 1..count
      PROVE  CharAt(t, 0 + CharBits(c) * (k - 1), c) = CharAt(u, 0 + CharBits(c) * (k - 1), c)
  <2>1. PICK j \in Nat : j = k - 1 /\ j =< n
    BY <1>1
  <2>2. 0 + CharBits(c) * (k - 1) = CharBits(c) * j /\ CharBits(c) \in {7, 16}
    BY <2>1 DEF CharBits
  <2>3. /\ (CharBits(c) * j) % CharBits(c) = 0
        /\ (CharBits(c) * j) \div CharBits(c) = j
    BY <2>2, WholeCharacters
  <2>4. CharAt(t, CharBits(c) * j, c) = IF j < n THEN t[j + 1] ELSE GARBLED
    BY <1>1, <2>3 DEF CharAt
  <2>5. CharAt(u, CharBits(c) * j, c) = u[j + 1]
    BY <1>3, <2>1, <2>3 DEF CharAt
  <2> QED
    BY <1>3, <2>1, <2>2, <2>4, <2>5
<1>5. Reading(t, 0, count, c) = Reading(u, 0, count, c)
  BY <1>4 DEF Reading
<1>6. IsPrefix(Reading(u, 0, count, c), u)
  <2>1. n + 1 \in Nat /\ count =< n + 1
    BY <1>1
  <2> QED
    BY <1>3, <2>1, ReadingFromStart
<1> QED
  BY <1>2, <1>5, <1>6

\* A UCS2 piece that starts and ends between characters.
LEMMA ReadingPiece ==
  ASSUME NEW S, NEW t \in Seq(S), NEW a \in Nat, NEW b \in Nat, a =< b, b =< Len(t)
  PROVE  Reading(t, 16 * a, b - a, "ucs2") = SubSeq(t, a + 1, b)
<1>1. PICK n \in Nat : n = b - a
  OBVIOUS
<1>2. ASSUME NEW k \in 1..n
      PROVE  CharAt(t, 16 * a + CharBits("ucs2") * (k - 1), "ucs2") = t[a + k]
  <2>1. PICK j \in Nat : j = a + (k - 1) /\ j < Len(t) /\ j + 1 = a + k
    BY <1>1
  <2>2. 16 * a + CharBits("ucs2") * (k - 1) = 16 * j /\ CharBits("ucs2") = 16
    BY <2>1 DEF CharBits
  <2>3. (16 * j) % 16 = 0 /\ (16 * j) \div 16 = j
    BY WholeCharacters
  <2> QED
    BY <2>1, <2>2, <2>3 DEF CharAt
<1>3. Reading(t, 16 * a, b - a, "ucs2") = [k \in 1..n |-> t[a + k]]
  BY <1>1, <1>2 DEF Reading
<1>4. SubSeq(t, a + 1, b) = [k \in 1..n |-> t[a + k]]
  <2>1. b - (a + 1) + 1 = n /\ \A k \in 1..n : a + 1 + k - 1 = a + k
    BY <1>1
  <2> QED
    BY <2>1
<1> QED
  BY <1>3, <1>4

-----------------------------------------------------------------------------
(***************************************************************************)
(* The octets of a UCS2 text in UTF-8, and where decode_ucs2() cuts it.    *)
(***************************************************************************)
\* How many of the first k characters take more than o octets.
LEMMA LongerGrow ==
  ASSUME NEW w, NEW o, NEW l \in Nat, NEW k \in 0..l
  PROVE  /\ Cardinality({j \in 1..k : w[j] > o}) \in Nat
         /\ Cardinality({j \in 1..l : w[j] > o}) \in Nat
         /\ Cardinality({j \in 1..k : w[j] > o}) =< Cardinality({j \in 1..l : w[j] > o})
<1>1. PICK S : S = {j \in 1..l : w[j] > o}
  OBVIOUS
<1>2. PICK T : T = {j \in 1..k : w[j] > o}
  OBVIOUS
<1>3. S \subseteq 1..l /\ T \subseteq S
  BY <1>1, <1>2
<1>4. IsFiniteSet(S)
  <2>1. IsFiniteSet(1..l) /\ S \in SUBSET (1..l)
    BY <1>3, FS_Interval
  <2> QED
    BY <2>1, FS_Subset
<1>5. IsFiniteSet(T) /\ Cardinality(T) =< Cardinality(S)
  <2>1. T \in SUBSET S
    BY <1>3
  <2> QED
    BY <1>4, <2>1, FS_Subset
<1>6. Cardinality(T) \in Nat /\ Cardinality(S) \in Nat
  BY <1>4, <1>5, FS_CardinalityType
<1> QED
  BY <1>1, <1>2, <1>5, <1>6

LEMMA OctetsGrow ==
  ASSUME NEW w, NEW l \in Nat, NEW k \in 0..l
  PROVE  Octets(w, k) \in Nat /\ Octets(w, l) \in Nat /\ Octets(w, k) =< Octets(w, l)
<1>1. PICK a \in Nat, b \in Nat : /\ a = Cardinality({j \in 1..k : w[j] > 1})
                                  /\ b = Cardinality({j \in 1..k : w[j] > 2})
  BY LongerGrow
<1>2. PICK c \in Nat, d \in Nat : /\ c = Cardinality({j \in 1..l : w[j] > 1})
                                  /\ d = Cardinality({j \in 1..l : w[j] > 2})
  BY LongerGrow
<1>3. a =< c /\ b =< d
  BY <1>1, <1>2, LongerGrow
<1>4. Octets(w, k) = k + a + b /\ Octets(w, l) = l + c + d
  BY <1>1, <1>2 DEF Octets
<1> QED
  BY <1>3, <1>4

LEMMA CharsInBound ==
  ASSUME NEW w \in Seq(1..3), NEW l \in Nat, l = Len(w), NEW n \in Int
  PROVE  /\ CharsIn(w, n) \in 0..l
         /\ \A c \in 1..l : Octets(w, c) =< n => c =< CharsIn(w, n)
         /\ 0 =< n /\ Octets(w, l) =< n => CharsIn(w, n) = l
<1>1. PICK S : S = {k \in 1..l : Octets(w, k) =< n}
  OBVIOUS
<1>2. CharsIn(w, n) = Cardinality(S) /\ S \in SUBSET (1..l)
  <2>1. DOMAIN w = 1..l
    OBVIOUS
  <2>2. S = {k \in DOMAIN w : Octets(w, k) =< n}
    BY <1>1, <2>1
  <2> QED
    BY <1>1, <2>2 DEF CharsIn
<1>3. IsFiniteSet(S) /\ Cardinality(S) =< l /\ Cardinality(S) \in Nat
  <2>1. IsFiniteSet(1..l) /\ Cardinality(1..l) = l
    <3>1. 1 \in Int /\ l \in Int
      OBVIOUS
    <3>2. IsFiniteSet(1..l) /\ Cardinality(1..l) = IF 1 > l THEN 0 ELSE l - 1 + 1
      BY <3>1, FS_Interval
    <3> QED
      BY <3>2
  <2>2. IsFiniteSet(S) /\ Cardinality(S) =< Cardinality(1..l)
    BY <1>2, <2>1, FS_Subset
  <2> QED
    BY <2>1, <2>2, FS_CardinalityType
<1>4. ASSUME NEW c \in 1..l, Octets(w, c) =< n
      PROVE  c =< CharsIn(w, n)
  <2>1. ASSUME NEW k \in 1..c
        PROVE  k \in S
    <3>1. k \in 0..c /\ c \in Nat
      OBVIOUS
    <3>2. Octets(w, k) \in Nat /\ Octets(w, c) \in Nat /\ Octets(w, k) =< Octets(w, c)
      BY <3>1, OctetsGrow
    <3> QED
      BY <1>1, <1>4, <3>2
  <2>2. (1..c) \in SUBSET S
    BY <2>1
  <2>3. Cardinality(1..c) =< Cardinality(S)
    BY <1>3, <2>2, FS_Subset
  <2>4. Cardinality(1..c) = c
    <3>1. 1 \in Int /\ c \in Int
      OBVIOUS
    <3>2. Cardinality(1..c) = IF 1 > c THEN 0 ELSE c - 1 + 1
      BY <3>1, FS_Interval
    <3> QED
      BY <3>2
  <2> QED
    BY <1>2, <2>3, <2>4
<1>5. Octets(w, l) =< n => CharsIn(w, n) = l
  <2>1. CASE l = 0
    BY <1>2, <1>3, <2>1
  <2>2. CASE l > 0
    BY <1>2, <1>3, <1>4, <2>2
  <2> QED
    BY <2>1, <2>2
<1> QED
  BY <1>2, <1>3, <1>4, <1>5

LEMMA KeptBound ==
  ASSUME NEW w \in Seq(1..3), NEW l \in Nat, l = Len(w), NEW size \in Nat
  PROVE  /\ OctetsKept(w, size) \in Int
         /\ Octets(w, l) < size => OctetsKept(w, size) = Octets(w, l)
         /\ Octets(w, l) >= size => OctetsKept(w, size) >= size - 3
<1>1. PICK S : S = {k \in 1..l : Octets(w, k) >= size}
  OBVIOUS
<1>2. OctetsKept(w, size) = IF S = {} THEN Octets(w, l) ELSE Octets(w, Min(S)) - 3
  <2>1. DOMAIN w = 1..l
    OBVIOUS
  <2>2. S = {k \in DOMAIN w : Octets(w, k) >= size}
    BY <1>1, <2>1
  <2> QED
    BY <2>2 DEF OctetsKept
<1>3. \A k \in 0..l : Octets(w, k) \in Nat /\ Octets(w, k) =< Octets(w, l)
  BY OctetsGrow
<1>4. Octets(w, l) \in Nat
  BY <1>3
<1>5. CASE S = {}
  <2>1. l = 0 \/ Octets(w, l) < size
    BY <1>1, <1>4, <1>5
  <2>2. l = 0 /\ Octets(w, l) >= size => Octets(w, l) >= size - 3
    BY <1>4
  <2> QED
    BY <1>2, <1>4, <1>5, <2>1, <2>2
<1>6. CASE S # {}
  <2>1. S \in SUBSET Nat
    BY <1>1
  <2>2. PICK m : m = Min(S) /\ m \in S
    BY <1>6, <2>1, LeastElement
  <2>3. m \in 0..l /\ Octets(w, m) >= size
    BY <1>1, <2>2
  <2>4. Octets(w, m) \in Nat /\ Octets(w, m) =< Octets(w, l)
    BY <1>3, <2>3
  <2> QED
    BY <1>2, <1>4, <1>6, <2>2, <2>3, <2>4
<1> QED
  BY <1>5, <1>6

LEMMA BeginningType ==
  ASSUME NEW S, NEW t \in Seq(S), NEW n \in Int, n =< Len(t)
  PROVE  SubSeq(t, 1, n) \in Seq(S)
<1>1. ASSUME NEW i \in 1..n
      PROVE  t[i] \in S
  <2>1. i \in 1..Len(t)
    OBVIOUS
  <2> QED
    BY <2>1
<1> QED
  BY <1>1, SubSeqProperties

(***************************************************************************)
(* What decode_ucs2() makes of a text: its beginning and at most one part  *)
(* of a character; the whole of it, if it fits; and what ends three octets *)
(* before the end of the buffer in any case.                               *)
(***************************************************************************)
Begins(d, t, w, size, n) ==
  /\ d = SubSeq(t, 1, n) \/ d = Append(SubSeq(t, 1, n), GARBLED)
  /\ Octets(w, Len(t)) < size => d = t
  /\ Octets(w, Len(t)) >= size =>
       \A c \in 1..Len(t) : Octets(w, c) =< size - 3 => c =< n

LEMMA Ucs2Decoded ==
  ASSUME NEW S, NEW t \in Seq(S), NEW w \in Seq(1..3), NEW l \in Nat,
         l = Len(t), l = Len(w), NEW size \in Nat
  PROVE  \E n \in 0..l : Begins(decode_ucs2(t, w, size), t, w, size, n)
<1>1. PICK kept \in Int : kept = OctetsKept(w, size)
  BY KeptBound
<1>2. PICK n \in 0..l : n = CharsIn(w, kept)
  BY CharsInBound
<1>3. \A c \in 0..l : Octets(w, c) \in Nat
  BY OctetsGrow
<1>4. PICK r \in Seq(S) : r = SubSeq(t, 1, n)
  <2>1. n \in Int /\ n =< Len(t)
    OBVIOUS
  <2>2. SubSeq(t, 1, n) \in Seq(S)
    BY <2>1, BeginningType
  <2> QED
    BY <2>2
<1>5. Reading(t, 0, n, "ucs2") = r
  <2>1. Reading(t, 16 * 0, n - 0, "ucs2") = SubSeq(t, 0 + 1, n)
    <3>1. 0 \in Nat /\ n \in Nat /\ 0 =< n /\ n =< Len(t)
      OBVIOUS
    <3> QED
      BY <3>1, ReadingPiece
  <2> QED
    BY <1>4, <2>1
<1>6. decode_ucs2(t, w, size) = r \o (IF Missing(w, size) = 0 THEN <<>> ELSE <<GARBLED>>)
  BY <1>1, <1>2, <1>5 DEF decode_ucs2
<1>7. \/ decode_ucs2(t, w, size) = r /\ Missing(w, size) = 0
      \/ decode_ucs2(t, w, size) = Append(r, GARBLED)
  <2>1. r \o <<>> = r
    BY ConcatEmptySeq
  <2>2. r \o <<GARBLED>> = Append(r, GARBLED)
    OBVIOUS
  <2>3. CASE Missing(w, size) = 0
    BY <1>6, <2>1, <2>3
  <2>4. CASE Missing(w, size) # 0
    BY <1>6, <2>2, <2>4
  <2> QED
    BY <2>3, <2>4
<1>8. ASSUME Octets(w, l) < size
      PROVE  n = l /\ decode_ucs2(t, w, size) = t
  <2>1. kept = Octets(w, l) /\ kept >= 0
    BY <1>1, <1>3, <1>8, KeptBound
  <2>2. n = l
    <3>1. 0 =< kept /\ Octets(w, l) =< kept
      BY <1>3, <2>1
    <3> QED
      BY <1>2, <3>1, CharsInBound
  <2>3. Missing(w, size) = 0
    BY <1>1, <1>2, <2>1, <2>2 DEF Missing
  <2>4. r = t
    BY <1>4, <2>2, SubSeqFull
  <2>5. r \o <<>> = r
    BY ConcatEmptySeq
  <2> QED
    BY <1>6, <2>2, <2>3, <2>4, <2>5
<1>9. ASSUME Octets(w, l) >= size, NEW c \in 1..l, Octets(w, c) =< size - 3
      PROVE  c =< n
  <2>1. kept >= size - 3
    BY <1>1, <1>9, KeptBound
  <2>2. Octets(w, c) =< kept
    BY <1>3, <1>9, <2>1
  <2> QED
    BY <1>2, <2>2, CharsInBound
<1>10. Begins(decode_ucs2(t, w, size), t, w, size, n)
  BY <1>4, <1>7, <1>8, <1>9 DEF Begins
<1> QED
  BY <1>10

\* decode_pdu() makes no character of its own.
LEMMA DecodedType ==
  ASSUME NEW S, GARBLED \in S, NEW t \in Seq(S), NEW c \in Codings,
         NEW udh \in {0, 6, 7}, NEW w \in Seq(1..3), Len(w) = Len(t),
         NEW d \in decode_pdu(t, c, udh, w)
  PROVE  d \in Seq(S)
<1>1. PICK n \in Nat : n = Len(t)
  OBVIOUS
<1>2. TextSize \in Nat
  BY LimitAssumption DEF TextSize
<1>3. CASE c = "ucs2"
  <2>1. d = decode_ucs2(t, w, TextSize)
    BY <1>3 DEF decode_pdu
  <2>2. PICK m \in 0..n : d = SubSeq(t, 1, m) \/ d = Append(SubSeq(t, 1, m), GARBLED)
    <3>1. n = Len(w)
      BY <1>1
    <3>2. PICK size \in Nat : size = TextSize
      BY <1>2
    <3>3. \E m \in 0..n : Begins(decode_ucs2(t, w, size), t, w, size, m)
      BY <1>1, <3>1, Ucs2Decoded
    <3> QED
      BY <2>1, <3>2, <3>3 DEF Begins
  <2>3. SubSeq(t, 1, m) \in Seq(S)
    BY <1>1, BeginningType
  <2> QED
    BY <2>2, <2>3
<1>4. CASE c # "ucs2" /\ udh = 0
  <2>1. d = Reading(t, 0, Septets(n, TextSize), c)
    BY <1>1, <1>4 DEF decode_pdu
  <2>2. Septets(n, TextSize) \in Int
    BY SeptetsBound
  <2> QED
    BY <2>1, <2>2, ReadingType
<1>5. CASE c # "ucs2" /\ udh # 0
  <2> DEFINE udl == n + (8 * udh + 6) \div 7
             bit == IF udh = 7 THEN 1 ELSE 0
             m == udl - udh - 1
             read == Reading(t, bit, 1 + Septets(m, TextSize - 1), c)
  <2>1. d \in Outcomes(read)
    BY <1>1, <1>5 DEF decode_pdu
  <2>2. m \in Nat
    <3>1. CASE udh = 6
      BY <3>1
    <3>2. CASE udh = 7
      BY <3>2
    <3> QED
      BY <1>5, <3>1, <3>2
  <2>3. bit \in Nat
    OBVIOUS
  <2> HIDE DEF m, bit
  <2>4. 1 + Septets(m, TextSize - 1) \in Int
    BY <2>2, SeptetsBound
  <2>5. read \in Seq(S)
    BY <2>3, <2>4, ReadingType
  <2> HIDE DEF read
  <2>6. ASSUME NEW k \in DOMAIN read
        PROVE  SubSeq(read, 1, k - 1) \in Seq(S)
    BY <2>5
  <2> QED
    BY <2>1, <2>5, <2>6 DEF Outcomes
<1> QED
  BY <1>3, <1>4, <1>5

-----------------------------------------------------------------------------
(***************************************************************************)
(* Numbers.                                                                *)
(***************************************************************************)
\* Digit k of the octets, as decode_semi_octets() and the network read them.
HalfOf(octets, k) == IF k % 2 = 1 THEN octets[(k + 1) \div 2].low
                     ELSE octets[k \div 2].high

\* The digits come back in their order, with the filler behind an odd number.
LEMMA SemiOctets ==
  ASSUME NEW number, NEW l \in Nat, Len(number) = l,
         NEW octets, octets = hex2bin(encode_semi_octets(number)),
         NEW n \in Nat, n = (l + 1) \div 2
  PROVE  /\ Len(octets) = n
         /\ \A k \in 1..2 * n : HalfOf(octets, k) = IF k =< l THEN number[k] ELSE Filler
<1> DEFINE hex == encode_semi_octets(number)
<1>1. /\ hex = [k \in 1..2 * n |->
                   IF k % 2 = 0 THEN number[k - 1]
                   ELSE IF k < l THEN number[k + 1] ELSE Filler]
  BY DEF encode_semi_octets
<1>2. Len(hex) = 2 * n
  <2> HIDE DEF hex
  <2> QED
    BY <1>1
<1>3. (2 * n) \div 2 = n
  OBVIOUS
<1>4. octets = [k \in 1..n |-> [high |-> hex[2 * k - 1], low |-> hex[2 * k]]]
  BY <1>2, <1>3 DEF hex2bin
<1>5. Len(octets) = n
  <2> HIDE DEF hex
  <2> QED
    BY <1>4
<1>6. ASSUME NEW k \in 1..2 * n
      PROVE  HalfOf(octets, k) = IF k =< l THEN number[k] ELSE Filler
  <2>1. CASE k % 2 = 1
    <3>1. PICK j \in 1..n : j = (k + 1) \div 2 /\ 2 * j = k + 1
      BY <2>1
    <3>2. HalfOf(octets, k) = octets[j].low
      BY <2>1, <3>1 DEF HalfOf
    <3>3. octets[j].low = hex[k + 1]
      BY <1>4, <3>1
    <3>4. k + 1 \in 1..2 * n /\ (k + 1) % 2 = 0 /\ k =< l /\ (k + 1) - 1 = k
      BY <2>1, <3>1
    <3>5. hex[k + 1] = number[k]
      BY <1>1, <3>4
    <3> QED
      BY <3>2, <3>3, <3>4, <3>5
  <2>2. CASE k % 2 # 1
    <3>1. PICK j \in 1..n : j = k \div 2 /\ 2 * j = k
      BY <2>2
    <3>2. HalfOf(octets, k) = octets[j].high
      BY <2>2, <3>1 DEF HalfOf
    <3>3. octets[j].high = hex[k - 1]
      BY <1>4, <3>1
    <3>4. /\ k - 1 \in 1..2 * n /\ (k - 1) % 2 # 0 /\ (k - 1) + 1 = k
          /\ k - 1 < l <=> k =< l
      BY <2>2, <3>1
    <3>5. hex[k - 1] = IF k =< l THEN number[k] ELSE Filler
      BY <1>1, <3>4
    <3> QED
      BY <3>2, <3>3, <3>5
  <2> QED
    BY <2>1, <2>2
<1> QED
  BY <1>5, <1>6

\* No filler is taken for a digit, and a number that fits is read whole.
LEMMA NumberDecoded ==
  ASSUME NEW A, Filler \notin A, NEW number \in Seq(A), NEW size \in Nat
  PROVE  LET octets == hex2bin(encode_semi_octets(number))
         IN  /\ decode_semi_octets(octets, size) \in Seq(A)
             /\ Len(number) =< size => decode_semi_octets(octets, size) = number
<1> DEFINE octets == hex2bin(encode_semi_octets(number))
<1>1. PICK l \in Nat : Len(number) = l /\ number = [k \in 1..l |-> number[k]]
  OBVIOUS
<1>2. PICK n \in Nat : n = (l + 1) \div 2 /\ l =< 2 * n /\ 2 * n =< l + 1
  BY <1>1
<1>3. /\ Len(octets) = n
      /\ \A k \in 1..2 * n : HalfOf(octets, k) = IF k =< l THEN number[k] ELSE Filler
  BY <1>1, <1>2, SemiOctets
<1> HIDE DEF octets
<1>4. PICK full : full = {i \in 0..n - 1 : 2 * i >= size}
  OBVIOUS
<1>5. PICK pairs \in 0..n : /\ pairs = (IF full = {} THEN n ELSE Min(full))
                            /\ l =< size => pairs = n
  <2>1. full \in SUBSET Nat /\ full \subseteq 0..n - 1
    BY <1>4
  <2>2. full # {} => Min(full) \in full
    BY <2>1, LeastElement
  <2>3. l =< size => full = {}
    <3>1. \A i \in 0..n - 1 : 2 * i < l
      BY <1>2
    <3> QED
      BY <1>1, <1>4, <3>1
  <2>4. CASE full = {}
    BY <2>4
  <2>5. CASE full # {}
    <3>1. Min(full) \in 0..n
      <4>1. \A i \in 0..n - 1 : i \in 0..n
        OBVIOUS
      <4> QED
        BY <2>1, <2>2, <2>5, <4>1, Zenon
    <3>2. (IF full = {} THEN n ELSE Min(full)) = Min(full)
      BY <2>5
    <3>3. ~ (l =< size)
      BY <2>3, <2>5
    <3> QED
      BY <3>1, <3>2, <3>3, Zenon
  <2> QED
    BY <2>4, <2>5
<1>6. PICK m \in Nat : m = 2 * pairs /\ m =< 2 * n /\ (l =< size => m = 2 * n)
  BY <1>5
<1>7. PICK char : char = [k \in 1..m |-> HalfOf(octets, k)]
  OBVIOUS
<1>8. PICK ends : ends = {k \in 1..m : char[k] = Filler}
  OBVIOUS
<1>9. decode_semi_octets(octets, size) =
        IF ends = {} THEN char ELSE SubSeq(char, 1, Min(ends) - 1)
  BY <1>3, <1>4, <1>5, <1>6, <1>7, <1>8, Zenon DEF decode_semi_octets, HalfOf
<1>10. \A k \in 1..m : char[k] = IF k =< l THEN number[k] ELSE Filler
  BY <1>3, <1>6, <1>7
<1>11. \A k \in 1..l : number[k] \in A /\ number[k] # Filler
  BY <1>1
<1>12. ends = {k \in 1..m : k > l}
  BY <1>8, <1>10, <1>11
<1>13. CASE m =< l
  <2>1. ends = {}
    BY <1>12, <1>13
  <2>2. \A k \in 1..m : char[k] = number[k] /\ number[k] \in A
    BY <1>10, <1>11, <1>13
  <2>3. char \in Seq(A) /\ char = [k \in 1..m |-> number[k]]
    BY <1>7, <2>2
  <2>4. l =< size => m = l
    BY <1>2, <1>6, <1>13
  <2> QED
    BY <1>1, <1>9, <2>1, <2>3, <2>4 DEF octets
<1>14. CASE m > l
  <2>1. m = l + 1
    BY <1>2, <1>6, <1>14
  <2>2. ends = {l + 1}
    BY <1>12, <2>1
  <2>3. Min(ends) = l + 1
    <3>1. ends \in SUBSET Nat /\ ends # {}
      BY <2>2
    <3> QED
      BY <2>2, <3>1, LeastElement
  <2>4. \A k \in 1..l : char[k] = number[k]
    BY <1>10, <2>1
  <2>5. SubSeq(char, 1, l) = [k \in 1..l |-> number[k]]
    <3>1. SubSeq(char, 1, l) = [k \in 1..l |-> char[k]]
      BY <1>7, <2>1
    <3> QED
      BY <2>4, <3>1
  <2>6. decode_semi_octets(octets, size) = number
    <3>1. l + 1 - 1 = l
      OBVIOUS
    <3> QED
      BY <1>1, <1>9, <2>2, <2>3, <2>5, <3>1
  <2> QED
    BY <2>6 DEF octets
<1> QED
  BY <1>13, <1>14

Letters == Digits \cup {LETTER}

\* What decode_sender() makes of each type of number.
LEMMA SenderType ==
  ASSUME NEW f, f.number \in Seq(Letters)
  PROVE  decode_sender(f) \in Seq(Digits \cup {PLUS, LETTER})
<1> DEFINE Chars == Digits \cup {PLUS, LETTER}
<1>1. f.number \in Seq(Letters)
  OBVIOUS
<1>2. Filler \notin Letters /\ Letters \subseteq Chars /\ PLUS \in Chars /\ LETTER \in Chars
  BY DEF Letters, Filler, Digits, LETTER
<1> HIDE DEF Chars
<1>3. \A s \in Seq(Letters) : s \in Seq(Chars)
  BY <1>2
<1>4. ASSUME NEW size \in Nat
      PROVE  decode_semi_octets(hex2bin(encode_semi_octets(f.number)), size) \in Seq(Chars)
  BY <1>1, <1>2, <1>3, NumberDecoded
<1>5. ASSUME NEW s \in Seq(Chars)
      PROVE  SenderString(s) \in Seq(Chars)
  <2>1. CASE Len(s) < SenderSize
    BY <2>1 DEF SenderString
  <2>2. CASE Len(s) >= SenderSize
    <3>1. PICK b : b = SubSeq(s, 1, SenderSize)
      OBVIOUS
    <3>2. b \in Seq(Chars)
      <4>1. \A i \in 1..14 : s[i] \in Chars
        BY <2>2 DEF SenderSize
      <4>2. b = SubSeq(s, 1, 14)
        BY <3>1 DEF SenderSize
      <4> QED
        BY <4>1, <4>2, SubSeqProperties
    <3>3. PICK ts : ts = [k \in 1..TsLen |-> LETTER]
      OBVIOUS
    <3>4. ts \in Seq(Chars)
      BY <1>2, <3>3 DEF TsLen
    <3>5. b \o ts \in Seq(Chars)
      BY <3>2, <3>4, ConcatProperties
    <3> QED
      BY <2>2, <3>1, <3>3, <3>5 DEF SenderString, SenderSize
  <2> QED
    BY <2>1, <2>2 DEF SenderSize
<1>6. CASE f.ton = International
  <2>1. PICK d \in Seq(Chars) :
          d = decode_semi_octets(hex2bin(encode_semi_octets(f.number)), SenderSize - 1)
    <3>1. SenderSize - 1 \in Nat
      BY DEF SenderSize
    <3> QED
      BY <1>4, <3>1
  <2>2. <<PLUS>> \o d \in Seq(Chars)
    <3>1. <<PLUS>> \in Seq(Chars)
      BY <1>2
    <3> QED
      BY <3>1, ConcatProperties
  <2>3. decode_sender(f) = SenderString(<<PLUS>> \o d)
    BY <1>6, <2>1 DEF decode_sender
  <2> QED
    BY <1>5, <2>2, <2>3 DEF Chars
<1>7. CASE f.ton = Subscriber
  <2>1. SenderSize \in Nat
    BY DEF SenderSize
  <2>2. decode_sender(f) =
          SenderString(decode_semi_octets(hex2bin(encode_semi_octets(f.number)), SenderSize))
    BY <1>7 DEF decode_sender, International, Subscriber
  <2> QED
    BY <1>4, <1>5, <2>1, <2>2 DEF Chars
<1>8. CASE f.ton \notin {International, Subscriber}
  <2>1. PICK l \in Nat, m \in Nat : l = Len(f.number) /\ m = (7 * l + 7) \div 8 /\ m =< l
    <3>1. PICK l \in Nat : l = Len(f.number)
      OBVIOUS
    <3>2. (7 * l + 7) \div 8 \in Nat /\ (7 * l + 7) \div 8 =< l
      OBVIOUS
    <3> QED
      BY <3>1, <3>2
  <2>1a. m =< l /\ l = Len(f.number)
    BY <2>1
  <2>2. Unknown \in Seq(Chars)
    <3>1. PICK u : u = Unknown
      OBVIOUS
    <3>2. u \in Seq(Chars)
      BY <1>2, <3>1 DEF Unknown
    <3> QED
      BY <3>1, <3>2
  <2>3. PICK c : c = SubSeq(f.number, 1, Septets(m, SenderSize))
    OBVIOUS
  <2>4. c \in Seq(Chars)
    <3>1. Septets(m, SenderSize) \in 0..m
      BY SeptetsBound
    <3>2. f.number \in Seq(Chars)
      BY <1>1, <1>3
    <3> QED
      <4>1. PICK k \in Int : k = Septets(m, SenderSize) /\ k =< Len(f.number)
        <5>1. Septets(m, SenderSize) \in Int /\ Septets(m, SenderSize) =< m
          BY <3>1
        <5>2. PICK s \in Int : s = Septets(m, SenderSize) /\ s =< m
          BY <5>1
        <5>3. s =< l
          BY <2>1a, <5>2
        <5> QED
          BY <2>1a, <5>2, <5>3
      <4>2. SubSeq(f.number, 1, k) \in Seq(Chars)
        BY <3>2, <4>1, BeginningType
      <4> QED
        BY <2>3, <4>1, <4>2
  <2>5. decode_sender(f) = IF f.ton = Alphanumeric THEN c ELSE Unknown
    BY <1>8, <2>1, <2>3 DEF decode_sender
  <2> QED
    BY <2>2, <2>4, <2>5 DEF Chars
<1> QED
  BY <1>6, <1>7, <1>8

\* A number that create_pdu_impl() does not refuse comes back.
LEMMA SenderKnown ==
  ASSUME NEW f, NEW d \in Seq(Digits), d # <<>>, ~ TooLong(d),
         f.ton \in {International, Subscriber}, f.number = d
  PROVE  s_sender(decode_sender(f)) = d
<1>1. d \in Seq(Digits) /\ Filler \notin Digits
  BY DEF Filler, Digits
<1>2. Len(d) =< 12 /\ Len(d) >= 1 /\ Len(d) \in Nat
  BY <1>1 DEF TooLong
<1>3. ASSUME NEW size \in {SenderSize - 1, SenderSize}
      PROVE  decode_semi_octets(hex2bin(encode_semi_octets(d)), size) = d
  <2>1. size \in Nat /\ Len(d) =< size
    BY <1>2 DEF SenderSize
  <2> QED
    BY <1>1, <2>1, NumberDecoded
<1>4. CASE f.ton = International
  <2>1. decode_sender(f) = SenderString(<<PLUS>> \o d)
    BY <1>3, <1>4 DEF decode_sender
  <2>2. PICK s : s = <<PLUS>> \o d
    OBVIOUS
  <2>3. Len(s) = Len(d) + 1 /\ s[1] = PLUS /\ s # <<>> /\ Tail(s) = d
    BY <1>1, <2>2
  <2>4. SenderString(s) = s
    BY <1>2, <2>3 DEF SenderString, SenderSize
  <2> QED
    BY <2>1, <2>2, <2>3, <2>4 DEF s_sender
<1>5. CASE f.ton = Subscriber
  <2>1. decode_sender(f) = SenderString(d)
    BY <1>3, <1>5 DEF decode_sender, International, Subscriber
  <2>2. SenderString(d) = d
    BY <1>2 DEF SenderString, SenderSize
  <2>3. d[1] # PLUS
    BY <1>1, <1>2 DEF PLUS, Digits
  <2> QED
    BY <2>1, <2>2, <2>3 DEF s_sender
<1> QED
  BY <1>4, <1>5

-----------------------------------------------------------------------------
(***************************************************************************)
(* Writing: the arithmetic of create_pdu_impl() and of the split.          *)
(***************************************************************************)
LEMMA EncodedLength ==
  ASSUME NEW t, Len(t) \in Nat, NEW c \in Codings
  PROVE  encoded_len(t, c) \in Nat
<1>1. CharBits(c) = 7 \/ CharBits(c) = 16
  BY DEF CharBits
<1> QED
  BY <1>1 DEF encoded_len

LEMMA TimesMonotone ==
  ASSUME NEW a \in Nat, NEW b \in Nat, a =< b, NEW u \in Nat
  PROVE  a * u =< b * u
<1>1. PICK d \in Nat : b = a + d
  OBVIOUS
<1>2. b * u = a * u + d * u
  BY <1>1
<1>3. a * u \in Nat /\ d * u \in Nat
  OBVIOUS
<1> QED
  BY <1>2, <1>3

\* The number of parts computed before the loop is enough, and no less.
LEMMA RoundsEnough ==
  ASSUME NEW e \in Nat, NEW u \in Nat \ {0}
  PROVE  /\ e \div u + 1 \in Nat \ {0}
         /\ e < (e \div u + 1) * u
         /\ (e \div u) * u =< e
<1>1. PICK q \in Int : q = e \div u
  OBVIOUS
<1>2. q * u =< e /\ e < q * u + u
  BY <1>1
<1>3. q >= 0
  <2> SUFFICES ASSUME q =< -1 PROVE FALSE
    BY <1>1
  <2>1. q * u + u =< 0
    <3>1. (q + 1) * u = q * u + u
      OBVIOUS
    <3>2. q + 1 =< 0 /\ u > 0 => (q + 1) * u =< 0
      OBVIOUS
    <3> QED
      BY <3>1, <3>2
  <2> QED
    BY <1>2, <2>1
<1>4. (q + 1) * u = q * u + u
  OBVIOUS
<1> QED
  BY <1>1, <1>2, <1>3, <1>4

\* What a PDU announces, it carries.
Announces(p) == FirstBit(p) + CharBits(p.coding) * CharsRead(p) <= 8 * (p.from + p.len)

LEMMA CreatedPdu ==
  ASSUME NEW d \in Seq(Digits), NEW c \in Codings, NEW f \in Nat, NEW l \in Nat,
         NEW r \in Nat, NEW count \in Nat, NEW no \in Nat
  PROVE  Announces(create_pdu_impl(d, c, f, l, r, count, no))
<1> SUFFICES ASSUME NEW p, p = create_pdu_impl(d, c, f, l, r, count, no)
             PROVE  Announces(p)
  OBVIOUS
<1>1. /\ p.from = f /\ p.len = l /\ p.coding = c /\ p.ref = r
      /\ p.udl = data_len(c, l, r)
  BY DEF create_pdu_impl
<1>2. CASE c = "ucs2"
  <2>1. /\ FirstBit(p) = 8 * f /\ CharBits(c) = 16
        /\ CharsRead(p) = l \div 2
    BY <1>1, <1>2 DEF FirstBit, CharBits, CharsRead, data_len, UDH
  <2> QED
    BY <1>1, <2>1 DEF Announces
<1>3. CASE c = "7bit" /\ r = 0
  <2>1. /\ FirstBit(p) = 8 * f /\ CharBits(c) = 7
        /\ CharsRead(p) = (l \div 7) * 8
    BY <1>1, <1>3 DEF FirstBit, CharBits, CharsRead, data_len, UDH
  <2> QED
    BY <1>1, <2>1 DEF Announces
<1>4. CASE c = "7bit" /\ r # 0
  <2>1. /\ FirstBit(p) = 8 * f + 1 /\ CharBits(c) = 7
        /\ CharsRead(p) = (l \div 7) * 8 - 1
    BY <1>1, <1>4 DEF FirstBit, CharBits, CharsRead, data_len, UDH
  <2> QED
    BY <1>1, <2>1 DEF Announces
<1> QED
  BY <1>1, <1>2, <1>3, <1>4 DEF Codings

Pdus == [da : Seq(0..15), coding : Codings, ref : Nat, parts : Nat, no : Nat,
         udl : Nat, from : Nat, len : Nat]

LEMMA CreatedType ==
  ASSUME NEW d \in Seq(Digits), NEW c \in Codings, NEW f \in Nat, NEW l \in Nat,
         NEW r \in Nat, NEW count \in Nat, NEW no \in Nat
  PROVE  create_pdu_impl(d, c, f, l, r, count, no) \in Pdus
<1>1. encode_semi_octets(d) \in Seq(0..15)
  <2>1. PICK n \in Nat : n = 2 * ((Len(d) + 1) \div 2) /\ n =< Len(d) + 1
    OBVIOUS
  <2>2. ASSUME NEW k \in 1..n
        PROVE  (IF k % 2 = 0 THEN d[k - 1]
                ELSE IF k < Len(d) THEN d[k + 1] ELSE Filler) \in 0..15
    <3>1. \A j \in 1..Len(d) : d[j] \in 0..9
      BY DEF Digits
    <3>2. CASE k % 2 = 0
      <4>1. k - 1 \in 1..Len(d)
        BY <2>1, <3>2
      <4> QED
        BY <3>1, <3>2, <4>1
    <3>3. CASE k % 2 # 0 /\ k < Len(d)
      BY <3>1, <3>3
    <3>4. CASE k % 2 # 0 /\ ~ (k < Len(d))
      BY <3>4 DEF Filler
    <3> QED
      BY <3>2, <3>3, <3>4
  <2>3. encode_semi_octets(d) = [k \in 1..n |->
           IF k % 2 = 0 THEN d[k - 1]
           ELSE IF k < Len(d) THEN d[k + 1] ELSE Filler]
    BY <2>1 DEF encode_semi_octets
  <2>4. encode_semi_octets(d) \in [1..n -> 0..15]
    BY <2>2, <2>3
  <2> QED
    BY <2>4
<1>2. data_len(c, l, r) \in Nat
  BY DEF data_len, UDH
<1> QED
  BY <1>1, <1>2 DEF create_pdu_impl, Pdus
=============================================================================
