---------------------------- MODULE SequenceLemmas ----------------------------
(***************************************************************************)
(* What the proofs of several components need of numbers and sequences.    *)
(***************************************************************************)
EXTENDS Integers, SequencesExt, SequenceTheorems, WellFoundedInduction, TLAPS

\* The least-number principle, without an operator as its parameter.
LEMMA LeastNumber ==
  ASSUME NEW T, T \subseteq Nat, T # {}
  PROVE  \E n \in T : \A i \in T : n <= i
  <1> DEFINE R == {ss \in Nat \X Nat : ss[1] < ss[2]}
  <1>1. IsWellFoundedOn(R, Nat)
    BY NatLessThanWellFounded DEF OpToRel
  <1> HIDE DEF R
  <1>2. PICK n \in T : \A i \in T : <<i, n>> \notin R
    BY <1>1, WFMin
  <1>3. \A i \in T : n <= i
    <2> SUFFICES ASSUME NEW i \in T PROVE ~(i < n)
      OBVIOUS
    <2>1. <<i, n>> \in Nat \X Nat /\ <<i, n>> \notin R
      BY <1>2
    <2> QED  BY <2>1 DEF R
  <1> QED  BY <1>3

\* A part of what follows the first e elements.
LEMMA SubSeqOfSuffix ==
  ASSUME NEW S, NEW y \in Seq(S), NEW e \in 0..Len(y), NEW p \in e..Len(y), NEW q \in e..Len(y)
  PROVE  SubSeq(SubSeq(y, e + 1, Len(y)), (p - e) + 1, q - e) = SubSeq(y, p + 1, q)
  <1>1. Len(y) \in Nat /\ p - e \in Nat /\ q - e \in Nat
    OBVIOUS
  <1> DEFINE z == SubSeq(y, e + 1, Len(y))
             u == SubSeq(z, (p - e) + 1, q - e)
             v == SubSeq(y, p + 1, q)
  <1>2. z \in Seq(S) /\ Len(z) = Len(y) - e /\ \A i \in 1..(Len(y) - e) : z[i] = y[e + i]
    BY <1>1
  <1> HIDE DEF z
  <1>3. u \in Seq(S) /\ v \in Seq(S)
    BY <1>1, <1>2, SubSeqProperties, ElementOfSeq
  <1>4. CASE q <= p
    <2>1. u = << >> /\ v = << >>
      BY <1>1, <1>4, SubSeqEmpty
    <2> QED  BY <2>1 DEF z
  <1>5. CASE p < q
    <2>1. Len(u) = q - p /\ Len(v) = q - p
      BY <1>1, <1>2, <1>5
    <2>2. ASSUME NEW i \in 1..(q - p) PROVE u[i] = v[i]
      <3>1. u[i] = z[(p - e) + i]
        <4>1. (p - e) + 1 \in Int /\ q - e \in Int /\ i \in 1..((q - e) - ((p - e) + 1) + 1)
          BY <1>1
        <4>2. (p - e) + 1 + i - 1 = (p - e) + i
          BY <1>1
        <4> QED  BY <1>1, <1>2, <4>1, <4>2
      <3>3. v[i] = y[p + i]
        BY <1>1, <1>5
      <3>2. (p - e) + i \in 1..(Len(y) - e) /\ e + ((p - e) + i) = p + i
        BY <1>1, <1>5
      <3> QED  BY <1>2, <3>1, <3>2, <3>3
    <2> HIDE DEF u, v
    <2>3. u = v
      BY <1>3, <2>1, <2>2, SeqEqual
    <2> QED  BY <2>3 DEF u, v, z
  <1> QED  BY <1>1, <1>4, <1>5

\* The first element may as well be taken by what comes before.
LEMMA HeadMoves ==
  ASSUME NEW S, NEW s \in Seq(S), s # << >>, NEW t \in Seq(S)
  PROVE  /\ Head(s) \in S /\ Tail(s) \in Seq(S) /\ Append(t, Head(s)) \in Seq(S)
         /\ Append(t, Head(s)) \o Tail(s) = t \o s
  <1>1. Head(s) \in S /\ Tail(s) \in Seq(S) /\ <<Head(s)>> \in Seq(S)
    BY HeadTailProperties
  <1>2. Append(t, Head(s)) = t \o <<Head(s)>> /\ Append(t, Head(s)) \in Seq(S)
    BY <1>1, AppendIsConcat, AppendProperties
  <1>3. <<Head(s)>> \o Tail(s) = s
    <2>1. Len(s) \in Nat \ {0}
      BY EmptySeq
    <2>2. Head(s) = s[1] /\ Tail(s) = SubSeq(s, 2, Len(s)) /\ SubSeq(s, 1, Len(s)) = s
      BY TailIsSubSeq, SubSeqFull
    <2>3. SubSeq(s, 1, Len(s)) = <<s[1]>> \o SubSeq(s, 1 + 1, Len(s))
      BY <2>1, SubSeqRecursiveFirst
    <2> QED  BY <2>2, <2>3
  <1>4. (t \o <<Head(s)>>) \o Tail(s) = t \o (<<Head(s)>> \o Tail(s))
    BY <1>1, ConcatAssociative
  <1> QED  BY <1>1, <1>2, <1>3, <1>4

\* What precedes and what follows the place e.
Before(y, e) == SubSeq(y, 1, e - 1)
After(y, e) == SubSeq(y, e + 1, Len(y))
Joined(s, t) == s \o t
Three(r, s, x) == (r \o s) \o x

\* What follows a place is known by its elements.
LEMMA AfterByElements ==
  ASSUME NEW S, NEW y \in Seq(S), NEW u \in Seq(S), NEW e \in 0..Len(y), Len(u) = Len(y) - e,
         \A i \in 1..Len(u) : u[i] = y[e + i]
  PROVE  After(y, e) = u
  <1>1. Len(y) \in Nat /\ \A i \in 1..Len(y) : y[i] \in S
    BY LenProperties, ElementOfSeq
  <1> DEFINE z == SubSeq(y, e + 1, Len(y))
  <1>2. z \in Seq(S) /\ Len(z) = Len(y) - e /\ \A i \in 1..(Len(y) - e) : z[i] = y[e + i]
    BY <1>1
  <1> HIDE DEF z
  <1>3. z = u
    BY <1>2, SeqEqual
  <1> QED  BY <1>3 DEF z, After

\* What precedes and what follows a place in the first of three parts.
LEMMA PartsOfThree ==
  ASSUME NEW S, NEW r \in Seq(S), NEW s \in Seq(S), NEW x \in Seq(S), NEW e \in 1..Len(r)
  PROVE  /\ Three(r, s, x) \in Seq(S) /\ Len(r) <= Len(Three(r, s, x))
         /\ \A i \in 1..Len(r) : Three(r, s, x)[i] = r[i]
         /\ Before(Three(r, s, x), e) = Before(r, e)
         /\ After(Three(r, s, x), e) = Three(After(r, e), s, x)
  <1>1. Len(r) \in Nat /\ \A i \in 1..Len(r) : r[i] \in S
    BY LenProperties, ElementOfSeq
  <1>2. ASSUME NEW p \in Seq(S)
        PROVE  /\ Three(p, s, x) = p \o (s \o x) /\ s \o x \in Seq(S)
               /\ Three(p, s, x) \in Seq(S) /\ Len(Three(p, s, x)) = Len(p) + Len(s \o x)
               /\ \A i \in 1..(Len(p) + Len(s \o x)) :
                    Three(p, s, x)[i] = IF i <= Len(p) THEN p[i] ELSE (s \o x)[i - Len(p)]
    <2>1. (p \o s) \o x = p \o (s \o x)
      OBVIOUS
    <2>2. s \o x \in Seq(S)
      BY ConcatProperties
    <2> DEFINE t == s \o x
    <2> HIDE DEF t
    <2>3. /\ p \o t \in Seq(S) /\ Len(p \o t) = Len(p) + Len(t)
          /\ \A i \in 1..(Len(p) + Len(t)) : (p \o t)[i] = IF i <= Len(p) THEN p[i] ELSE t[i - Len(p)]
      BY <2>2, ConcatProperties DEF t
    <2> QED  BY <2>1, <2>2, <2>3 DEF t, Three
  <1> DEFINE y == Three(r, s, x)
             z == After(r, e)
             u == Three(z, s, x)
             n == Len(s \o x)
  <1>3. z \in Seq(S) /\ Len(z) = Len(r) - e /\ \A i \in 1..(Len(r) - e) : z[i] = r[e + i]
    BY <1>1 DEF After
  <1>4. n \in Nat
    BY <1>2, LenProperties
  <1> DEFINE t == s \o x
  <1> HIDE DEF t, z, n
  <1>5. /\ y \in Seq(S) /\ Len(y) = Len(r) + n
        /\ \A i \in 1..(Len(r) + n) : y[i] = IF i <= Len(r) THEN r[i] ELSE t[i - Len(r)]
    BY <1>2 DEF t, n
  <1>6. /\ u \in Seq(S) /\ Len(u) = (Len(r) - e) + n
        /\ \A i \in 1..((Len(r) - e) + n) : u[i] = IF i <= Len(r) - e THEN z[i] ELSE t[i - (Len(r) - e)]
    BY ZenonT(40), <1>2, <1>3 DEF t, n
  <1> HIDE DEF y, u
  <1>7. After(y, e) = u
    <2>1. e \in 0..Len(y) /\ Len(u) = Len(y) - e
      BY <1>1, <1>4, <1>5, <1>6
    <2>2. ASSUME NEW i \in 1..Len(u) PROVE u[i] = y[e + i]
      <3>1. CASE i <= Len(r) - e
        <4>1. u[i] = z[i] /\ z[i] = r[e + i] /\ e + i <= Len(r) /\ e + i \in 1..(Len(r) + n)
          BY SMTT(40), <1>1, <1>3, <1>4, <1>6, <3>1
        <4> QED  BY <1>5, <4>1
      <3>2. CASE ~(i <= Len(r) - e)
        <4>1. u[i] = t[i - (Len(r) - e)] /\ ~(e + i <= Len(r)) /\ e + i \in 1..(Len(r) + n)
              /\ (e + i) - Len(r) = i - (Len(r) - e)
          BY <1>1, <1>4, <1>6, <3>2
        <4> QED  BY <1>5, <4>1
      <3> QED  BY <3>1, <3>2
    <2> QED  BY <1>5, <1>6, <2>1, <2>2, AfterByElements
  <1>8. Len(r) <= Len(y) /\ \A i \in 1..Len(r) : y[i] = r[i]
    BY <1>1, <1>4, <1>5
  <1>9. Before(y, e) = Before(r, e)
    <2>1. /\ SubSeq(r, 1, e - 1) \in Seq(S) /\ Len(SubSeq(r, 1, e - 1)) = e - 1
          /\ \A i \in 1..(e - 1) : SubSeq(r, 1, e - 1)[i] = r[i]
      BY <1>1
    <2>2. /\ SubSeq(y, 1, e - 1) \in Seq(S) /\ Len(SubSeq(y, 1, e - 1)) = e - 1
          /\ \A i \in 1..(e - 1) : SubSeq(y, 1, e - 1)[i] = y[i]
      BY <1>1, <1>4, <1>5
    <2>3. \A i \in 1..(e - 1) : y[i] = r[i]
      BY <1>1, <1>8
    <2> QED  BY <2>1, <2>2, <2>3, SeqEqual DEF Before
  <1> QED  BY <1>5, <1>7, <1>8, <1>9 DEF y, u, z

\* A prefix is known by its elements.
LEMMA PrefixByElements ==
  ASSUME NEW S, NEW s \in Seq(S), NEW t \in Seq(S), Len(s) <= Len(t),
         \A i \in 1..Len(s) : s[i] = t[i]
  PROVE  IsPrefix(s, t)
  <1>1. Len(s) \in Nat /\ Len(t) \in Nat /\ \A i \in 1..Len(t) : t[i] \in S
    BY LenProperties, ElementOfSeq
  <1> DEFINE u == SubSeq(t, 1, Len(s))
  <1>2. u \in Seq(S) /\ Len(u) = Len(s) /\ \A i \in 1..Len(s) : u[i] = t[i]
    <2>1. \A i \in 1..Len(s) : t[i] \in S
      BY <1>1
    <2> QED  BY <1>1, <2>1, SubSeqProperties
  <1> HIDE DEF u
  <1>3. s = u
    BY <1>2, SeqEqual
  <1> QED  BY <1>3, SubSeqFull DEF IsPrefix, u

LEMMA HeadMovesAfter ==
  ASSUME NEW S, NEW s \in Seq(S), s # << >>, NEW t \in Seq(S), NEW w \in Seq(S)
  PROVE  (w \o Append(t, Head(s))) \o Tail(s) = (w \o t) \o s
  <1>1. Tail(s) \in Seq(S) /\ Append(t, Head(s)) \in Seq(S) /\ Append(t, Head(s)) \o Tail(s) = t \o s
    BY HeadMoves
  <1>2. ASSUME NEW p \in Seq(S), NEW q \in Seq(S) PROVE (w \o p) \o q = w \o (p \o q)
    OBVIOUS
  <1>3. (w \o Append(t, Head(s))) \o Tail(s) = w \o (Append(t, Head(s)) \o Tail(s))
    BY <1>1, <1>2
  <1>4. (w \o t) \o s = w \o (t \o s)
    BY <1>2
  <1> QED  BY <1>1, <1>3, <1>4

\* Nothing follows a single element.
LEMMA TailOfOne ==
  ASSUME NEW S, NEW s \in Seq(S), Len(s) = 1
  PROVE  s # << >> /\ Tail(s) = << >>
  <1>1. s # << >>
    OBVIOUS
  <1>2. Tail(s) \in Seq(S) /\ Len(Tail(s)) = 0
    BY <1>1, HeadTailProperties
  <1> QED  BY <1>1, <1>2, EmptySeq

\* Elements pass from one of three parts to the one before it.
LEMMA ThreeMove ==
  ASSUME NEW S, NEW p \in Seq(S), NEW q \in Seq(S), NEW r \in Seq(S)
  PROVE  /\ Three(p, q, r) \in Seq(S) /\ IsPrefix(p \o q, Three(p, q, r))
         /\ Three(p, << >>, q \o r) = Three(p, q, r)
         /\ q # << >> => Three(Append(p, Head(q)), Tail(q), r) = Three(p, q, r)
  <1>1. ASSUME NEW a \in Seq(S), NEW b \in Seq(S), NEW d \in Seq(S)
        PROVE  (a \o b) \o d = a \o (b \o d)
    BY SMTT(30)
  <1>2. \A a, b \in Seq(S) : a \o b \in Seq(S)
    BY ConcatProperties
  <1>3. Three(p, q, r) \in Seq(S)
    BY <1>2 DEF Three
  <1>4. IsPrefix(p \o q, Three(p, q, r))
    <2> DEFINE a == p \o q
    <2>1. a \in Seq(S)
      BY <1>2
    <2> HIDE DEF a
    <2>2. /\ a \o r \in Seq(S) /\ Len(a \o r) = Len(a) + Len(r) /\ Len(a) \in Nat /\ Len(r) \in Nat
          /\ \A i \in 1..(Len(a) + Len(r)) : (a \o r)[i] = IF i <= Len(a) THEN a[i] ELSE r[i - Len(a)]
      BY <2>1, ConcatProperties, LenProperties
    <2>3. Len(a) <= Len(a \o r) /\ \A i \in 1..Len(a) : a[i] = (a \o r)[i]
      BY <2>2
    <2>4. IsPrefix(a, a \o r)
      BY <2>1, <2>2, <2>3, PrefixByElements
    <2> QED  BY <2>4 DEF a, Three
  <1>6. Three(p, << >>, q \o r) = Three(p, q, r)
    <2>1. p \o << >> = p
      BY ConcatEmptySeq
    <2>2. p \o (q \o r) = (p \o q) \o r
      BY <1>1
    <2> QED  BY <2>1, <2>2 DEF Three
  <1>7. ASSUME q # << >> PROVE Three(Append(p, Head(q)), Tail(q), r) = Three(p, q, r)
    <2>1. Append(p, Head(q)) \o Tail(q) = p \o q
      BY <1>7, HeadMoves
    <2> QED  BY <2>1 DEF Three
  <1> QED  BY <1>3, <1>4, <1>6, <1>7

\* The third part, or the second, becomes longer.
LEMMA ThreeLonger ==
  ASSUME NEW S, NEW p \in Seq(S), NEW q \in Seq(S), NEW r \in Seq(S), NEW s \in Seq(S)
  PROVE  /\ Joined(r, s) \in Seq(S) /\ Three(p, q, Joined(r, s)) = Joined(Three(p, q, r), s)
         /\ Joined(q, s) \in Seq(S) /\ Three(p, Joined(q, s), r) = Three(p, q, Joined(s, r))
  <1>1. ASSUME NEW a \in Seq(S), NEW b \in Seq(S), NEW d \in Seq(S)
        PROVE  (a \o b) \o d = a \o (b \o d)
    BY SMTT(30)
  <1>2. \A a, b \in Seq(S) : a \o b \in Seq(S)
    BY ConcatProperties
  <1> DEFINE v == p \o q
  <1>3. v \in Seq(S)
    BY <1>2
  <1> HIDE DEF v
  <1>4. v \o (r \o s) = (v \o r) \o s
    BY <1>1, <1>3
  <1>5. (v \o s) \o r = v \o (s \o r) /\ p \o (q \o s) = v \o s
    <2>1. (v \o s) \o r = v \o (s \o r)
      BY <1>1, <1>3
    <2>2. (p \o q) \o s = p \o (q \o s)
      BY <1>1
    <2> QED  BY <2>1, <2>2 DEF v
  <1> QED  BY <1>2, <1>4, <1>5 DEF v, Three, Joined

LEMMA LastOfAppended ==
  ASSUME NEW S, NEW s \in Seq(S), NEW a \in S, NEW b \in S
  PROVE  /\ s \o <<a, b>> \in Seq(S) /\ s \o <<a, b>> # << >> /\ Last(s \o <<a, b>>) = b
         /\ Len(s \o <<a, b>>) = Len(s) + 2 /\ Len(s) \in Nat
         /\ \A i \in 1..Len(s) : (s \o <<a, b>>)[i] = s[i]
         /\ (s \o <<a, b>>)[Len(s) + 1] = a /\ (s \o <<a, b>>)[Len(s) + 2] = b
  <1> DEFINE t == <<a, b>>
  <1>1. t \in Seq(S) /\ Len(t) = 2 /\ t[1] = a /\ t[2] = b
    OBVIOUS
  <1> HIDE DEF t
  <1> DEFINE u == s \o t
  <1>2. /\ u \in Seq(S) /\ Len(u) = Len(s) + 2 /\ Len(s) \in Nat
        /\ \A i \in 1..(Len(s) + 2) : u[i] = IF i <= Len(s) THEN s[i] ELSE t[i - Len(s)]
    <2>1. /\ u \in Seq(S) /\ Len(u) = Len(s) + Len(t) /\ Len(s) \in Nat
          /\ \A i \in 1..(Len(s) + Len(t)) : u[i] = IF i <= Len(s) THEN s[i] ELSE t[i - Len(s)]
      BY <1>1, ConcatProperties, LenProperties
    <2> HIDE DEF u
    <2> QED  BY <1>1, <2>1
  <1> HIDE DEF u
  <1>3. /\ \A i \in 1..Len(s) : u[i] = s[i]
        /\ u[Len(s) + 1] = a /\ u[Len(s) + 2] = b
    BY SMTT(40), <1>1, <1>2
  <1>4. u # << >>
    BY <1>2, EmptySeq
  <1>5. Last(u) = b
    BY <1>2, <1>3 DEF Last
  <1> QED  BY <1>2, <1>3, <1>4, <1>5 DEF t, u

\* Where an element goes when another one is inserted at p.
NewPlace(p, i) == IF i < p THEN i ELSE i + 1

\* What stands where in a sequence with an element inserted.
LEMMA InsertAtPlaces ==
  ASSUME NEW S, NEW s \in Seq(S), NEW e \in S, NEW p \in 1..(Len(s) + 1)
  PROVE  /\ InsertAt(s, p, e) \in Seq(S) /\ Len(InsertAt(s, p, e)) = Len(s) + 1
         /\ InsertAt(s, p, e)[p] = e
         /\ \A i \in 1..Len(s) : InsertAt(s, p, e)[NewPlace(p, i)] = s[i]
  <1> DEFINE a == SubSeq(s, 1, p - 1)
             b == SubSeq(s, p, Len(s))
             c == a \o <<e>>
  <1>1. Len(s) \in Nat /\ p \in Nat /\ 1 <= p /\ p <= Len(s) + 1
    BY LenProperties
  <1>2. InsertAt(s, p, e) = c \o b
    BY DEF InsertAt
  <1>3. \A i \in 1..Len(s) : s[i] \in S
    BY ElementOfSeq
  <1>4. a \in Seq(S) /\ Len(a) = p - 1 /\ \A i \in 1..(p - 1) : a[i] = s[i]
    <2>1. \A i \in 1..(p - 1) : s[i] \in S
      BY <1>1, <1>3
    <2> QED  BY <1>1, <2>1
  <1>5. b \in Seq(S) /\ Len(b) = Len(s) - p + 1
        /\ \A i \in 1..(Len(s) - p + 1) : b[i] = s[p + i - 1]
    <2>1. \A i \in p..Len(s) : s[i] \in S
      BY <1>1, <1>3
    <2> QED  BY <1>1, <2>1
  <1> HIDE DEF a, b
  <1>6. <<e>> \in Seq(S) /\ Len(<<e>>) = 1 /\ <<e>>[1] = e
    OBVIOUS
  <1>7. c \in Seq(S) /\ Len(c) = p /\ c[p] = e /\ \A i \in 1..(p - 1) : c[i] = s[i]
    <2>1. /\ c \in Seq(S) /\ Len(c) = (p - 1) + 1
          /\ \A i \in 1..((p - 1) + 1) : c[i] = IF i <= p - 1 THEN a[i] ELSE <<e>>[i - (p - 1)]
      BY <1>4, <1>6, ConcatProperties
    <2>2. (p - 1) + 1 = p /\ p - (p - 1) = 1 /\ ~(p <= p - 1) /\ p \in 1..p
      BY <1>1
    <2>3. \A i \in 1..(p - 1) : i \in 1..p /\ i <= p - 1
      BY <1>1
    <2> QED  BY <1>4, <1>6, <2>1, <2>2, <2>3
  <1> HIDE DEF c
  <1>8. /\ c \o b \in Seq(S) /\ Len(c \o b) = Len(c) + Len(b)
        /\ \A i \in 1..(Len(c) + Len(b)) : (c \o b)[i] = IF i <= Len(c) THEN c[i] ELSE b[i - Len(c)]
    BY <1>5, <1>7, ConcatProperties
  <1>9. Len(c) + Len(b) = Len(s) + 1
    BY <1>1, <1>5, <1>7
  <1>10. (c \o b)[p] = e
    BY <1>1, <1>7, <1>8, <1>9
  <1>11. ASSUME NEW i \in 1..Len(s) PROVE (c \o b)[NewPlace(p, i)] = s[i]
    <2>1. CASE i < p
      <3>1. i \in 1..(Len(s) + 1) /\ i \in 1..(p - 1) /\ i <= p
        BY ONLY <1>1, <2>1, i \in 1..Len(s)
      <3>2. (c \o b)[i] = c[i]
        BY ONLY <1>7, <1>8, <1>9, <3>1
      <3>3. c[i] = s[i] /\ NewPlace(p, i) = i
        BY ONLY <1>7, <2>1, <3>1 DEF NewPlace
      <3> QED  BY ONLY <3>2, <3>3
    <2>2. CASE ~(i < p)
      <3>1. /\ NewPlace(p, i) = i + 1 /\ i + 1 \in 1..(Len(s) + 1) /\ ~(i + 1 <= p)
            /\ (i + 1) - p \in 1..(Len(s) - p + 1) /\ p + ((i + 1) - p) - 1 = i
        BY ONLY <1>1, <2>2, i \in 1..Len(s) DEF NewPlace
      <3>2. (c \o b)[i + 1] = b[(i + 1) - p]
        BY ONLY <1>7, <1>8, <1>9, <3>1
      <3>3. b[(i + 1) - p] = s[i]
        BY ONLY <1>5, <3>1
      <3> QED  BY ONLY <3>1, <3>2, <3>3
    <2> QED  BY <2>1, <2>2
  <1> QED  BY <1>2, <1>8, <1>9, <1>10, <1>11
=============================================================================
