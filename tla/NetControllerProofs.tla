------------------------- MODULE NetControllerProofs -------------------------
(***************************************************************************)
(* Proofs about NetController.  What holds of any number of overlapping    *)
(* processes, for any users, commands and starting chain and with popen    *)
(* failing at any time, comes first; then what holds as long as no line    *)
(* number is out of date; then what holds of one command at a time.        *)
(***************************************************************************)
EXTENDS NetRefinement, SequenceTheorems, NaturalsInduction, WellFoundedInduction, TLAPS
------------------------------------------------------------------------------
(* Sequences. *)

\* Induction, with a set in the place of the property: a set of numbers that is
\* not empty has a least element.
LEMMA NatLeast == ASSUME NEW T, T \subseteq Nat, T # {}
    PROVE  \E x \in T : \A y \in T : x <= y
<1>1. IsWellFoundedOn(OpToRel(<,Nat), Nat)
  BY NatLessThanWellFounded
<1>2. \E x \in T : \A y \in T : ~(<<y,x>> \in OpToRel(<,Nat))
  BY <1>1, WFMin
<1>3. ASSUME NEW x \in Nat, NEW y \in Nat, ~(<<y,x>> \in OpToRel(<,Nat)) PROVE x <= y
  BY <1>3 DEF OpToRel
<1> QED BY <1>2, <1>3

\* A set of numbers with 0, closed under +1, is Nat.
LEMMA NatSet ==
    ASSUME NEW T, T \subseteq Nat, 0 \in T, \A n \in T : n + 1 \in T
    PROVE  T = Nat
<1> SUFFICES ASSUME T # Nat PROVE FALSE
  OBVIOUS
<1>1. PICK x \in Nat \ T : \A y \in Nat \ T : x <= y
  BY NatLeast
<1>2. x # 0 /\ x - 1 \in Nat
  BY <1>1
<1>3. x - 1 \in T
  BY <1>1, <1>2
<1> QED BY <1>1, <1>2, <1>3

\* The function of Only up to place m: the elements picked from s[1], ..., s[n].
IsPass(g, s, K, m) == g = [n \in 0..m |-> IF n = 0 THEN << >>
                              ELSE IF s[n] \in K THEN Append(g[n - 1], s[n]) ELSE g[n - 1]]

LEMMA OnlyDef ==
    ASSUME NEW s, NEW K
    PROVE  Only(s,K) = (CHOOSE g : IsPass(g, s, K, Len(s)))[Len(s)]
BY DEF Only, IsPass

\* Such a function exists.
LEMMA PassStep ==
    ASSUME NEW s, NEW K, NEW m \in Nat, NEW g, IsPass(g, s, K, m)
    PROVE  \E h : IsPass(h, s, K, m + 1)
<1> DEFINE h == [n \in 0..(m+1) |-> IF n = m + 1 THEN (IF s[n] \in K THEN Append(g[n - 1], s[n]) ELSE g[n - 1]) ELSE g[n]]
<1>1. ASSUME NEW n \in 0..(m+1)
      PROVE  h[n] = (IF n = 0 THEN << >> ELSE IF s[n] \in K THEN Append(h[n - 1], s[n]) ELSE h[n - 1])
  <2>1. CASE n = m + 1
    <3>1. n # 0 /\ n - 1 \in 0..(m+1) /\ n - 1 # m + 1
      BY <2>1
    <3>2. h[n-1] = g[n-1]
      BY <3>1
    <3> HIDE DEF h
    <3>3. h[n] = (IF s[n] \in K THEN Append(g[n - 1], s[n]) ELSE g[n - 1])
      BY <2>1 DEF h
    <3> QED BY <3>1, <3>2, <3>3
  <2>2. CASE n = 0
    <3>1. n # m + 1 /\ n \in 0..m
      BY <2>2
    <3>2. h[n] = g[n]
      BY <3>1
    <3>3. g[n] = << >>
      BY <3>1, <2>2 DEF IsPass
    <3> HIDE DEF h
    <3> QED BY <3>2, <3>3, <2>2
  <2>3. CASE n # 0 /\ n # m + 1
    <3>1. n \in 0..m /\ n - 1 \in 0..m /\ n - 1 \in 0..(m+1) /\ n-1 # m+1
      BY <2>3
    <3>2. h[n] = g[n] /\ h[n-1] = g[n-1]
      BY <3>1, <2>3
    <3>3. g[n] = (IF s[n] \in K THEN Append(g[n - 1], s[n]) ELSE g[n - 1])
      BY <3>1, <2>3 DEF IsPass
    <3> HIDE DEF h
    <3> QED BY <3>2, <3>3, <2>3
  <2> QED BY <2>1, <2>2, <2>3
<1>2. h = [n \in 0..(m+1) |-> h[n]]
  OBVIOUS
<1> HIDE DEF h
<1>3. h = [n \in 0..(m+1) |-> IF n = 0 THEN << >> ELSE IF s[n] \in K THEN Append(h[n - 1], s[n]) ELSE h[n - 1]]
  BY <1>1, <1>2
<1> QED BY <1>3 DEF IsPass

LEMMA PassExists == ASSUME NEW s, NEW K, NEW m \in Nat PROVE \E g : IsPass(g, s, K, m)
<1> DEFINE T == {k \in Nat : \E g : IsPass(g, s, K, k)}
<1>1. 0 \in T
  <2>1. IsPass([n \in 0..0 |-> << >>], s, K, 0)
    BY DEF IsPass
  <2> QED BY <2>1
<1>2. \A k \in T : k + 1 \in T
  BY PassStep
<1> HIDE DEF T
<1>3. T = Nat
  <2>1. T \subseteq Nat BY DEF T
  <2> QED BY <1>1, <1>2, <2>1, NatSet
<1> QED BY <1>3 DEF T

\* Only is computed from the left: for the empty sequence and for one more element.
LEMMA OnlyEmpty == ASSUME NEW K PROVE Only(<< >>, K) = << >>
<1> DEFINE g == CHOOSE g : IsPass(g, << >>, K, 0)
<1>1. IsPass(g, << >>, K, 0)
  BY PassExists
<1>2. Only(<< >>, K) = g[0]
  BY OnlyDef
<1> HIDE DEF g
<1>3. g[0] = << >>
  BY <1>1 DEF IsPass
<1> QED BY <1>2, <1>3

LEMMA OnlyIs ==
    ASSUME NEW s, NEW K, NEW m \in Nat, m = Len(s)
    PROVE  \E g : IsPass(g, s, K, m) /\ Only(s, K) = g[m]
BY OnlyDef, PassExists

LEMMA OnlyAppend ==
    ASSUME NEW S, NEW s \in Seq(S), NEW e \in S, NEW K
    PROVE  Only(Append(s, e), K) = IF e \in K THEN Append(Only(s, K), e) ELSE Only(s, K)
<1> DEFINE m == Len(s)
           t == Append(s, e)
<1>1. /\ m \in Nat
      /\ Len(t) = m + 1
      /\ t[m + 1] = e
      /\ \A n \in 1..m : s[n] = t[n]
  OBVIOUS
<1>2. PICK g : IsPass(g, s, K, m) /\ Only(s, K) = g[m]
  BY <1>1, OnlyIs
<1> HIDE DEF t
<1>3. PICK h : IsPass(h, t, K, m + 1) /\ Only(t, K) = h[m + 1]
  BY <1>1, OnlyIs
<1> HIDE DEF m
<1>4. /\ m \in 0..m
      /\ m <= m + 1
      /\ m + 1 \in Nat
      /\ m + 1 \in 0..(m+1)
      /\ m + 1 # 0
      /\ (m + 1) - 1 = m
  BY <1>1
<1>5. g[m] = h[m]
  <2> DEFINE T == {k \in Nat : k <= m => g[k] = h[k]}
  <2>1. 0 \in T
    BY <1>1, <1>2, <1>3 DEF IsPass
  <2>2. ASSUME NEW k \in T PROVE k + 1 \in T
    <3> SUFFICES ASSUME k + 1 <= m PROVE g[k + 1] = h[k + 1]
      OBVIOUS
    <3>1. k \in Nat /\ k <= m => g[k] = h[k]
      OBVIOUS
    <3>2. /\ k \in Nat
          /\ k <= m
          /\ k + 1 \in 0..m
          /\ k + 1 \in 0..(m + 1)
          /\ (k + 1) - 1 = k
          /\ k + 1 # 0
          /\ k + 1 \in 1..m
      BY <1>1
    <3> HIDE DEF T
    <3>3. g[k + 1] = (IF s[k + 1] \in K THEN Append(g[k], s[k + 1]) ELSE g[k])
      BY <1>2, <3>2 DEF IsPass
    <3>4. h[k + 1] = (IF t[k + 1] \in K THEN Append(h[k], t[k + 1]) ELSE h[k])
      BY <1>3, <3>2 DEF IsPass
    <3> QED BY <1>1, <3>1, <3>2, <3>3, <3>4
  <2>3. T \subseteq Nat
    OBVIOUS
  <2> HIDE DEF T
  <2>4. m \in T
    BY <1>1, <2>1, <2>2, <2>3, NatSet
  <2> QED BY <2>4, <1>1 DEF T
<1>6. h[m + 1] = (IF t[m + 1] \in K THEN Append(h[m], t[m + 1]) ELSE h[m])
  BY <1>3, <1>4 DEF IsPass
<1> QED BY <1>1, <1>2, <1>3, <1>5, <1>6 DEF t

\* A set with the empty sequence, closed under Append, holds every sequence.
LEMMA SeqSet ==
    ASSUME NEW S, NEW T, << >> \in T, \A s \in Seq(S), e \in S : s \in T => Append(s, e) \in T
    PROVE  \A s \in Seq(S) : s \in T
<1> DEFINE N == {n \in Nat : \A s \in Seq(S) : Len(s) = n => s \in T}
<1>1. 0 \in N
  BY EmptySeq
<1>2. ASSUME NEW n \in N PROVE n + 1 \in N
  <2>1. n \in Nat /\ n + 1 \in Nat /\ \A s \in Seq(S) : Len(s) = n => s \in T
    OBVIOUS
  <2> SUFFICES ASSUME NEW s \in Seq(S), Len(s) = n + 1 PROVE s \in T
    BY <2>1
  <2> HIDE DEF N
  <2>2. s # << >>
    BY <2>1
  <2>3. PICK t \in Seq(S), e \in S : s = Append(t, e)
    BY <2>2, SequenceEmptyOrAppend
  <2>4. Len(t) = n
    BY <2>1, <2>3, AppendProperties
  <2> QED BY <2>1, <2>3, <2>4
<1>3. N \subseteq Nat
  OBVIOUS
<1> HIDE DEF N
<1>4. N = Nat
  BY <1>1, <1>2, <1>3, NatSet
<1> QED BY <1>4 DEF N

\* What is picked is a sequence of elements of s and of K.
LEMMA OnlyIn ==
    ASSUME NEW S, NEW K
    PROVE  \A s \in Seq(S) : Only(s, K) \in Seq(S) /\ Only(s, K) \in Seq(K) /\ Len(Only(s, K)) <= Len(s)
<1> DEFINE Fine(s) == Only(s, K) \in Seq(S) /\ Only(s, K) \in Seq(K) /\ Len(Only(s, K)) <= Len(s)
           T == {s \in Seq(S) : Fine(s)}
<1>1. << >> \in T
  <2>1. << >> \in Seq(S) /\ << >> \in Seq(K) /\ Len(<< >>) <= Len(<< >>)
    BY EmptySeq
  <2> QED BY <2>1, OnlyEmpty
<1>2. ASSUME NEW s \in Seq(S), NEW e \in S, s \in T PROVE Append(s, e) \in T
  <2>1. /\ Fine(s)
        /\ Append(s, e) \in Seq(S)
        /\ Len(Append(s, e)) = Len(s) + 1
        /\ Len(s) \in Nat
    BY <1>2
  <2>2. CASE e \in K
    <3>1. Only(Append(s, e), K) = Append(Only(s, K), e)
      BY <2>2, OnlyAppend
    <3> QED BY <2>1, <2>2, <3>1
  <2>3. CASE e \notin K
    <3>1. Only(Append(s, e), K) = Only(s, K)
      BY <2>3, OnlyAppend
    <3> QED BY <2>1, <2>3, <3>1
  <2> QED BY <2>2, <2>3
<1> HIDE DEF T
<1>3. \A s \in Seq(S) : s \in T
  BY <1>1, <1>2, SeqSet
<1> QED BY <1>3 DEF T

\* A sequence of elements of K is picked whole.
LEMMA OnlyAll == ASSUME NEW K PROVE \A s \in Seq(K) : Only(s, K) = s
<1> DEFINE T == {s \in Seq(K) : Only(s, K) = s}
<1>1. << >> \in T
  BY OnlyEmpty, EmptySeq
<1>2. ASSUME NEW s \in Seq(K), NEW e \in K, s \in T PROVE Append(s, e) \in T
  <2>1. Only(s, K) = s /\ Append(s, e) \in Seq(K)
    BY <1>2
  <2>2. Only(Append(s, e), K) = Append(s, e)
    BY <2>1, OnlyAppend
  <2> QED BY <2>1, <2>2
<1> HIDE DEF T
<1>3. \A s \in Seq(K) : s \in T
  BY <1>1, <1>2, SeqSet
<1> QED BY <1>3 DEF T

\* What deleting line n does to a chain: the lines before it keep their number.
LEMMA RemoveAtProperties ==
    ASSUME NEW S, NEW s \in Seq(S), NEW n \in 1..Len(s)
    PROVE  /\ RemoveAt(s, n) \in Seq(S)
           /\ Len(RemoveAt(s, n)) = Len(s) - 1
           /\ \A i \in 1..(n - 1) : RemoveAt(s, n)[i] = s[i]
<1> DEFINE a == SubSeq(s, 1, n - 1)
           b == SubSeq(s, n + 1, Len(s))
<1>1. /\ a \in Seq(S)
      /\ Len(a) = n - 1
      /\ \A i \in 1..(n - 1) : a[i] = s[i]
  OBVIOUS
<1>2. /\ b \in Seq(S)
      /\ Len(b) = Len(s) - n
  OBVIOUS
<1>3. RemoveAt(s, n) = a \o b
  BY DEF RemoveAt
<1> HIDE DEF a, b
<1>4. a \o b \in Seq(S) /\ Len(a \o b) = Len(a) + Len(b)
  BY <1>1, <1>2, ConcatProperties
<1>5. \A i \in 1..(n - 1) : (a \o b)[i] = s[i]
  <2>1. \A i \in 1..Len(a) : (a \o b)[i] = a[i]
    BY <1>1, <1>2, ConcatProperties
  <2> QED BY <2>1, <1>1
<1>6. (n - 1) + (Len(s) - n) = Len(s) - 1
  BY LenProperties
<1>7. QED
  BY <1>1, <1>2, <1>3, <1>4, <1>5, <1>6

\* The elements after n move one place.
LEMMA RemoveAtAfter ==
    ASSUME NEW S, NEW s \in Seq(S), NEW n \in 1..Len(s)
    PROVE  \A i \in n..(Len(s) - 1) : RemoveAt(s, n)[i] = s[i + 1]
<1> DEFINE a == SubSeq(s, 1, n - 1)
           b == SubSeq(s, n + 1, Len(s))
<1>1. a \in Seq(S) /\ Len(a) = n - 1
  OBVIOUS
<1>2. b \in Seq(S) /\ Len(b) = Len(s) - n /\ \A j \in 1..(Len(s) - n) : b[j] = s[n + j]
  OBVIOUS
<1>3. RemoveAt(s, n) = a \o b
  BY DEF RemoveAt
<1> HIDE DEF a, b
<1>4. \A i \in (Len(a) + 1)..(Len(a) + Len(b)) : (a \o b)[i] = b[i - Len(a)]
  BY <1>1, <1>2, ConcatProperties
<1>5. ASSUME NEW i \in n..(Len(s) - 1) PROVE (a \o b)[i] = s[i + 1]
  <2>1. /\ i \in (Len(a) + 1)..(Len(a) + Len(b))
        /\ i - Len(a) \in 1..(Len(s) - n)
        /\ n + (i - Len(a)) = i + 1
    BY <1>1, <1>2
  <2>2. (a \o b)[i] = b[i - Len(a)]
    BY <1>4, <2>1
  <2> QED BY <1>2, <2>1, <2>2
<1> QED BY <1>3, <1>5

\* RemoveAt and Append.
LEMMA RemoveLast ==
    ASSUME NEW S, NEW s \in Seq(S), NEW e \in S
    PROVE  RemoveAt(Append(s, e), Len(s) + 1) = s
<1> DEFINE t == Append(s, e)
           n == Len(s) + 1
<1>1. t \in Seq(S) /\ Len(t) = n /\ n \in 1..Len(t) /\ \A i \in 1..Len(s) : t[i] = s[i]
  OBVIOUS
<1> HIDE DEF t
<1>2. /\ RemoveAt(t, n) \in Seq(S)
      /\ Len(RemoveAt(t, n)) = Len(s)
      /\ \A i \in 1..Len(s) : RemoveAt(t, n)[i] = t[i]
  <2>1. /\ RemoveAt(t, n) \in Seq(S)
        /\ Len(RemoveAt(t, n)) = Len(t) - 1
        /\ \A i \in 1..(n - 1) : RemoveAt(t, n)[i] = t[i]
    BY <1>1, RemoveAtProperties
  <2>2. Len(s) \in Nat /\ n - 1 = Len(s)
    OBVIOUS
  <2> QED BY <1>1, <2>1, <2>2
<1>3. RemoveAt(t, n) = s
  BY <1>1, <1>2, SeqEqual
<1> QED BY <1>3 DEF t

LEMMA RemoveInner ==
    ASSUME NEW S, NEW s \in Seq(S), NEW e \in S, NEW n \in 1..Len(s)
    PROVE  RemoveAt(Append(s, e), n) = Append(RemoveAt(s, n), e)
<1> DEFINE t == Append(s, e)
           r == RemoveAt(s, n)
           q == RemoveAt(t, n)
<1>1. /\ Len(s) \in Nat
      /\ t \in Seq(S)
      /\ Len(t) = Len(s) + 1
      /\ n \in 1..Len(t)
      /\ t[Len(s) + 1] = e
      /\ \A i \in 1..Len(s) : t[i] = s[i]
  OBVIOUS
<1> HIDE DEF t
<1>2. /\ q \in Seq(S)
      /\ Len(q) = Len(s)
      /\ (\A i \in 1..(n - 1) : q[i] = t[i])
      /\ \A i \in n..Len(s) : q[i] = t[i + 1]
  <2>1. /\ q \in Seq(S)
        /\ Len(q) = Len(t) - 1
        /\ \A i \in 1..(n - 1) : q[i] = t[i]
    BY <1>1, RemoveAtProperties
  <2>2. \A i \in n..(Len(t) - 1) : q[i] = t[i + 1]
    BY <1>1, RemoveAtAfter
  <2>3. Len(t) - 1 = Len(s)
    BY <1>1
  <2> QED BY <2>1, <2>2, <2>3
<1>3. /\ r \in Seq(S)
      /\ Len(r) = Len(s) - 1
      /\ (\A i \in 1..(n - 1) : r[i] = s[i])
      /\ \A i \in n..(Len(s) - 1) : r[i] = s[i + 1]
  BY RemoveAtProperties, RemoveAtAfter
<1> HIDE DEF q, r
<1>4. /\ Append(r, e) \in Seq(S)
      /\ Len(Append(r, e)) = Len(s)
      /\ Append(r, e)[Len(s)] = e
      /\ \A i \in 1..(Len(s) - 1) : Append(r, e)[i] = r[i]
  BY <1>1, <1>3
<1>5. ASSUME NEW i \in 1..Len(s) PROVE q[i] = Append(r, e)[i]
  <2>1. CASE i < n
    <3>1. i \in 1..(n - 1) /\ i \in 1..(Len(s) - 1) /\ i \in 1..Len(s)
      BY <1>1, <2>1
    <3> QED BY <3>1, <1>1, <1>2, <1>3, <1>4
  <2>2. CASE i >= n /\ i < Len(s)
    <3>1. /\ i \in n..(Len(s) - 1)
          /\ i \in n..Len(s)
          /\ i + 1 \in 1..Len(s)
          /\ i \in 1..(Len(s) - 1)
      BY <1>1, <2>2
    <3> QED BY <3>1, <1>1, <1>2, <1>3, <1>4
  <2>3. CASE i = Len(s)
    <3>1. i \in n..Len(s)
      BY <1>1, <2>3
    <3> QED BY <3>1, <2>3, <1>1, <1>2, <1>4
  <2>4. i < n \/ (i >= n /\ i < Len(s)) \/ i = Len(s)
    BY <1>1
  <2> QED BY <2>1, <2>2, <2>3, <2>4
<1>6. q = Append(r, e)
  BY <1>2, <1>4, <1>5, SeqEqual
<1> QED BY <1>6 DEF q, r, t

\* Deleting an element that is not in K.
LEMMA OnlyRemoveAt ==
    ASSUME NEW S, NEW K
    PROVE  \A s \in Seq(S) : \A n \in 1..Len(s) : s[n] \notin K => Only(RemoveAt(s, n), K) = Only(s, K)
<1> DEFINE Cut(s) == \A n \in 1..Len(s) : s[n] \notin K => Only(RemoveAt(s, n), K) = Only(s, K)
           T == {s \in Seq(S) : Cut(s)}
<1>1. << >> \in T
  <2>1. << >> \in Seq(S) /\ 1..Len(<< >>) = {}
    BY EmptySeq
  <2> QED BY <2>1
<1>2. ASSUME NEW s \in Seq(S), NEW e \in S, s \in T PROVE Append(s, e) \in T
  <2>0. Cut(s)
    BY <1>2
  <2>3. /\ Append(s, e) \in Seq(S)
        /\ Len(Append(s, e)) = Len(s) + 1
        /\ Append(s, e)[Len(s) + 1] = e
        /\ \A i \in 1..Len(s) : Append(s, e)[i] = s[i]
    OBVIOUS
  <2> SUFFICES ASSUME NEW n \in 1..Len(Append(s, e)), Append(s, e)[n] \notin K
               PROVE  Only(RemoveAt(Append(s, e), n), K) = Only(Append(s, e), K)
    BY <2>3
  <2> HIDE DEF T
  <2>1. CASE n = Len(s) + 1
    <3>1. RemoveAt(Append(s, e), n) = s
      BY <2>1, RemoveLast
    <3>2. e \notin K
      BY <2>1, <2>3
    <3> QED BY <3>1, <3>2, OnlyAppend
  <2>2. CASE n \in 1..Len(s)
    <3>1. RemoveAt(Append(s, e), n) = Append(RemoveAt(s, n), e)
      BY <2>2, RemoveInner
    <3>2. s[n] \notin K /\ RemoveAt(s, n) \in Seq(S)
      BY <2>2, <2>3, RemoveAtProperties
    <3>3. Only(RemoveAt(s, n), K) = Only(s, K)
      BY <2>0, <2>2, <3>2
    <3>4. Only(Append(s, e), K) = IF e \in K THEN Append(Only(s, K), e) ELSE Only(s, K)
      BY OnlyAppend
    <3>5. Only(Append(RemoveAt(s, n), e), K) =
             IF e \in K THEN Append(Only(RemoveAt(s, n), K), e) ELSE Only(RemoveAt(s, n), K)
      BY <3>2, OnlyAppend
    <3> QED BY <3>1, <3>3, <3>4, <3>5
  <2>4. n = Len(s) + 1 \/ n \in 1..Len(s)
    BY <2>3
  <2> QED BY <2>1, <2>2, <2>4
<1> HIDE DEF T
<1>3. \A s \in Seq(S) : s \in T
  BY <1>1, <1>2, SeqSet
<1> QED BY <1>3 DEF T

\* Picking twice.
LEMMA OnlyOnly ==
    ASSUME NEW S, NEW K, NEW L
    PROVE  \A s \in Seq(S) : Only(Only(s, K), L) = Only(s, K \cap L)
<1> DEFINE T == {s \in Seq(S) : Only(Only(s, K), L) = Only(s, K \cap L)}
<1>1. << >> \in T
  BY OnlyEmpty
<1>2. ASSUME NEW s \in Seq(S), NEW e \in S, s \in T PROVE Append(s, e) \in T
  <2>1. Only(s, K) \in Seq(S) /\ Only(Only(s, K), L) = Only(s, K \cap L)
    BY <1>2, OnlyIn
  <2>2. Only(Append(s, e), K) = IF e \in K THEN Append(Only(s, K), e) ELSE Only(s, K)
    BY OnlyAppend
  <2>3. Only(Append(s, e), K \cap L) = IF e \in K \cap L THEN Append(Only(s, K \cap L), e) ELSE Only(s, K \cap L)
    BY OnlyAppend
  <2>4. Only(Append(Only(s, K), e), L) = IF e \in L THEN Append(Only(Only(s, K), L), e) ELSE Only(Only(s, K), L)
    BY <2>1, OnlyAppend
  <2>5. Append(s, e) \in Seq(S)
    OBVIOUS
  <2>6. Only(Only(Append(s, e), K), L) = Only(Append(s, e), K \cap L)
    <3>1. CASE e \in K
      <4>1. Only(Append(s, e), K) = Append(Only(s, K), e) /\ (e \in L <=> e \in K \cap L)
        BY <2>2, <3>1
      <4> QED BY <2>1, <2>3, <2>4, <4>1
    <3>2. CASE e \notin K
      <4>1. Only(Append(s, e), K) = Only(s, K) /\ e \notin K \cap L
        BY <2>2, <3>2
      <4> QED BY <2>1, <2>3, <4>1
    <3> QED BY <3>1, <3>2
  <2> QED BY <2>5, <2>6
<1> HIDE DEF T
<1>3. \A s \in Seq(S) : s \in T
  BY <1>1, <1>2, SeqSet
<1> QED BY <1>3 DEF T

\* What is picked depends only on which elements of s are in the set.
LEMMA OnlySame ==
    ASSUME NEW S, NEW K, NEW L
    PROVE  \A s \in Seq(S) : (\A n \in 1..Len(s) : s[n] \in K <=> s[n] \in L) => Only(s, K) = Only(s, L)
<1> DEFINE Alike(s) == \A n \in 1..Len(s) : s[n] \in K <=> s[n] \in L
           T == {s \in Seq(S) : Alike(s) => Only(s, K) = Only(s, L)}
<1>1. << >> \in T
  BY OnlyEmpty, EmptySeq
<1>2. ASSUME NEW s \in Seq(S), NEW e \in S, s \in T PROVE Append(s, e) \in T
  <2>0. Alike(s) => Only(s, K) = Only(s, L)
    BY <1>2
  <2>3. /\ Append(s, e) \in Seq(S)
        /\ Len(s) \in Nat
        /\ Len(Append(s, e)) = Len(s) + 1
        /\ Append(s, e)[Len(s) + 1] = e
        /\ \A i \in 1..Len(s) : Append(s, e)[i] = s[i]
    OBVIOUS
  <2> SUFFICES ASSUME Alike(Append(s, e))
               PROVE  Only(Append(s, e), K) = Only(Append(s, e), L)
    BY <2>3
  <2>1. Alike(s)
    BY <2>3
  <2>2. e \in K <=> e \in L
    <3>1. Len(s) + 1 \in 1..Len(Append(s, e))
      BY <2>3
    <3> QED BY <3>1, <2>3
  <2>4. Only(s, K) = Only(s, L)
    BY <2>0, <2>1
  <2>5. /\ Only(Append(s, e), K) = IF e \in K THEN Append(Only(s, K), e) ELSE Only(s, K)
        /\ Only(Append(s, e), L) = IF e \in L THEN Append(Only(s, L), e) ELSE Only(s, L)
    BY OnlyAppend
  <2> QED BY <2>2, <2>4, <2>5
<1> HIDE DEF T
<1>3. \A s \in Seq(S) : s \in T
  BY <1>1, <1>2, SeqSet
<1> QED BY <1>3 DEF T
------------------------------------------------------------------------------
\* A running process has a command line.
CommandOK == \A p \in Procs : pc[p] # Idle => cmd[p] \in Commands

\* The inductive invariant: with stale numbers out of the picture, the lines a
\* process still holds are right because they are deleted from the last one up.
Inv == TypeOK /\ CommandOK /\ FreshLinesAreOwn

\* What a step does to the variables that hold no rule of the chain, for process p.
LocalStep(p) ==
    /\ pc'    \in [Procs -> Labels]
    /\ cmd'   \in [Procs -> Commands \union {NoCommand}]
    /\ reply' \in [Procs -> Replies]
    /\ began' \in [Procs -> Seq(Rule)]
    /\ \A q \in Procs \ {p} : pc'[q] = pc[q] /\ cmd'[q] = cmd[q]
    /\ pc'[p] # Idle => cmd'[p] = cmd[p]
    /\ pc'[p] # "deleting"

LEMMA ExitLocal ==
    ASSUME TypeOK, NEW p \in Procs, NEW a \in Replies, Exit(p, a)
    PROVE  LocalStep(p) /\ pc'[p] = Idle
<1>1. << >> \in Seq(Rule)
  OBVIOUS
<1>2. QED
  BY <1>1 DEF TypeOK, Exit, Goto, LocalStep, Labels, Idle

LEMMA GotoLocal ==
    ASSUME TypeOK, NEW p \in Procs, NEW label \in Labels \ {"deleting"},
           Goto(p, label), UNCHANGED <<reply, cmd, began>>
    PROVE  LocalStep(p)
BY DEF TypeOK, Goto, LocalStep, Labels, Idle

LEMMA FlushReturnsLocal ==
    ASSUME TypeOK, NEW p \in Procs, NEW ok \in BOOLEAN, FlushReturns(p, ok)
    PROVE  LocalStep(p)
<1>1. CASE Goto(p, "routing") /\ UNCHANGED <<reply, cmd, began>>
  BY <1>1, GotoLocal DEF Labels
<1>2. CASE Exit(p, "disable-error")
  BY <1>2, ExitLocal DEF Replies
<1>3. CASE Exit(p, IF ok THEN "enabled" ELSE "enable-error")
  BY <1>3, ExitLocal DEF Replies
<1>4. QED
  BY <1>1, <1>2, <1>3 DEF FlushReturns

LEMMA AddReturnsLocal ==
    ASSUME TypeOK, NEW p \in Procs, NEW ok \in BOOLEAN, AddReturns(p, ok)
    PROVE  LocalStep(p) /\ ret' \in [Procs -> {"none", "add", "failed", "enable"}]
<1>1. CASE Exit(p, "disabled") /\ UNCHANGED ret
  BY <1>1, ExitLocal DEF Replies, TypeOK
<1>2. CASE CallFlush(p, "failed") /\ UNCHANGED <<reply, cmd, began>>
  BY <1>2, GotoLocal DEF CallFlush, Labels, TypeOK
<1>3. QED
  BY <1>1, <1>2 DEF AddReturns

LEMMA AfterPortsLocal ==
    ASSUME TypeOK, NEW p \in Procs, AfterPorts(p)
    PROVE  LocalStep(p) /\ ret' \in [Procs -> {"none", "add", "failed", "enable"}]
<1>1. CASE AddReturns(p, cmd[p].portsArg = "list")
  BY <1>1, AddReturnsLocal
<1>2. CASE Goto(p, "accepting") /\ UNCHANGED <<reply, cmd, ret, began>>
  BY <1>2, GotoLocal DEF Labels, TypeOK
<1>3. QED
  BY <1>1, <1>2 DEF AfterPorts

\* What a step may do to the chain: lines keep their rule up to some number.
LEMMA RuleTypes ==
    ASSUME NEW c \in Commands, NEW port \in Int
    PROVE  /\ TncRule(c, "tcp", port, "any", "DROP") \in Rule
           /\ TncRule(c, "all", 0, "loopback", "ACCEPT") \in Rule
           /\ TncRule(c, "all", 0, "outside", "DROP") \in Rule
<1>1. GetUid(c.user) \in Uids
  BY UsersAssumption DEF GetUid
<1>2. QED
  BY <1>1 DEF TncRule, Rule

\* A chain that only grew at its end.
Grown(s, t) == t \in Seq(Rule) /\ Len(s) <= Len(t) /\ \A n \in 1..Len(s) : t[n] = s[n]

LEMMA AppendGrows ==
    ASSUME chain \in Seq(Rule), NEW c, NEW rule \in Rule, chain' = AppendFor(c, rule)
    PROVE  Grown(chain, chain')
BY DEF AppendFor, Grown

LEMMA GrownListing ==
    ASSUME chain \in Seq(Rule), Grown(chain, chain'), NEW c
    PROVE  Listing(c) \subseteq Listing(c)'
BY DEF Grown, Listing, Flushed, Own
------------------------------------------------------------------------------
\* The part of TypeOK that LocalStep does not cover.
SharedTypeOK == /\ chain   \in Seq(Rule)
                /\ ret     \in [Procs -> {"none", "add", "failed", "enable"}]
                /\ todo    \in [Procs -> SUBSET (Nat \ {0})]
                /\ ports   \in [Procs -> Seq(Int)]
                /\ issued  \in 0..MaxCommands
                /\ foreign \in Seq(Rule)
                /\ stale   \in [Procs -> BOOLEAN]

\* A step of p that leaves p outside the deletion loop and every line that is
\* still held where it was.
LEMMA LocalStepInv ==
    ASSUME Inv, NEW p \in Procs, LocalStep(p), SharedTypeOK', Grown(chain, chain'),
           pc[p] # Idle \/ pc'[p] = Idle,
           \A q \in Procs \ {p} : todo'[q] = todo[q] /\ stale'[q] = stale[q]
    PROVE  Inv'
<1>1. TypeOK'
  BY DEF Inv, TypeOK, LocalStep, SharedTypeOK
<1>2. CommandOK'
  BY DEF Inv, CommandOK, LocalStep
<1>3. FreshLinesAreOwn'
  <2> SUFFICES ASSUME NEW q \in Procs, pc'[q] = "deleting", ~stale'[q]
               PROVE  todo'[q] \subseteq Listing(cmd[q])'
    BY DEF FreshLinesAreOwn
  <2>1. q # p /\ pc[q] = "deleting" /\ cmd'[q] = cmd[q] /\ ~stale[q]
    BY DEF LocalStep
  <2>2. todo[q] \subseteq Listing(cmd[q])
    BY <2>1 DEF Inv, FreshLinesAreOwn
  <2>3. DOMAIN chain = 1..Len(chain) /\ DOMAIN chain' = 1..Len(chain')
    BY LenProperties DEF Inv, TypeOK, SharedTypeOK
  <2>4. \A n \in DOMAIN chain : n \in DOMAIN chain' /\ chain'[n] = chain[n]
    BY <2>3, LenProperties DEF Inv, TypeOK, SharedTypeOK, Grown
  <2>5. QED
    BY <2>1, <2>2, <2>4 DEF Listing
<1>4. QED
  BY <1>1, <1>2, <1>3 DEF Inv

LEMMA GrownSame ==
    ASSUME chain \in Seq(Rule), UNCHANGED chain
    PROVE  Grown(chain, chain')
BY DEF Grown

LEMMA RefuseInv ==
    ASSUME Inv, NEW p \in Procs, NEW c \in Commands, Refuse(p, c)
    PROVE  Inv'
<1>1. LocalStep(p) /\ pc'[p] = Idle
  BY ExitLocal DEF Refuse, Inv, Replies
<1>2. SharedTypeOK'
  BY BoundAssumption DEF Refuse, Inv, TypeOK, SharedTypeOK
<1>3. Grown(chain, chain') /\ UNCHANGED <<todo, stale>>
  BY GrownSame DEF Refuse, Inv, TypeOK
<1>4. QED
  BY <1>1, <1>2, <1>3, LocalStepInv

LEMMA StatusInv ==
    ASSUME Inv, NEW p \in Procs, NEW c \in Commands, Status(p, c)
    PROVE  Inv'
<1>1. LocalStep(p) /\ pc'[p] = Idle
  BY ExitLocal DEF Status, Inv, Replies
<1>2. SharedTypeOK'
  BY BoundAssumption DEF Status, Inv, TypeOK, SharedTypeOK
<1>3. Grown(chain, chain') /\ UNCHANGED <<todo, stale>>
  BY GrownSame DEF Status, Inv, TypeOK
<1>4. QED
  BY <1>1, <1>2, <1>3, LocalStepInv

LEMMA StartInv ==
    ASSUME Inv, NEW p \in Procs, NEW c \in Commands, Start(p, c)
    PROVE  Inv'
<1> USE DEF Inv, Start, CallFlush, Goto
<1>1. c.portsArg = "list" => c.ports \in Seq(Int)
  BY CommandsAssumption DEF Command
<1>2. << >> \in Seq(Int)
  OBVIOUS
<1>3. TypeOK'
  BY <1>1, <1>2, BoundAssumption DEF TypeOK, Labels, Idle
<1>4. CommandOK'
  BY DEF TypeOK, CommandOK
<1>5. FreshLinesAreOwn'
  BY DEF TypeOK, FreshLinesAreOwn, Listing
<1>6. QED
  BY <1>3, <1>4, <1>5

LEMMA CountInv == ASSUME Inv, NEW p \in Procs, Count(p) PROVE Inv'
<1>1. LocalStep(p)
  BY GotoLocal, FlushReturnsLocal DEF Count, Inv, Labels
<1>2. QED
  BY <1>1, LocalStepInv, GrownSame DEF Count, Inv, TypeOK, SharedTypeOK, Idle

LEMMA RouteInv == ASSUME Inv, NEW p \in Procs, Route(p) PROVE Inv'
<1>1. LocalStep(p) /\ ret' \in [Procs -> {"none", "add", "failed", "enable"}]
  BY GotoLocal, AddReturnsLocal, AfterPortsLocal, ExitLocal DEF Route, Inv, Labels, TypeOK, Replies
<1>2. QED
  BY <1>1, LocalStepInv, GrownSame DEF Route, Inv, TypeOK, SharedTypeOK, Idle

LEMMA PortsBlockedInv == ASSUME Inv, NEW p \in Procs, PortsBlocked(p) PROVE Inv'
<1>1. LocalStep(p) /\ ret' \in [Procs -> {"none", "add", "failed", "enable"}]
  BY AfterPortsLocal DEF PortsBlocked, Inv
<1>2. QED
  BY <1>1, LocalStepInv, GrownSame DEF PortsBlocked, Inv, TypeOK, SharedTypeOK, Idle
------------------------------------------------------------------------------
\* The steps that change the chain.

LEMMA BlockInv == ASSUME Inv, NEW p \in Procs, Block(p) PROVE Inv'
<1>1. cmd[p] \in Commands /\ LocalStep(p)
  BY DEF Block, Inv, TypeOK, CommandOK, LocalStep, Idle
<1>2. Head(ports[p]) \in Int /\ Tail(ports[p]) \in Seq(Int)
  BY DEF Block, Inv, TypeOK
<1>3. Grown(chain, chain')
  <2>1. TncRule(cmd[p], "tcp", Head(ports[p]), "any", "DROP") \in Rule
    BY <1>1, <1>2, RuleTypes
  <2>2. QED
    BY <2>1, AppendGrows, GrownSame DEF Block, Inv, TypeOK
<1>4. SharedTypeOK'
  BY <1>2, <1>3 DEF Block, Inv, TypeOK, SharedTypeOK, Grown
<1>5. QED
  BY <1>1, <1>3, <1>4, LocalStepInv DEF Block, Idle

LEMMA AcceptInv == ASSUME Inv, NEW p \in Procs, Accept(p) PROVE Inv'
<1>1. cmd[p] \in Commands
  BY DEF Accept, Inv, CommandOK, Idle
<1>2. LocalStep(p) /\ ret' \in [Procs -> {"none", "add", "failed", "enable"}]
  BY GotoLocal, AddReturnsLocal DEF Accept, Inv, TypeOK, Labels
<1>3. Grown(chain, chain')
  <2>1. TncRule(cmd[p], "all", 0, "loopback", "ACCEPT") \in Rule
    BY <1>1, RuleTypes
  <2>2. QED
    BY <2>1, AppendGrows, GrownSame DEF Accept, Inv, TypeOK
<1>4. SharedTypeOK'
  BY <1>2, <1>3 DEF Accept, Inv, TypeOK, SharedTypeOK, Grown
<1>5. QED
  BY <1>2, <1>3, <1>4, LocalStepInv DEF Accept, Idle

LEMMA DropInv == ASSUME Inv, NEW p \in Procs, Drop(p) PROVE Inv'
<1>1. cmd[p] \in Commands
  BY DEF Drop, Inv, CommandOK, Idle
<1>2. LocalStep(p) /\ ret' \in [Procs -> {"none", "add", "failed", "enable"}]
  BY AddReturnsLocal, ForksAssumption DEF Drop, Inv
<1>3. Grown(chain, chain')
  <2>1. TncRule(cmd[p], "all", 0, "outside", "DROP") \in Rule
    BY <1>1, RuleTypes
  <2>2. QED
    BY <2>1, AppendGrows, GrownSame DEF Drop, Inv, TypeOK
<1>4. SharedTypeOK'
  BY <1>2, <1>3 DEF Drop, Inv, TypeOK, SharedTypeOK, Grown
<1>5. QED
  BY <1>2, <1>3, <1>4, LocalStepInv DEF Drop, Idle

LEMMA AppendForeignInv ==
    ASSUME Inv, NEW rule \in ForeignRules, AppendForeign(rule)
    PROVE  Inv'
<1>1. rule \in Rule
  BY ForeignAssumption
<1>2. Grown(chain, chain')
  BY <1>1 DEF AppendForeign, Grown, Inv, TypeOK
<1>3. TypeOK'
  <2>1. began' \in [Procs -> Seq(Rule)]
    BY <1>1 DEF AppendForeign, Inv, TypeOK
  <2>2. chain' \in Seq(Rule) /\ foreign' \in Seq(Rule)
    BY <1>1 DEF AppendForeign, Inv, TypeOK
  <2>3. QED
    BY <2>1, <2>2 DEF AppendForeign, Inv, TypeOK
<1>4. CommandOK'
  BY DEF AppendForeign, Inv, CommandOK
<1>5. FreshLinesAreOwn'
  <2>1. DOMAIN chain = 1..Len(chain) /\ DOMAIN chain' = 1..Len(chain')
    BY <1>3, LenProperties DEF Inv, TypeOK
  <2>2. \A n \in DOMAIN chain : n \in DOMAIN chain' /\ chain'[n] = chain[n]
    BY <1>2, <2>1, LenProperties DEF Inv, TypeOK, Grown
  <2>3. QED
    BY <2>2 DEF AppendForeign, Inv, FreshLinesAreOwn, Listing
<1>6. QED
  BY <1>3, <1>4, <1>5 DEF Inv

LEMMA ListInv == ASSUME Inv, NEW p \in Procs, List(p) PROVE Inv'
<1> DEFINE Listed == /\ todo' = [todo EXCEPT ![p] = Listing(cmd[p])]
                     /\ Goto(p, "deleting")
                     /\ UNCHANGED <<reply, cmd, began>>
<1>1. Listing(cmd[p]) \in SUBSET (Nat \ {0})
  <2>1. DOMAIN chain = 1..Len(chain)
    BY LenProperties DEF Inv, TypeOK
  <2>2. QED
    BY <2>1, LenProperties DEF Inv, TypeOK, Listing
<1>2. CASE Listed
  <2>1. TypeOK'
    BY <1>1, <1>2 DEF List, Goto, Inv, TypeOK, Labels
  <2>2. CommandOK'
    BY <1>2 DEF List, Goto, Inv, TypeOK, CommandOK, Idle
  <2>3. FreshLinesAreOwn'
    BY <1>2 DEF List, Goto, Inv, TypeOK, FreshLinesAreOwn, Listing
  <2>4. QED
    BY <2>1, <2>2, <2>3 DEF Inv
<1>3. CASE ~Listed
  <2>1. LocalStep(p) /\ UNCHANGED todo
    BY <1>3, ExitLocal, FlushReturnsLocal DEF List, Inv, Replies
  <2>2. QED
    BY <2>1, LocalStepInv, GrownSame DEF List, Inv, TypeOK, SharedTypeOK, Idle
<1>4. QED
  BY <1>2, <1>3

\* Deleting line n leaves every line before n where it was.
LEMMA DeleteKeepsBefore ==
    ASSUME chain \in Seq(Rule), NEW n \in Nat \ {0}, chain' \in {DeleteLine(n), chain}
    PROVE  /\ chain' \in Seq(Rule)
           /\ \A m \in DOMAIN chain : m < n => m \in DOMAIN chain' /\ chain'[m] = chain[m]
<1>1. DOMAIN chain = 1..Len(chain)
  BY LenProperties
<1>2. CASE chain' = RemoveAt(chain, n) /\ n \in 1..Len(chain)
  <2>1. /\ chain' \in Seq(Rule)
        /\ Len(chain') = Len(chain) - 1
        /\ \A i \in 1..(n - 1) : chain'[i] = chain[i]
    BY <1>2, RemoveAtProperties
  <2>2. DOMAIN chain' = 1..Len(chain')
    BY <2>1, LenProperties
  <2>3. QED
    BY <1>1, <1>2, <2>1, <2>2, LenProperties
<1>3. CASE chain' = chain
  BY <1>3
<1>4. QED
  BY <1>1, <1>2, <1>3 DEF DeleteLine

LEMMA DeleteInv == ASSUME Inv, NEW p \in Procs, Delete(p) PROVE Inv'
<1>1. PICK n \in todo[p], forked \in Forks :
        /\ IsNext(n, todo[p])
        /\ todo' = [todo EXCEPT ![p] = @ \ {n}]
        /\ chain' = IF forked THEN DeleteLine(n) ELSE chain
        /\ stale' = [q \in Procs |-> stale[q] \/ (q # p /\ pc[q] = "deleting" /\ chain' # chain)]
        /\ IF todo[p] = {n} THEN FlushReturns(p, TRUE) ELSE UNCHANGED <<pc, reply, cmd, began>>
  BY DEF Delete
<1>2. pc[p] = "deleting" /\ UNCHANGED <<ret, ports, issued, foreign>>
  BY DEF Delete
<1>3. n \in Nat \ {0} /\ todo[p] \subseteq Nat \ {0}
  BY <1>1 DEF Inv, TypeOK
<1>4. /\ chain' \in Seq(Rule)
      /\ \A m \in DOMAIN chain : m < n => m \in DOMAIN chain' /\ chain'[m] = chain[m]
  BY <1>1, <1>3, DeleteKeepsBefore DEF Inv, TypeOK
<1>5. LocalStep(p) \/ UNCHANGED <<pc, reply, cmd, began>>
  BY <1>1, FlushReturnsLocal DEF Inv
<1>6. TypeOK'
  <2>1. /\ pc' \in [Procs -> Labels] /\ cmd' \in [Procs -> Commands \union {NoCommand}]
        /\ reply' \in [Procs -> Replies] /\ began' \in [Procs -> Seq(Rule)]
    BY <1>5 DEF Inv, TypeOK, LocalStep
  <2>2. stale' \in [Procs -> BOOLEAN] /\ todo' \in [Procs -> SUBSET (Nat \ {0})]
    BY <1>1 DEF Inv, TypeOK
  <2>3. QED
    BY <1>2, <1>4, <2>1, <2>2 DEF Inv, TypeOK
<1>7. CommandOK'
  BY <1>2, <1>5 DEF Inv, CommandOK, LocalStep, Idle
<1>8. FreshLinesAreOwn'
  <2> SUFFICES ASSUME NEW q \in Procs, pc'[q] = "deleting", ~stale'[q]
               PROVE  todo'[q] \subseteq Listing(cmd[q])'
    BY DEF FreshLinesAreOwn
  <2>1. pc[q] = "deleting" /\ cmd'[q] = cmd[q] /\ ~stale[q]
    BY <1>1, <1>5 DEF LocalStep
  <2>2. todo[q] \subseteq Listing(cmd[q])
    BY <2>1 DEF Inv, FreshLinesAreOwn
  <2>3. CASE q # p
    <3>1. chain' = chain /\ todo'[q] = todo[q]
      BY <1>1, <2>1, <2>3 DEF Inv, TypeOK
    <3>2. QED
      BY <2>1, <2>2, <3>1 DEF Listing
  <2>4. CASE q = p
    <3>1. \A m \in todo'[q] : m \in todo[q] /\ m < n
      BY <1>1, <1>3, <2>4 DEF Inv, TypeOK, IsNext
    <3>2. QED
      BY <1>4, <2>1, <2>2, <3>1 DEF Listing
  <2>5. QED
    BY <2>3, <2>4
<1>9. QED
  BY <1>6, <1>7, <1>8 DEF Inv
------------------------------------------------------------------------------
LEMMA InitInv == Init => Inv
<1> SUFFICES ASSUME Init PROVE Inv
  OBVIOUS
<1>1. chain \in Seq(Rule) /\ foreign \in Seq(Rule)
  BY ChainsAssumption DEF Init
<1>2. << >> \in Seq(Rule) /\ << >> \in Seq(Int)
  OBVIOUS
<1>3. issued \in 0..MaxCommands
  <2>1. 0 \in 0..MaxCommands
    BY BoundAssumption
  <2>2. issued = 0
    BY DEF Init
  <2>3. QED
    BY <2>1, <2>2
<1>4. ports \in [Procs -> Seq(Int)] /\ began \in [Procs -> Seq(Rule)]
  BY <1>2 DEF Init
<1>5. TypeOK
  BY <1>1, <1>3, <1>4 DEF Init, TypeOK, Labels, Idle, Replies
<1>6. QED
  BY <1>5 DEF Init, Inv, CommandOK, FreshLinesAreOwn, Idle

LEMMA NextInv == Inv /\ [Next]_vars => Inv'
<1> SUFFICES ASSUME Inv, [Next]_vars PROVE Inv'
  OBVIOUS
<1>1. CASE \E p \in Procs, c \in Commands : Refuse(p, c) \/ Status(p, c) \/ Start(p, c)
  BY <1>1, RefuseInv, StatusInv, StartInv
<1>2. CASE \E p \in Procs : Step(p)
  BY <1>2, CountInv, ListInv, DeleteInv, RouteInv, BlockInv, PortsBlockedInv, AcceptInv, DropInv
     DEF Step
<1>3. CASE \E rule \in ForeignRules : AppendForeign(rule)
  BY <1>3, AppendForeignInv
<1>4. CASE UNCHANGED vars
  BY <1>4 DEF vars, Inv, TypeOK, CommandOK, FreshLinesAreOwn, Listing
<1>5. QED
  BY <1>1, <1>2, <1>3, <1>4 DEF Next

LEMMA InvAlways == Spec => []Inv
BY InitInv, NextInv, PTL DEF Spec

\* Every variable keeps its type: the chain only ever holds rules, the line
\* numbers of flush_iptables_user are positive, the answers are those of main.
THEOREM TypeCorrect == Spec => []TypeOK
<1>1. Inv => TypeOK
  BY DEF Inv
<1>2. QED
  BY <1>1, InvAlways, PTL

\* Whatever the number of processes and wherever popen fails, the numbers that
\* flush_iptables_user still holds name rules it was asked to flush, as long as
\* no other process deleted a rule since they were listed.
THEOREM FreshLinesAreOwnAlways == Spec => []FreshLinesAreOwn
<1>1. Inv => FreshLinesAreOwn
  BY DEF Inv
<1>2. QED
  BY <1>1, InvAlways, PTL

\* A step that changes the chain and drops a line number is the deletion of that
\* line by its process.
LEMMA DroppedLineIsDeleted ==
    ASSUME Inv, Next, NEW p \in Procs, NEW n \in todo[p] \ todo'[p], chain' # chain, ~stale[p]
    PROVE  Own(chain[n], cmd[p].user) /\ chain' = RemoveAt(chain, n)
<1>1. PICK q \in Procs : Delete(q)
  <2>1. \A q \in Procs : ~List(q)
    BY DEF List
  <2>2. \A q \in Procs, c \in Commands : ~(Refuse(q, c) \/ Status(q, c) \/ Start(q, c))
    BY DEF Refuse, Status, Start
  <2>3. todo' # todo
    OBVIOUS
  <2>4. QED
    BY <2>1, <2>2, <2>3
       DEF Next, Step, Count, Route, Block, PortsBlocked, Accept, Drop, AppendForeign
<1>2. q = p
  BY <1>1 DEF Delete, Inv, TypeOK
<1>3. pc[p] = "deleting" /\ chain' = DeleteLine(n)
  BY <1>1, <1>2 DEF Delete, Inv, TypeOK
<1>4. n \in Listing(cmd[p])
  BY <1>3 DEF Inv, FreshLinesAreOwn
<1>5. QED
  BY <1>3, <1>4 DEF Listing, Flushed, DeleteLine

\* Under the same conditions, no rule without the TCOS_TNC comment and no rule
\* of another uid is ever deleted by a flush.
THEOREM OnlyOwnRulesDeletedAlways == Spec => OnlyOwnRulesDeleted
<1>1. Inv /\ [Next]_vars =>
        [\A p \in Procs : \A n \in todo[p] \ todo'[p] :
            ~stale[p] /\ chain' # chain => /\ Own(chain[n], cmd[p].user)
                                          /\ chain' = RemoveAt(chain, n)]_vars
  BY DroppedLineIsDeleted
<1>2. QED
  BY <1>1, InvAlways, PTL DEF Spec, OnlyOwnRulesDeleted
------------------------------------------------------------------------------
(* As long as no line number is out of date. *)

NoneStale == \A p \in Procs : ~stale[p]

\* A tagged rule at the end of the chain.
LEMMA AppendKeepsOthers ==
    ASSUME chain \in Seq(Rule), NEW c, NEW rule \in Rule, rule.tagged, chain' = AppendFor(c, rule)
    PROVE  Only(chain, Untagged)' = Only(chain, Untagged)
<1>1. Untagged' = Untagged /\ rule \notin Untagged
  BY DEF Untagged
<1>2. Only(Append(chain, rule), Untagged) = Only(chain, Untagged)
  BY <1>1, OnlyAppend
<1>3. CASE chain' = Append(chain, rule)
  BY <1>1, <1>2, <1>3
<1>4. CASE chain' = chain
  BY <1>1, <1>4
<1>5. QED
  BY <1>3, <1>4 DEF AppendFor

\* The rules add_iptables_user appends are tagged.
LEMMA RuleTagged ==
    ASSUME NEW c, NEW prot, NEW port, NEW dest, NEW target
    PROVE  TncRule(c, prot, port, dest, target).tagged
BY DEF TncRule

\* No step loses, adds or moves a rule of another program while no number is
\* out of date, whether popen fails or not.
LEMMA OthersStep ==
    ASSUME Inv, NoneStale, OtherRulesKept, [Next]_vars
    PROVE  OtherRulesKept'
<1>0. chain \in Seq(Rule) /\ foreign \in Seq(Rule)
  BY DEF Inv, TypeOK
<1>1. CASE UNCHANGED <<chain, foreign>>
  BY <1>1 DEF OtherRulesKept
<1>2. ASSUME NEW p \in Procs, Block(p) \/ Accept(p) \/ Drop(p)
      PROVE  OtherRulesKept'
  <2>1. cmd[p] \in Commands /\ UNCHANGED foreign
    BY <1>2 DEF Block, Accept, Drop, Inv, CommandOK, Idle
  <2>2. ASSUME NEW prot, NEW port, NEW dest, NEW target,
               TncRule(cmd[p], prot, port, dest, target) \in Rule,
               chain' = AppendFor(cmd[p], TncRule(cmd[p], prot, port, dest, target))
        PROVE  OtherRulesKept'
    BY <1>0, <2>1, <2>2, RuleTagged, AppendKeepsOthers DEF OtherRulesKept
  <2>3. CASE Block(p)
    <3>1. Head(ports[p]) \in Int
      BY <2>3 DEF Block, Inv, TypeOK
    <3>2. TncRule(cmd[p], "tcp", Head(ports[p]), "any", "DROP") \in Rule
      BY <2>1, <3>1, RuleTypes
    <3>3. QED
      BY <1>1, <2>1, <2>2, <2>3, <3>2 DEF Block
  <2>4. CASE Accept(p)
    <3>1. TncRule(cmd[p], "all", 0, "loopback", "ACCEPT") \in Rule
      BY <2>1, RuleTypes
    <3>2. QED
      BY <1>1, <2>1, <2>2, <2>4, <3>1 DEF Accept
  <2>5. CASE Drop(p)
    <3>1. TncRule(cmd[p], "all", 0, "outside", "DROP") \in Rule
      BY <2>1, RuleTypes
    <3>2. QED
      BY <1>1, <2>1, <2>2, <2>5, <3>1 DEF Drop
  <2>6. QED
    BY <1>2, <2>3, <2>4, <2>5
<1>3. ASSUME NEW p \in Procs, Delete(p)
      PROVE  OtherRulesKept'
  <2>1. PICK n \in todo[p] : chain' \in {DeleteLine(n), chain}
    BY <1>3 DEF Delete
  <2>2. pc[p] = "deleting" /\ UNCHANGED foreign
    BY <1>3 DEF Delete
  <2>3. n \in Listing(cmd[p])
    BY <2>1, <2>2 DEF NoneStale, Inv, FreshLinesAreOwn
  <2>4. n \in 1..Len(chain) /\ chain[n].tagged
    BY <1>0, <2>3, LenProperties DEF Listing, Flushed, Own
  <2>5. chain[n] \notin Untagged
    BY <2>4 DEF Untagged
  <2>6. Only(RemoveAt(chain, n), Untagged) = Only(chain, Untagged)
    BY <1>0, <2>4, <2>5, OnlyRemoveAt
  <2>7. chain' = RemoveAt(chain, n) \/ chain' = chain
    BY <2>1, <2>3 DEF DeleteLine
  <2>8. QED
    BY <1>1, <2>2, <2>6, <2>7 DEF OtherRulesKept, Untagged
<1>4. ASSUME NEW rule \in ForeignRules, AppendForeign(rule)
      PROVE  OtherRulesKept'
  <2>1. rule \in Rule /\ rule \in Untagged
    BY ForeignAssumption DEF Untagged
  <2>2. chain' = Append(chain, rule) /\ foreign' = Append(foreign, rule)
    BY <1>4 DEF AppendForeign
  <2>3. Only(Append(chain, rule), Untagged) = Append(Only(chain, Untagged), rule)
    BY <1>0, <2>1, OnlyAppend
  <2>4. QED
    BY <2>2, <2>3 DEF OtherRulesKept, Untagged
<1>5. ASSUME NEW p \in Procs, Count(p) \/ List(p) \/ Route(p) \/ PortsBlocked(p)
      PROVE  UNCHANGED <<chain, foreign>>
  BY <1>5 DEF Count, List, Route, PortsBlocked
<1>6. ASSUME NEW p \in Procs, NEW c \in Commands, Refuse(p, c) \/ Status(p, c) \/ Start(p, c)
      PROVE  UNCHANGED <<chain, foreign>>
  BY <1>6 DEF Refuse, Status, Start
<1>7. CASE UNCHANGED vars
  BY <1>1, <1>7 DEF vars
<1>8. QED
  BY <1>1, <1>2, <1>3, <1>4, <1>5, <1>6, <1>7 DEF Next, Step

LEMMA OthersInit == Init => OtherRulesKept
<1> SUFFICES ASSUME Init PROVE Only(chain, Untagged) = foreign
  BY DEF OtherRulesKept
<1>1. chain \in Seq(Rule) /\ chain = foreign /\ \A n \in DOMAIN chain : ~chain[n].tagged
  BY ChainsAssumption DEF Init
<1>2. DOMAIN chain = 1..Len(chain) /\ \A n \in 1..Len(chain) : chain[n] \in Rule
  BY <1>1, LenProperties
<1>3. \A n \in 1..Len(chain) : chain[n] \in Untagged
  BY <1>1, <1>2 DEF Untagged
<1>4. chain \in Seq(Untagged)
  BY <1>1, <1>3, SeqDef
<1>5. QED
  BY <1>1, <1>4, OnlyAll

\* With any number of processes and popen failing anywhere, the rules tnc did not
\* add are all in the chain, in their order, as long as no process holds line
\* numbers read before another process deleted a rule: flush_iptables_user then
\* deletes tagged rules only.
THEOREM OtherRulesKeptUnlessStale == Spec /\ []NoneStale => []OtherRulesKept
<1>1. Inv /\ NoneStale /\ OtherRulesKept /\ [Next]_vars => OtherRulesKept'
  BY OthersStep
<1>2. QED
  BY <1>1, OthersInit, InvAlways, PTL DEF Spec

\* Commands do not overlap.
OneAtATime == \A p, q \in Procs : p = q

\* A process on its own never has numbers out of date.
LEMMA NoneStaleInit == Init => NoneStale
BY DEF Init, NoneStale

LEMMA NoneStaleStep == ASSUME OneAtATime, NoneStale, [Next]_vars PROVE NoneStale'
<1>1. ASSUME NEW p \in Procs, Delete(p) PROVE NoneStale'
  BY <1>1 DEF Delete, NoneStale, OneAtATime
<1>2. ASSUME NEW p \in Procs, List(p) PROVE NoneStale'
  BY <1>2 DEF List, NoneStale, OneAtATime
<1>3. CASE UNCHANGED stale
  BY <1>3 DEF NoneStale
<1>4. ASSUME NEW p \in Procs, Count(p) \/ Route(p) \/ Block(p) \/ PortsBlocked(p) \/ Accept(p) \/ Drop(p)
      PROVE  UNCHANGED stale
  BY <1>4 DEF Count, Route, Block, PortsBlocked, Accept, Drop
<1>5. QED
  BY <1>1, <1>2, <1>3, <1>4 DEF Next, Step, Refuse, Status, Start, AppendForeign, vars

LEMMA NoneStaleAlways == OneAtATime /\ Spec => []NoneStale
<1>1. OneAtATime /\ NoneStale /\ [Next]_vars => NoneStale'
  BY NoneStaleStep
<1>2. OneAtATime => []OneAtATime
  OBVIOUS
<1>3. QED
  BY <1>1, <1>2, NoneStaleInit, PTL DEF Spec

\* Commands that do not overlap never lose a rule of another program, whichever
\* popen of flush_iptables_user or add_iptables_user fails.
THEOREM OtherRulesKeptAlways == OneAtATime /\ Spec => []OtherRulesKept
BY NoneStaleAlways, OtherRulesKeptUnlessStale, PTL
------------------------------------------------------------------------------
(* One command at a time, and every popen succeeds: what the run net_serial *)
(* checks.                                                                 *)

Undisturbed == OneAtATime /\ Forks = {TRUE}

\* A tagged rule of u that lets loopback traffic through is at line n.
LetsLoopback(ch, n, u) == ch[n].tagged /\ ch[n].owner = u /\ ch[n].dest = "loopback"

\* Every line left to flush is still held.
ListComplete == \A p \in Procs : pc[p] = "deleting" => todo[p] = Listing(cmd[p])

\* The port rules are the ones without a destination.
PortRulesAnyDest ==
    \A n \in DOMAIN chain : chain[n].tagged /\ chain[n].prot = "tcp" => chain[n].dest = "any"

\* Before the rule that drops the rest, the one for loopback is in the chain.
LoopbackFirst ==
    \A p \in Procs : pc[p] = "dropping" /\ cmd[p].user \in Known =>
        \E n \in DOMAIN chain : LetsLoopback(chain, n, GetUid(cmd[p].user))

\* The inductive invariant: the last line goes first, and the list is complete, so
\* of the two network rules of a uid the one that drops goes first.
LoopInv == ListComplete /\ PortRulesAnyDest /\ LoopbackFirst /\ LoopbackNeverCut

\* The lines of a chain.
LEMMA ChainLines == ASSUME NEW ch \in Seq(Rule)
                    PROVE  DOMAIN ch = 1..Len(ch) /\ Len(ch) \in Nat
BY LenProperties

\* Where the returns lead.
LEMMA FlushReturnsTo ==
    ASSUME Inv, NEW p \in Procs, NEW ok, FlushReturns(p, ok)
    PROVE  pc'[p] \in {"routing", Idle}
BY DEF FlushReturns, Goto, Exit, Inv, TypeOK

LEMMA AddReturnsTo ==
    ASSUME Inv, NEW p \in Procs, NEW ok, AddReturns(p, ok)
    PROVE  pc'[p] \in {"counting", Idle}
BY DEF AddReturns, CallFlush, Goto, Exit, Inv, TypeOK

LEMMA AfterPortsTo ==
    ASSUME Inv, NEW p \in Procs, AfterPorts(p)
    PROVE  pc'[p] \in {"counting", "accepting", Idle}
BY AddReturnsTo DEF AfterPorts, Goto, Inv, TypeOK

\* A step that leaves the chain alone and leads to neither of the two places the
\* invariant speaks of.
LEMMA CalmStep ==
    ASSUME OneAtATime, LoopInv, NEW p \in Procs, UNCHANGED chain, pc'[p] \notin {"deleting", "dropping"}
    PROVE  LoopInv'
<1>1. \A q \in Procs : pc'[q] \notin {"deleting", "dropping"}
  BY DEF OneAtATime
<1>2. PortRulesAnyDest' /\ LoopbackNeverCut'
  BY DEF LoopInv, PortRulesAnyDest, LoopbackNeverCut
<1>3. ListComplete' /\ LoopbackFirst'
  BY <1>1 DEF ListComplete, LoopbackFirst
<1>4. QED
  BY <1>2, <1>3 DEF LoopInv

\* Appending a rule: a rule that drops the rest needs one for loopback before it.
LEMMA AppendLoop ==
    ASSUME Inv, LoopInv, NEW rule \in Rule, chain' \in {chain, Append(chain, rule)},
           rule.tagged /\ rule.prot = "tcp" => rule.dest = "any",
           rule.tagged /\ rule.dest = "outside" =>
               \E n \in DOMAIN chain : LetsLoopback(chain, n, rule.owner)
    PROVE  PortRulesAnyDest' /\ LoopbackNeverCut'
<1> DEFINE ch == Append(chain, rule)
<1>1. chain \in Seq(Rule) /\ ch \in Seq(Rule)
  BY DEF Inv, TypeOK
<1>2. /\ DOMAIN chain = 1..Len(chain)
      /\ Len(chain) \in Nat
      /\ DOMAIN ch = 1..(Len(chain) + 1)
      /\ ch[Len(chain) + 1] = rule
      /\ \A n \in 1..Len(chain) : ch[n] = chain[n]
  BY <1>1, ChainLines
<1> HIDE DEF ch
<1>3. CASE chain' = chain
  BY <1>3 DEF LoopInv, PortRulesAnyDest, LoopbackNeverCut
<1>4. CASE chain' = ch
  <2>1. ASSUME NEW n \in DOMAIN ch PROVE n \in 1..Len(chain) \/ n = Len(chain) + 1
    BY <1>2
  <2>2. PortRulesAnyDest'
    <3> SUFFICES ASSUME NEW n \in DOMAIN ch, ch[n].tagged, ch[n].prot = "tcp"
                 PROVE  ch[n].dest = "any"
      BY <1>4 DEF PortRulesAnyDest
    <3>1. CASE n \in 1..Len(chain)
      BY <1>2, <3>1 DEF LoopInv, PortRulesAnyDest
    <3>2. CASE n = Len(chain) + 1
      BY <1>2, <3>2
    <3>3. QED
      BY <2>1, <3>1, <3>2
  <2>3. LoopbackNeverCut'
    <3> SUFFICES ASSUME NEW n \in DOMAIN ch, ch[n].tagged, ch[n].dest = "outside"
                 PROVE  \E m \in 1..(n - 1) : ch[m].tagged /\ ch[m].owner = ch[n].owner /\ ch[m].dest = "loopback"
      BY <1>4 DEF LoopbackNeverCut
    <3>1. CASE n \in 1..Len(chain)
      <4>1. PICK m \in 1..(n - 1) : /\ chain[m].tagged /\ chain[m].owner = chain[n].owner
                                    /\ chain[m].dest = "loopback"
        BY <1>2, <3>1 DEF LoopInv, LoopbackNeverCut
      <4>2. m \in 1..Len(chain)
        BY <1>2, <3>1
      <4>3. QED
        BY <1>2, <3>1, <4>1, <4>2
    <3>2. CASE n = Len(chain) + 1
      <4>1. PICK m \in DOMAIN chain : LetsLoopback(chain, m, rule.owner)
        BY <1>2, <3>2
      <4>2. m \in 1..(n - 1) /\ ch[m] = chain[m] /\ ch[n] = rule
        BY <1>2, <3>2
      <4>3. QED
        BY <4>1, <4>2 DEF LetsLoopback
    <3>3. QED
      BY <2>1, <3>1, <3>2
  <2>4. QED
    BY <2>2, <2>3
<1>5. QED
  BY <1>3, <1>4 DEF ch

\* The rule for loopback stays while the chain grows.
LEMMA AppendKeepsLoopback ==
    ASSUME Inv, LoopInv, NEW rule \in Rule, chain' \in {chain, Append(chain, rule)}
    PROVE  \A n \in DOMAIN chain : n \in DOMAIN chain' /\ chain'[n] = chain[n]
<1>1. chain \in Seq(Rule)
  BY DEF Inv, TypeOK
<1>2. CASE chain' = chain
  BY <1>2
<1>3. CASE chain' = Append(chain, rule)
  <2>1. /\ DOMAIN chain = 1..Len(chain)
        /\ DOMAIN chain' = 1..(Len(chain) + 1)
        /\ Len(chain) \in Nat
        /\ \A n \in 1..Len(chain) : chain'[n] = chain[n]
    BY <1>1, <1>3, ChainLines
  <2>2. QED
    BY <2>1
<1>4. QED
  BY <1>2, <1>3

LEMMA BlockLoop ==
    ASSUME OneAtATime, Inv, LoopInv, NEW p \in Procs, Block(p)
    PROVE  LoopInv'
<1> DEFINE rule == TncRule(cmd[p], "tcp", Head(ports[p]), "any", "DROP")
<1>1. cmd[p] \in Commands /\ Head(ports[p]) \in Int
  BY DEF Block, Inv, TypeOK, CommandOK, Idle
<1>2. rule \in Rule /\ rule.dest = "any" /\ chain' \in {chain, Append(chain, rule)}
  BY <1>1, RuleTypes DEF Block, AppendFor, TncRule
<1> HIDE DEF rule
<1>3. PortRulesAnyDest' /\ LoopbackNeverCut'
  BY <1>2, AppendLoop
<1>4. \A q \in Procs : pc'[q] = "blocking"
  BY DEF OneAtATime, Block
<1>5. QED
  BY <1>3, <1>4 DEF LoopInv, ListComplete, LoopbackFirst

LEMMA AcceptLoop ==
    ASSUME Undisturbed, Inv, LoopInv, NEW p \in Procs, Accept(p)
    PROVE  LoopInv'
<1> DEFINE rule == TncRule(cmd[p], "all", 0, "loopback", "ACCEPT")
<1>1. cmd[p] \in Commands
  BY DEF Accept, Inv, CommandOK, Idle
<1>2. /\ rule \in Rule
      /\ rule.dest = "loopback" /\ rule.prot = "all" /\ rule.tagged
      /\ rule.owner = GetUid(cmd[p].user)
  <2>1. rule \in Rule
    BY <1>1, RuleTypes
  <2>2. QED
    BY <2>1 DEF TncRule
<1>3. /\ chain' = AppendFor(cmd[p], rule)
      /\ Goto(p, "dropping")
      /\ UNCHANGED cmd
  BY DEF Accept, Undisturbed
<1> HIDE DEF rule
<1>4. chain' \in {chain, Append(chain, rule)}
  BY <1>3 DEF AppendFor
<1>5. PortRulesAnyDest' /\ LoopbackNeverCut'
  BY <1>2, <1>4, AppendLoop
<1>6. \A q \in Procs : q = p /\ pc'[q] = "dropping"
  BY <1>3 DEF OneAtATime, Undisturbed, Goto, Inv, TypeOK
<1>7. LoopbackFirst'
  <2> SUFFICES ASSUME cmd[p].user \in Known
               PROVE  \E n \in DOMAIN chain' : LetsLoopback(chain', n, GetUid(cmd[p].user))
    BY <1>3, <1>6 DEF LoopbackFirst
  <2>1. chain' = Append(chain, rule) /\ chain \in Seq(Rule)
    BY <1>3 DEF AppendFor, Inv, TypeOK
  <2>2. Len(chain) + 1 \in DOMAIN chain' /\ chain'[Len(chain) + 1] = rule
    BY <1>2, <2>1, ChainLines
  <2>3. QED
    BY <1>2, <2>2 DEF LetsLoopback
<1>8. QED
  BY <1>5, <1>6, <1>7 DEF LoopInv, ListComplete

LEMMA DropLoop ==
    ASSUME Undisturbed, Inv, LoopInv, NEW p \in Procs, Drop(p)
    PROVE  LoopInv'
<1> DEFINE rule == TncRule(cmd[p], "all", 0, "outside", "DROP")
<1>1. cmd[p] \in Commands
  BY DEF Drop, Inv, CommandOK, Idle
<1>2. rule \in Rule /\ rule.prot = "all" /\ rule.owner = GetUid(cmd[p].user)
  <2>1. rule \in Rule
    BY <1>1, RuleTypes
  <2>2. QED
    BY <2>1 DEF TncRule
<1>3. /\ chain' = IF cmd[p].net THEN AppendFor(cmd[p], rule) ELSE chain
      /\ AddReturns(p, TRUE)
  BY DEF Drop, Undisturbed
<1> HIDE DEF rule
<1>4. CASE chain' = chain
  BY <1>3, <1>4, AddReturnsTo, CalmStep DEF Undisturbed, Idle
<1>5. CASE chain' = Append(chain, rule) /\ cmd[p].user \in Known
  <2>1. \E n \in DOMAIN chain : LetsLoopback(chain, n, rule.owner)
    BY <1>2, <1>5 DEF LoopInv, LoopbackFirst, Drop
  <2>2. PortRulesAnyDest' /\ LoopbackNeverCut'
    BY <1>2, <1>5, <2>1, AppendLoop
  <2>3. \A q \in Procs : pc'[q] \in {"counting", Idle}
    BY <1>3, AddReturnsTo DEF OneAtATime, Undisturbed
  <2>4. QED
    BY <2>2, <2>3 DEF LoopInv, ListComplete, LoopbackFirst, Idle
<1>6. QED
  BY <1>3, <1>4, <1>5 DEF AppendFor

LEMMA AppendForeignLoop ==
    ASSUME Inv, LoopInv, NEW rule \in ForeignRules, AppendForeign(rule) PROVE LoopInv'
<1>1. rule \in Rule /\ ~rule.tagged
  BY ForeignAssumption
<1>2. chain' = Append(chain, rule) /\ UNCHANGED <<pc, cmd, todo>>
  BY DEF AppendForeign
<1>3. PortRulesAnyDest' /\ LoopbackNeverCut'
  BY <1>1, <1>2, AppendLoop
<1>4. LoopbackFirst'
  BY <1>1, <1>2, AppendKeepsLoopback DEF LoopInv, LoopbackFirst, LetsLoopback
<1>5. ListComplete'
  <2>1. chain \in Seq(Rule)
    BY DEF Inv, TypeOK
  <2>2. /\ DOMAIN chain = 1..Len(chain)
        /\ DOMAIN chain' = 1..(Len(chain) + 1)
        /\ chain'[Len(chain) + 1] = rule
        /\ Len(chain) \in Nat
        /\ \A n \in 1..Len(chain) : chain'[n] = chain[n]
    BY <1>1, <1>2, <2>1, ChainLines
  <2>3. ASSUME NEW c PROVE Listing(c)' = Listing(c)
    <3>1. \A n \in DOMAIN chain' : Flushed(chain'[n], c) => n \in DOMAIN chain
      BY <1>1, <2>2 DEF Flushed, Own
    <3>2. QED
      BY <2>2, <3>1 DEF Listing
  <2>4. QED
    BY <1>2, <2>3 DEF LoopInv, ListComplete
<1>6. QED
  BY <1>3, <1>4, <1>5 DEF LoopInv

\* A deletion of flush_iptables_user: the last of the lines to flush goes, and
\* each of the lines after it gets the number before.
DeletionOf(p, n) ==
    /\ IsNext(n, todo[p])
    /\ todo' = [todo EXCEPT ![p] = @ \ {n}]
    /\ chain' = RemoveAt(chain, n)
    /\ IF todo[p] = {n} THEN FlushReturns(p, TRUE) ELSE UNCHANGED <<pc, reply, cmd, began>>

LEMMA DeleteFacts ==
    ASSUME Undisturbed, Inv, LoopInv, NEW p \in Procs, Delete(p)
    PROVE  /\ todo[p] = Listing(cmd[p])
           /\ \E n \in 1..Len(chain) : DeletionOf(p, n) /\ Flushed(chain[n], cmd[p])
<1>1. PICK n \in todo[p] :
        /\ IsNext(n, todo[p])
        /\ todo' = [todo EXCEPT ![p] = @ \ {n}]
        /\ chain' = DeleteLine(n)
        /\ IF todo[p] = {n} THEN FlushReturns(p, TRUE) ELSE UNCHANGED <<pc, reply, cmd, began>>
  BY DEF Delete, Undisturbed
<1>2. todo[p] = Listing(cmd[p]) /\ chain \in Seq(Rule)
  BY DEF Delete, LoopInv, ListComplete, Inv, TypeOK
<1>3. n \in 1..Len(chain) /\ n \in DOMAIN chain /\ Flushed(chain[n], cmd[p])
  BY <1>1, <1>2, ChainLines DEF Listing
<1>4. QED
  BY <1>1, <1>2, <1>3 DEF DeletionOf, DeleteLine

\* The number a rule had before line n was deleted.
NumberBefore(i, n) == IF i < n THEN i ELSE i + 1

LEMMA DeletedLines ==
    ASSUME Inv, NEW n \in 1..Len(chain), chain' = RemoveAt(chain, n)
    PROVE  /\ chain' \in Seq(Rule)
           /\ DOMAIN chain = 1..Len(chain)
           /\ Len(chain) \in Nat
           /\ DOMAIN chain' = 1..(Len(chain) - 1)
           /\ \A i \in 1..(n - 1) : chain'[i] = chain[i]
           /\ \A i \in n..(Len(chain) - 1) : chain'[i] = chain[i + 1]
           /\ \A i \in DOMAIN chain' :
                 /\ NumberBefore(i, n) \in DOMAIN chain
                 /\ NumberBefore(i, n) # n
                 /\ chain'[i] = chain[NumberBefore(i, n)]
<1>1. chain \in Seq(Rule) /\ DOMAIN chain = 1..Len(chain) /\ Len(chain) \in Nat
  BY ChainLines DEF Inv, TypeOK
<1>2. /\ chain' \in Seq(Rule)
      /\ Len(chain') = Len(chain) - 1
      /\ \A i \in 1..(n - 1) : chain'[i] = chain[i]
  BY <1>1, RemoveAtProperties
<1>3. \A i \in n..(Len(chain) - 1) : chain'[i] = chain[i + 1]
  BY <1>1, RemoveAtAfter
<1>4. DOMAIN chain' = 1..(Len(chain) - 1)
  BY <1>2, ChainLines
<1>5. \A i \in DOMAIN chain' : /\ NumberBefore(i, n) \in DOMAIN chain
                               /\ NumberBefore(i, n) # n
                               /\ chain'[i] = chain[NumberBefore(i, n)]
  BY <1>1, <1>2, <1>3, <1>4 DEF NumberBefore
<1>6. QED
  BY <1>1, <1>2, <1>3, <1>4, <1>5

\* After a deletion, the lines left to flush are still those of the chain.
LEMMA FlushedLeft ==
    ASSUME Undisturbed, Inv, LoopInv, NEW p \in Procs, Delete(p)
    PROVE  {i \in DOMAIN chain' : Flushed(chain'[i], cmd[p])} = todo'[p]
<1>1. PICK n \in 1..Len(chain) : DeletionOf(p, n) /\ Flushed(chain[n], cmd[p])
  BY DeleteFacts
<1>2. todo[p] = Listing(cmd[p])
  BY DeleteFacts
<1>3. todo'[p] = todo[p] \ {n}
  BY <1>1 DEF DeletionOf, Inv, TypeOK
<1>4. chain' = RemoveAt(chain, n)
  BY <1>1 DEF DeletionOf
<1>5. \A i \in todo[p] \ {n} : i \in 1..(n - 1)
  BY <1>1, <1>2, <1>4, DeletedLines DEF DeletionOf, IsNext, Listing
<1>6. ASSUME NEW i \in DOMAIN chain', Flushed(chain'[i], cmd[p])
      PROVE  i \in todo[p] \ {n}
  <2>1. NumberBefore(i, n) \in todo[p] \ {n}
    BY <1>2, <1>4, <1>6, DeletedLines DEF Listing
  <2>2. NumberBefore(i, n) \in 1..(n - 1)
    BY <1>5, <2>1
  <2>3. i \in Nat
    BY <1>4, DeletedLines
  <2>4. i = NumberBefore(i, n)
    BY <2>2, <2>3 DEF NumberBefore
  <2>5. QED
    BY <2>1, <2>4
<1>7. ASSUME NEW i \in todo[p] \ {n}
      PROVE  i \in DOMAIN chain' /\ Flushed(chain'[i], cmd[p])
  <2>1. i \in 1..(n - 1) /\ Flushed(chain[i], cmd[p])
    BY <1>2, <1>5 DEF Listing
  <2>2. i \in DOMAIN chain' /\ chain'[i] = chain[i]
    BY <1>4, <2>1, DeletedLines
  <2>3. QED
    BY <2>1, <2>2
<1>8. QED
  BY <1>3, <1>6, <1>7

LEMMA DeleteLoop ==
    ASSUME Undisturbed, Inv, LoopInv, NEW p \in Procs, Delete(p)
    PROVE  LoopInv'
<1>1. PICK n \in 1..Len(chain) : DeletionOf(p, n) /\ Flushed(chain[n], cmd[p])
  BY DeleteFacts
<1>2. pc[p] = "deleting" /\ todo[p] = Listing(cmd[p]) /\ chain' = RemoveAt(chain, n)
  BY <1>1, DeleteFacts DEF Delete, DeletionOf
<1>3. /\ chain[n].tagged
      /\ chain[n].owner = GetUid(cmd[p].user)
      /\ cmd[p].only => chain[n].prot = "tcp"
  BY <1>1 DEF Flushed, Own
<1>4. /\ chain' \in Seq(Rule)
      /\ DOMAIN chain = 1..Len(chain)
      /\ Len(chain) \in Nat
      /\ DOMAIN chain' = 1..(Len(chain) - 1)
      /\ \A i \in 1..(n - 1) : chain'[i] = chain[i]
      /\ \A i \in n..(Len(chain) - 1) : chain'[i] = chain[i + 1]
  BY <1>2, DeletedLines
<1>5. \A q \in Procs : q = p
  BY DEF OneAtATime, Undisturbed
<1> DEFINE old(i) == NumberBefore(i, n)
<1>6. \A i \in DOMAIN chain' : old(i) \in DOMAIN chain /\ old(i) # n /\ chain'[i] = chain[old(i)]
  BY <1>2, DeletedLines
<1>7. PortRulesAnyDest'
  BY <1>6 DEF LoopInv, PortRulesAnyDest
<1>8. LoopbackNeverCut'
  <2> SUFFICES ASSUME NEW i \in DOMAIN chain', chain'[i].tagged, chain'[i].dest = "outside"
               PROVE  \E m \in 1..(i - 1) : /\ chain'[m].tagged /\ chain'[m].owner = chain'[i].owner
                                            /\ chain'[m].dest = "loopback"
    BY DEF LoopbackNeverCut
  <2>1. chain'[i] = chain[old(i)] /\ old(i) \in DOMAIN chain
    BY <1>6
  <2>2. PICK m \in 1..(old(i) - 1) : /\ chain[m].tagged /\ chain[m].owner = chain[old(i)].owner
                                     /\ chain[m].dest = "loopback"
    BY <2>1 DEF LoopInv, LoopbackNeverCut
  <2>3. /\ i \in Nat
        /\ i \in 1..(Len(chain) - 1)
        /\ old(i) \in 1..Len(chain)
        /\ m \in 1..Len(chain)
    BY <1>3, <1>4, <2>1, <2>2
  <2>4. CASE m < n
    <3>1. m \in 1..(i - 1) /\ m \in 1..(n - 1)
      BY <1>3, <2>2, <2>3, <2>4 DEF NumberBefore
    <3>2. QED
      BY <1>4, <2>1, <2>2, <3>1
  <2>5. CASE m > n
    <3>1. m - 1 \in 1..(i - 1) /\ m - 1 \in n..(Len(chain) - 1) /\ (m - 1) + 1 = m
      BY <1>3, <2>2, <2>3, <2>5 DEF NumberBefore
    <3>2. QED
      BY <1>4, <2>1, <2>2, <3>1
  \* The rule for loopback is deleted: then it is not a port rule, so every rule
  \* of the uid is flushed, and the one at old(i) was deleted before it.
  <2>6. CASE m = n
    <3>1. chain[old(i)].owner = GetUid(cmd[p].user)
      BY <1>3, <2>2, <2>6
    <3>2. ~cmd[p].only
      BY <1>3, <2>2, <2>6 DEF LoopInv, PortRulesAnyDest
    <3>3. old(i) \in Listing(cmd[p])
      BY <2>1, <3>1, <3>2 DEF Listing, Flushed, Own
    <3>4. old(i) <= n
      BY <1>1, <1>2, <3>3 DEF DeletionOf, IsNext
    <3>5. n < old(i)
      BY <1>3, <2>2, <2>3, <2>6
    <3>6. QED
      BY <1>3, <2>3, <3>4, <3>5
  <2>7. QED
    BY <1>3, <2>3, <2>4, <2>5, <2>6
<1>9. ListComplete'
  <2> SUFFICES ASSUME pc'[p] = "deleting"
               PROVE  todo'[p] = Listing(cmd[p])'
    BY <1>5 DEF ListComplete
  <2>1. UNCHANGED cmd
    BY <1>1, FlushReturnsTo DEF DeletionOf, Idle
  <2>2. QED
    BY <2>1, FlushedLeft DEF Listing
<1>10. LoopbackFirst'
  <2>1. pc'[p] # "dropping"
    BY <1>1, <1>2, FlushReturnsTo DEF DeletionOf, Idle
  <2>2. QED
    BY <1>5, <2>1 DEF LoopbackFirst
<1>11. QED
  BY <1>7, <1>8, <1>9, <1>10 DEF LoopInv

LEMMA ListLoop ==
    ASSUME Undisturbed, Inv, LoopInv, NEW p \in Procs, List(p)
    PROVE  LoopInv'
<1>1. UNCHANGED chain
  BY DEF List
<1>2. CASE pc'[p] \in {"routing", Idle}
  BY <1>1, <1>2, CalmStep DEF Undisturbed, Idle
<1>3. CASE /\ todo' = [todo EXCEPT ![p] = Listing(cmd[p])]
           /\ Goto(p, "deleting")
           /\ UNCHANGED <<reply, cmd, began>>
  <2>1. \A q \in Procs : q = p /\ pc'[q] = "deleting" /\ todo'[q] = Listing(cmd[q])
    BY <1>3 DEF OneAtATime, Undisturbed, Goto, Inv, TypeOK
  <2>2. ListComplete'
    BY <1>1, <1>3, <2>1 DEF ListComplete, Listing
  <2>3. PortRulesAnyDest' /\ LoopbackNeverCut' /\ LoopbackFirst'
    BY <1>1, <2>1 DEF LoopInv, PortRulesAnyDest, LoopbackNeverCut, LoopbackFirst
  <2>4. QED
    BY <2>2, <2>3 DEF LoopInv
<1>4. Exit(p, "died") => pc'[p] = Idle
  BY DEF Exit, Goto, Inv, TypeOK
<1>5. QED
  BY <1>2, <1>3, <1>4, FlushReturnsTo DEF List

LEMMA CalmSteps ==
    ASSUME Undisturbed, Inv, LoopInv, NEW p \in Procs,
           \/ Count(p) \/ Route(p) \/ PortsBlocked(p)
           \/ \E c \in Commands : Refuse(p, c) \/ Status(p, c) \/ Start(p, c)
    PROVE  LoopInv'
<1>1. UNCHANGED chain
  BY DEF Count, Route, PortsBlocked, Refuse, Status, Start
<1>2. \A a : Exit(p, a) => pc'[p] = Idle
  BY DEF Exit, Goto, Inv, TypeOK
<1>3. \A l : Goto(p, l) => pc'[p] = l
  BY DEF Goto, Inv, TypeOK
<1>4. pc'[p] \notin {"deleting", "dropping"}
  <2>1. CASE Count(p)
    BY <1>3, <2>1, FlushReturnsTo DEF Count, Idle
  <2>2. CASE Route(p)
    BY <1>2, <1>3, <2>2, AddReturnsTo, AfterPortsTo DEF Route, Idle
  <2>3. CASE PortsBlocked(p)
    BY <2>3, AfterPortsTo DEF PortsBlocked, Idle
  <2>4. CASE \E c \in Commands : Refuse(p, c) \/ Status(p, c) \/ Start(p, c)
    BY <1>2, <1>3, <2>4 DEF Refuse, Status, Start, CallFlush, Idle
  <2>5. QED
    BY <2>1, <2>2, <2>3, <2>4
<1>5. QED
  BY <1>1, <1>4, CalmStep DEF Undisturbed

LEMMA LoopInit == Init => LoopInv
<1> SUFFICES ASSUME Init PROVE LoopInv
  OBVIOUS
<1>1. \A n \in DOMAIN chain : ~chain[n].tagged
  BY ChainsAssumption DEF Init
<1>2. QED
  BY <1>1 DEF Init, LoopInv, ListComplete, PortRulesAnyDest, LoopbackFirst, LoopbackNeverCut, Idle

LEMMA LoopStep == ASSUME Undisturbed, Inv, LoopInv, [Next]_vars PROVE LoopInv'
<1>1. CASE UNCHANGED vars
  BY <1>1 DEF vars, LoopInv, ListComplete, PortRulesAnyDest, LoopbackFirst, LoopbackNeverCut, Listing
<1>2. CASE \E p \in Procs : Step(p)
  BY <1>2, CalmSteps, ListLoop, DeleteLoop, BlockLoop, AcceptLoop, DropLoop DEF Step, Undisturbed
<1>3. QED
  BY <1>1, <1>2, CalmSteps, AppendForeignLoop DEF Next

LEMMA LoopAlways == Undisturbed /\ Spec => []LoopInv
<1>1. Undisturbed /\ Inv /\ LoopInv /\ [Next]_vars => LoopInv'
  BY LoopStep
<1>2. Undisturbed => []Undisturbed
  OBVIOUS
<1>3. QED
  BY <1>1, <1>2, LoopInit, InvAlways, PTL DEF Spec

\* One command at a time, with no popen failing, no user is ever left with the
\* rule that drops what leaves the network and without the rule for loopback
\* before it, in the middle of add_iptables_user and flush_iptables_user either.
THEOREM LoopbackNeverCutAlways == Undisturbed /\ Spec => []LoopbackNeverCut
<1>1. LoopInv => LoopbackNeverCut
  BY DEF LoopInv
<1>2. QED
  BY <1>1, LoopAlways, PTL
------------------------------------------------------------------------------
(* The refinement of NetPolicy. *)

\* The prover sees the definitions NetPolicy takes from NetRules as its own.
LEMMA PolicyRules ==
    /\ \A s, K : Policy!Only(s, K) = Only(s, K)
    /\ \A user : Policy!GetUid(user) = GetUid(user)
    /\ Policy!GoodPorts = GoodPorts
    /\ \A c : {rule \in Policy!Rule : ~Policy!Flushed(rule, c)} = {rule \in Rule : ~Flushed(rule, c)}
    /\ \A c, prot, port, dest, target :
          Policy!TncRule(c, prot, port, dest, target) = TncRule(c, prot, port, dest, target)
    /\ \A c : Policy!CheckUser(c.caller) = CheckUser(c.caller) /\ Policy!WellFormed(c) = WellFormed(c)
<1>1. \A s, K : Policy!Only(s, K) = Only(s, K)
  BY DEF Policy!Only, Only
<1>2. \A user : Policy!GetUid(user) = GetUid(user)
  BY DEF Policy!GetUid, GetUid
<1>3. Policy!GoodPorts = GoodPorts /\ Policy!Rule = Rule
  BY DEF Policy!GoodPorts, GoodPorts, Policy!Rule, Rule
<1>4. \A rule, c : Policy!Flushed(rule, c) = Flushed(rule, c)
  BY DEF Policy!Flushed, Flushed, Policy!Own, Own, Policy!GetUid, GetUid
<1>5. \A c, prot, port, dest, target :
          Policy!TncRule(c, prot, port, dest, target) = TncRule(c, prot, port, dest, target)
  BY <1>2 DEF Policy!TncRule, TncRule
<1>6. \A c : Policy!CheckUser(c.caller) = CheckUser(c.caller) /\ Policy!WellFormed(c) = WellFormed(c)
  BY DEF Policy!CheckUser, CheckUser, Policy!WellFormed, WellFormed
<1>7. \A c : {rule \in Policy!Rule : ~Policy!Flushed(rule, c)} = {rule \in Rule : ~Flushed(rule, c)}
  BY <1>3, <1>4
<1>8. QED
  BY <1>1, <1>2, <1>3, <1>5, <1>6, <1>7

\* What a flush of c leaves in the chain.
Rest(c) == {rule \in Rule : ~Flushed(rule, c)}

\* The rules of the uid that c names, and what a flush leaves of them.
Mine(ch, c) == Only(ch, OfUid(GetUid(c.user)))
Stay(ch, c) == Only(Mine(ch, c), Rest(c))

\* The rules c adds: for its ports, and for loopback traffic.
Blocks(c, s) == [i \in DOMAIN s |-> TncRule(c, "tcp", s[i], "any", "DROP")]
Given(c) == IF c.portsArg = "list" THEN c.ports ELSE << >>
PortsPart(c) == IF c.user \in Known THEN Blocks(c, Only(Given(c), GoodPorts)) ELSE << >>
LoopbackPart(c) == IF c.user \in Known THEN <<TncRule(c, "all", 0, "loopback", "ACCEPT")>> ELSE << >>

\* The rules of every other uid and of the other programs are the same in two chains.
RestSame(ch, b, c) == /\ \A u \in Uids \ {GetUid(c.user)} : Only(ch, OfUid(u)) = Only(b, OfUid(u))
                      /\ Only(ch, Untagged) = Only(b, Untagged)

Flushing == {"counting", "listing", "deleting"}

\* Where a running command can be, and who called flush_iptables_user.
CourseOK(p) ==
    LET c == cmd[p] IN
    /\ c \in Commands /\ CheckUser(c.caller) /\ WellFormed(c) /\ c.op # "status"
    /\ ret[p] \in {"add", "failed", "enable"}
    /\ ret[p] = "enable" <=> c.op = "enable-internet"
    /\ ret[p] = "failed" => c.only /\ c.portsArg # "list" /\ pc[p] \in {"counting", "listing"}
    /\ pc[p] \notin Flushing => ret[p] = "add"
    /\ pc[p] = "blocking" => c.portsArg = "list"
    /\ pc[p] \in {"accepting", "dropping"} => ~c.only
    /\ pc[p] \in Flushing \union {"routing"} => ports[p] = Given(c)

\* What a running command has done so far to the list of its uid, compared with
\* the chain it began with.
ListOK(p) ==
    LET c    == cmd[p]
        mine == Mine(chain, c)
        stay == Stay(began[p], c)
    IN
    /\ RestSame(chain, began[p], c)
    /\ pc[p] \in Flushing => Stay(chain, c) = stay
    /\ pc[p] \in {"counting", "listing"} /\ ret[p] # "failed" => mine = Mine(began[p], c)
    /\ pc[p] = "routing" \/ ret[p] = "failed" => mine = stay
    /\ pc[p] = "listing" => StatusIptablesUser(c.user)
    /\ pc[p] = "blocking" => IF c.user \in Known
                             THEN mine \o Blocks(c, Only(ports[p], GoodPorts)) = stay \o PortsPart(c)
                             ELSE mine = stay
    /\ pc[p] = "accepting" => mine = stay \o PortsPart(c)
    /\ pc[p] = "dropping" => mine = (stay \o PortsPart(c)) \o LoopbackPart(c)

\* The inductive invariant of the refinement.
RefInv == \A p \in Procs : pc[p] # Idle => CourseOK(p) /\ ListOK(p)
------------------------------------------------------------------------------
(* Lists of one uid. *)

LEMMA MineTypes ==
    ASSUME NEW ch \in Seq(Rule), NEW c
    PROVE  Mine(ch, c) \in Seq(Rule) /\ Stay(ch, c) \in Seq(Rule)
BY OnlyIn DEF Mine, Stay

\* A flush leaves the same of a list, however often it is done.
LEMMA StayTwice ==
    ASSUME NEW ch \in Seq(Rule), NEW b \in Seq(Rule), NEW c, Mine(ch, c) = Stay(b, c)
    PROVE  Stay(ch, c) = Stay(b, c)
<1> DEFINE R == Rest(c)
           m == Mine(b, c)
<1>1. m \in Seq(Rule)
  BY MineTypes
<1> HIDE DEF R, m
<1>2. Only(Only(m, R), R) = Only(m, R \cap R)
  BY <1>1, OnlyOnly
<1>3. R \cap R = R
  OBVIOUS
<1>4. Only(Only(m, R), R) = Only(m, R)
  BY <1>2, <1>3
<1>5. QED
  BY <1>4 DEF Stay, R, m

\* When no rule is left to flush, the list is what the flush leaves of it.
LEMMA NothingFlushed ==
    ASSUME NEW ch \in Seq(Rule), NEW c, \A n \in DOMAIN ch : ~Flushed(ch[n], c)
    PROVE  Mine(ch, c) = Stay(ch, c)
<1> DEFINE K == OfUid(GetUid(c.user))
           R == Rest(c)
<1>1. /\ DOMAIN ch = 1..Len(ch)
      /\ \A n \in 1..Len(ch) : ch[n] \in Rule
  BY ChainLines, LenProperties
<1>2. \A n \in 1..Len(ch) : ch[n] \in K <=> ch[n] \in K \cap R
  BY <1>1 DEF Rest
<1>3. Only(ch, K) = Only(ch, K \cap R)
  <2> HIDE DEF K, R
  <2> QED BY <1>2, OnlySame
<1>4. Only(Only(ch, K), R) = Only(ch, K \cap R)
  <2> HIDE DEF K, R
  <2> QED BY OnlyOnly
<1>5. QED
  BY <1>3, <1>4 DEF Mine, Stay

\* status_iptables_user finds a rule when the list of the uid is not empty.
LEMMA OnlyNone ==
    ASSUME NEW S, NEW K
    PROVE  \A s \in Seq(S) : (\A n \in 1..Len(s) : s[n] \notin K) <=> Only(s, K) = << >>
<1> DEFINE Bare(s) == (\A n \in 1..Len(s) : s[n] \notin K) <=> Only(s, K) = << >>
           T == {s \in Seq(S) : Bare(s)}
<1>1. << >> \in T
  BY OnlyEmpty, EmptySeq
<1>2. ASSUME NEW s \in Seq(S), NEW e \in S, s \in T PROVE Append(s, e) \in T
  <2>1. Bare(s) /\ Only(s, K) \in Seq(S)
    BY <1>2, OnlyIn
  <2>2. /\ Append(s, e) \in Seq(S)
        /\ Len(s) \in Nat
        /\ Len(Append(s, e)) = Len(s) + 1
        /\ Append(s, e)[Len(s) + 1] = e
        /\ \A i \in 1..Len(s) : Append(s, e)[i] = s[i]
    OBVIOUS
  <2>3. CASE e \in K
    <3>1. Only(Append(s, e), K) = Append(Only(s, K), e)
      BY <2>3, OnlyAppend
    <3>2. Append(Only(s, K), e) # << >>
      BY <2>1
    <3>3. Len(s) + 1 \in 1..Len(Append(s, e))
      BY <2>2
    <3>4. QED
      BY <2>2, <2>3, <3>1, <3>2, <3>3
  <2>4. CASE e \notin K
    <3>1. Only(Append(s, e), K) = Only(s, K)
      BY <2>4, OnlyAppend
    <3>2. (\A n \in 1..Len(s) : s[n] \notin K) <=> \A n \in 1..Len(Append(s, e)) : Append(s, e)[n] \notin K
      BY <2>2, <2>4
    <3>3. QED
      BY <2>1, <2>2, <3>1, <3>2
  <2>5. QED
    BY <2>3, <2>4
<1> HIDE DEF T
<1>3. \A s \in Seq(S) : s \in T
  BY <1>1, <1>2, SeqSet
<1>4. QED
  BY <1>3 DEF T

LEMMA StatusIsMine ==
    ASSUME chain \in Seq(Rule), NEW c
    PROVE  StatusIptablesUser(c.user) <=> Mine(chain, c) # << >>
<1>1. /\ DOMAIN chain = 1..Len(chain)
      /\ \A n \in 1..Len(chain) : chain[n] \in Rule
  BY ChainLines, LenProperties
<1>2. \A n \in 1..Len(chain) : Own(chain[n], c.user) <=> chain[n] \in OfUid(GetUid(c.user))
  BY <1>1 DEF Own, OfUid
<1>3. QED
  BY <1>1, <1>2, OnlyNone DEF StatusIptablesUser, Mine

\* Appending to a list with a first element.
LEMMA AppendToConcat ==
    ASSUME NEW S, NEW a \in S, NEW s \in Seq(S), NEW e \in S
    PROVE  Append(<<a>> \o s, e) = <<a>> \o Append(s, e)
<1>1. Append(<<a>> \o s, e) = (<<a>> \o s) \o <<e>>
  BY AppendIsConcat
<1>2. Append(s, e) = s \o <<e>>
  BY AppendIsConcat
<1>3. <<a>> \in Seq(S) /\ <<e>> \in Seq(S)
  OBVIOUS
<1>4. (<<a>> \o s) \o <<e>> = <<a>> \o (s \o <<e>>)
  BY <1>3, ConcatAssociative
<1>5. QED
  BY <1>1, <1>2, <1>4

\* The first of the ports.
LEMMA OnlyHead ==
    ASSUME NEW S, NEW K
    PROVE  \A s \in Seq(S) : s # << >> =>
               Only(s, K) = IF Head(s) \in K THEN <<Head(s)>> \o Only(Tail(s), K) ELSE Only(Tail(s), K)
<1> DEFINE First(s) == Only(s, K) = IF Head(s) \in K THEN <<Head(s)>> \o Only(Tail(s), K) ELSE Only(Tail(s), K)
           T == {s \in Seq(S) : s # << >> => First(s)}
<1>1. << >> \in T
  BY EmptySeq
<1>2. ASSUME NEW s \in Seq(S), NEW e \in S, s \in T PROVE Append(s, e) \in T
  <2>1. Append(s, e) \in Seq(S)
    OBVIOUS
  <2>2. Only(Append(s, e), K) = IF e \in K THEN Append(Only(s, K), e) ELSE Only(s, K)
    BY OnlyAppend
  <2>3. CASE s = << >>
    <3>1. Head(Append(s, e)) = e /\ Tail(Append(s, e)) = << >> /\ Only(<< >>, K) = << >>
      BY <2>3, OnlyEmpty
    <3>2. Append(<< >>, e) = <<e>> /\ <<e>> \o << >> = <<e>>
      OBVIOUS
    <3>3. First(Append(s, e))
      BY <2>2, <2>3, <3>1, <3>2
    <3>4. QED
      BY <2>1, <3>3
  <2>4. CASE s # << >>
    <3>1. First(s)
      BY <1>2, <2>4
    <3>2. /\ Head(Append(s, e)) = Head(s)
          /\ Tail(Append(s, e)) = Append(Tail(s), e)
          /\ Head(s) \in S
          /\ Tail(s) \in Seq(S)
      BY <2>4
    <3>3. Only(Append(Tail(s), e), K) = IF e \in K THEN Append(Only(Tail(s), K), e) ELSE Only(Tail(s), K)
      BY <3>2, OnlyAppend
    <3>4. Only(Tail(s), K) \in Seq(S)
      BY <3>2, OnlyIn
    <3>5. Append(<<Head(s)>> \o Only(Tail(s), K), e) = <<Head(s)>> \o Append(Only(Tail(s), K), e)
      BY <3>2, <3>4, AppendToConcat
    <3>6. First(Append(s, e))
      <4>1. CASE Head(s) \in K
        BY <2>2, <3>1, <3>2, <3>3, <3>5, <4>1
      <4>2. CASE Head(s) \notin K
        BY <2>2, <3>1, <3>2, <3>3, <4>2
      <4>3. QED
        BY <4>1, <4>2
    <3>7. QED
      BY <2>1, <3>6
  <2>5. QED
    BY <2>3, <2>4
<1> HIDE DEF T
<1>3. \A s \in Seq(S) : s \in T
  BY <1>1, <1>2, SeqSet
<1>4. QED
  BY <1>3 DEF T
------------------------------------------------------------------------------
LEMMA AppendConcat ==
    ASSUME NEW S, NEW s \in Seq(S), NEW a \in S, NEW t \in Seq(S)
    PROVE  Append(s, a) \o t = s \o (<<a>> \o t)
<1>1. Append(s, a) = s \o <<a>>
  BY AppendIsConcat
<1>2. <<a>> \in Seq(S)
  OBVIOUS
<1>3. (s \o <<a>>) \o t = s \o (<<a>> \o t)
  BY <1>2, ConcatAssociative
<1>4. QED
  BY <1>1, <1>3

\* The port rules of a command.
LEMMA BlocksType ==
    ASSUME NEW c \in Commands, NEW s \in Seq(Int)
    PROVE  /\ Blocks(c, s) \in Seq(Rule)
           /\ Len(Blocks(c, s)) = Len(s)
           /\ \A i \in 1..Len(s) : Blocks(c, s)[i] = TncRule(c, "tcp", s[i], "any", "DROP")
<1>1. DOMAIN s = 1..Len(s) /\ Len(s) \in Nat /\ \A i \in 1..Len(s) : s[i] \in Int
  BY LenProperties
<1>2. \A i \in 1..Len(s) : TncRule(c, "tcp", s[i], "any", "DROP") \in Rule
  BY <1>1, RuleTypes
<1>3. Blocks(c, s) = [i \in 1..Len(s) |-> TncRule(c, "tcp", s[i], "any", "DROP")]
  BY <1>1 DEF Blocks
<1>4. Blocks(c, s) \in [1..Len(s) -> Rule]
  BY <1>2, <1>3
<1>5. Blocks(c, s) \in Seq(Rule) /\ Len(Blocks(c, s)) = Len(s)
  BY <1>1, <1>4, SeqDef, LenProperties
<1>6. QED
  BY <1>3, <1>5

\* A list with a first element.
LEMMA ConsProperties ==
    ASSUME NEW S, NEW a \in S, NEW t \in Seq(S)
    PROVE  /\ <<a>> \o t \in Seq(S)
           /\ Len(t) \in Nat
           /\ Len(<<a>> \o t) = 1 + Len(t)
           /\ (<<a>> \o t)[1] = a
           /\ \A i \in 2..(1 + Len(t)) : (<<a>> \o t)[i] = t[i - 1]
<1>1. <<a>> \in Seq(S) /\ Len(<<a>>) = 1 /\ <<a>>[1] = a /\ Len(t) \in Nat
  OBVIOUS
<1>2. /\ <<a>> \o t \in Seq(S)
      /\ Len(<<a>> \o t) = 1 + Len(t)
      /\ \A i \in 1..(1 + Len(t)) : (<<a>> \o t)[i] = IF i <= 1 THEN <<a>>[i] ELSE t[i - 1]
  BY <1>1, ConcatProperties
<1>3. QED
  BY <1>1, <1>2

LEMMA BlocksHead ==
    ASSUME NEW c \in Commands, NEW h \in Int, NEW t \in Seq(Int)
    PROVE  Blocks(c, <<h>> \o t) = <<TncRule(c, "tcp", h, "any", "DROP")>> \o Blocks(c, t)
<1> DEFINE rule(port) == TncRule(c, "tcp", port, "any", "DROP")
           s == <<h>> \o t
           x == Blocks(c, s)
           y == Blocks(c, t)
           z == <<rule(h)>> \o y
<1>1. /\ s \in Seq(Int)
      /\ Len(t) \in Nat
      /\ Len(s) = 1 + Len(t)
      /\ s[1] = h
      /\ \A i \in 2..(1 + Len(t)) : s[i] = t[i - 1]
  BY ConsProperties
<1>2. rule(h) \in Rule /\ \A i \in 1..Len(t) : rule(t[i]) \in Rule
  BY RuleTypes, LenProperties
<1>3. /\ x \in Seq(Rule)
      /\ Len(x) = 1 + Len(t)
      /\ \A i \in 1..(1 + Len(t)) : x[i] = rule(s[i])
  <2> HIDE DEF s
  <2>1. QED
    BY <1>1, BlocksType
<1>4. y \in Seq(Rule) /\ Len(y) = Len(t) /\ \A i \in 1..Len(t) : y[i] = rule(t[i])
  BY BlocksType
<1> HIDE DEF s, x, y, rule
<1>5. /\ z \in Seq(Rule)
      /\ Len(z) = 1 + Len(t)
      /\ z[1] = rule(h)
      /\ \A i \in 2..(1 + Len(t)) : z[i] = y[i - 1]
  BY <1>2, <1>4, ConsProperties
<1> HIDE DEF z
<1>6. ASSUME NEW i \in 1..(1 + Len(t)) PROVE x[i] = z[i]
  <2>1. CASE i = 1
    BY <1>1, <1>3, <1>5, <2>1
  <2>2. CASE i # 1
    <3>1. i \in 2..(1 + Len(t)) /\ i - 1 \in 1..Len(t)
      BY <1>1, <2>2
    <3>2. QED
      BY <3>1, <1>1, <1>3, <1>4, <1>5
  <2>3. QED
    BY <2>1, <2>2
<1>7. x = z
  BY <1>3, <1>5, <1>6, SeqEqual
<1>8. QED
  BY <1>7 DEF x, z, y, s, rule
------------------------------------------------------------------------------
(* The chain that the policy sees. *)

LEMMA ViewIdle ==
    ASSUME OneAtATime, NEW p \in Procs, pc[p] = Idle
    PROVE  View = chain
<1>1. Running = {}
  BY DEF Running, OneAtATime
<1>2. QED
  BY <1>1 DEF View

LEMMA ViewRunning ==
    ASSUME OneAtATime, NEW p \in Procs, pc[p] # Idle
    PROVE  View = began[p]
<1>1. Running = {p}
  BY DEF Running, OneAtATime
<1>2. (CHOOSE q \in {p} : TRUE) = p
  OBVIOUS
<1>3. QED
  BY <1>1, <1>2 DEF View

\* The same of the state after a step.
LEMMA ViewIdleNext ==
    ASSUME OneAtATime, NEW p \in Procs, pc'[p] = Idle
    PROVE  View' = chain'
<1>1. Running' = {}
  BY DEF Running, OneAtATime
<1>2. QED
  BY <1>1 DEF View

LEMMA ViewRunningNext ==
    ASSUME OneAtATime, NEW p \in Procs, pc'[p] # Idle
    PROVE  View' = began'[p]
<1>1. Running' = {p}
  BY DEF Running, OneAtATime
<1>2. (CHOOSE q \in {p} : TRUE) = p
  OBVIOUS
<1>3. QED
  BY <1>1, <1>2 DEF View

\* A step that leaves the view and the answers as they are.
LEMMA ViewSame ==
    ASSUME View' = View, UNCHANGED reply
    PROVE  UNCHANGED Policy!policyVars
BY DEF Policy!policyVars, OfUid, Untagged

\* A step of a command that goes on.
LEMMA GoesOn ==
    ASSUME OneAtATime, NEW p \in Procs, pc[p] # Idle, pc'[p] # Idle, UNCHANGED <<began, reply>>
    PROVE  UNCHANGED Policy!policyVars
<1>1. View = began[p]
  BY ViewRunning
<1>2. View' = began[p]
  BY ViewRunningNext
<1>3. QED
  BY <1>1, <1>2, ViewSame

\* A command that exits after changing the list of its uid.
LEMMA ExitBecomes ==
    ASSUME Inv, OneAtATime, NEW p \in Procs, pc[p] # Idle, pc'[p] = Idle,
           NEW c \in Commands, RestSame(chain', began[p], c)
    PROVE  Policy!Becomes(c, Mine(chain', c))
<1>1. View = began[p] /\ View' = chain'
  BY ViewRunning, ViewIdleNext
<1>2. GetUid(c.user) \in Uids /\ Policy!GetUid(c.user) = GetUid(c.user)
  BY PolicyRules, UsersAssumption DEF GetUid
<1>3. \A u \in Uids \ {GetUid(c.user)} : Only(chain', OfUid(u)) = Only(began[p], OfUid(u))
  BY DEF RestSame
<1>4. Only(chain', Untagged) = Only(began[p], Untagged)
  BY DEF RestSame
<1>5. [u \in Uids |-> Only(View, OfUid(u))]' = [u \in Uids |-> Only(chain', OfUid(u))]
  BY <1>1 DEF OfUid
<1>6. Only(View, Untagged)' = Only(chain', Untagged)
  BY <1>1 DEF Untagged
<1>7. [u \in Uids |-> Only(chain', OfUid(u))] =
         [[u \in Uids |-> Only(began[p], OfUid(u))] EXCEPT ![GetUid(c.user)] = Mine(chain', c)]
  BY <1>2, <1>3 DEF Mine
<1>8. QED
  BY <1>1, <1>2, <1>4, <1>5, <1>6, <1>7 DEF Policy!Becomes

\* What the policy keeps and adds is what the program does.
LEMMA PolicyKept ==
    ASSUME OneAtATime, NEW p \in Procs, pc[p] # Idle, NEW c \in Commands
    PROVE  Policy!Kept(c) = Stay(began[p], c)
<1>1. View = began[p]
  BY ViewRunning
<1>2. GetUid(c.user) \in Uids
  BY UsersAssumption DEF GetUid
<1>3. QED
  BY <1>1, <1>2, PolicyRules DEF Policy!Kept, Stay, Mine, Rest

LEMMA PolicyAdded ==
    ASSUME NEW c \in Commands
    PROVE  Policy!Added(c) =
             IF c.user \notin Known THEN << >>
             ELSE Blocks(c, Only(Given(c), GoodPorts)) \o
                  (IF c.only THEN << >>
                   ELSE <<TncRule(c, "all", 0, "loopback", "ACCEPT")>>
                        \o (IF c.net THEN <<TncRule(c, "all", 0, "outside", "DROP")>> ELSE << >>))
<1>1. c.portsArg = "list" => Policy!PortRules(c) = Blocks(c, Only(Given(c), GoodPorts))
  BY PolicyRules DEF Policy!PortRules, Blocks, Given
<1>2. c.portsArg # "list" => Blocks(c, Only(Given(c), GoodPorts)) = << >>
  BY OnlyEmpty DEF Blocks, Given
<1>3. QED
  BY <1>1, <1>2, PolicyRules DEF Policy!Added, Policy!NetworkRules
------------------------------------------------------------------------------
\* A step of NetController is a step of the policy, or none.
Simulates == Policy!Next \/ UNCHANGED Policy!policyVars

\* There is one command to look at.
LEMMA RefOne ==
    ASSUME OneAtATime, NEW p \in Procs, pc'[p] # Idle => CourseOK(p)' /\ ListOK(p)'
    PROVE  RefInv'
<1>1. \A q \in Procs : q = p
  BY DEF OneAtATime
<1>2. QED
  BY <1>1 DEF RefInv

\* How a command may end.
Ending(p, c, a) ==
    \/ /\ a = "enabled" /\ c.op = "enable-internet"
       /\ Mine(chain', c) = Stay(began[p], c)
    \/ /\ a = "disable-error" /\ c.op = "disable-internet" /\ c.only /\ c.portsArg # "list"
       /\ Mine(chain', c) = Stay(began[p], c)
    \/ /\ a = "disabled" /\ c.op = "disable-internet" /\ (c.only => c.portsArg = "list")
       /\ Mine(chain', c) = Stay(began[p], c) \o Policy!Added(c)
    \/ /\ a = "died"
       /\ Mine(chain', c) = Stay(began[p], c)
       /\ \/ c.op = "disable-internet" /\ ~c.net
          \/ /\ c.only /\ Stay(began[p], c) # << >>
             /\ \/ c.op = "disable-internet" /\ c.portsArg # "list"
                \/ Stay(began[p], c) = Mine(began[p], c)

\* Such an exit is a step of the policy.
LEMMA Finish ==
    ASSUME Inv, OneAtATime, NEW p \in Procs, pc[p] # Idle, CourseOK(p), NEW a,
           Exit(p, a), RestSame(chain', began[p], cmd[p]), Ending(p, cmd[p], a)
    PROVE  RefInv' /\ Simulates
<1> DEFINE c == cmd[p]
<1>1. /\ c \in Commands /\ CheckUser(c.caller) /\ WellFormed(c)
      /\ c.op # "status"
  BY DEF CourseOK
<1>2. c.op \in {"disable-internet", "enable-internet"}
  BY <1>1, CommandsAssumption DEF Command
<1>3. pc'[p] = Idle /\ Policy!Answers(p, a)
  BY DEF Exit, Goto, Inv, TypeOK, Policy!Answers
<1>4. RefInv'
  BY <1>3, RefOne
<1>5. Policy!Becomes(c, Mine(chain', c))
  BY <1>1, <1>3, ExitBecomes
<1>6. Policy!Kept(c) = Stay(began[p], c)
  BY <1>1, PolicyKept
<1>7. Policy!AsksNothing(c) <=> c.op = "disable-internet" /\ c.only /\ c.portsArg # "list"
  BY DEF Policy!AsksNothing
<1>8. /\ View = began[p]
      /\ Policy!GetUid(c.user) = GetUid(c.user)
      /\ GetUid(c.user) \in Uids
  BY ViewRunning, PolicyRules, UsersAssumption DEF GetUid
<1>9. [u \in Uids |-> Only(View, OfUid(u))][Policy!GetUid(c.user)] = Mine(began[p], c)
  BY <1>8 DEF Mine
<1> HIDE DEF c
<1>10. \/ c.op = "enable-internet" /\ Policy!Enabled(p, c)
       \/ c.op = "disable-internet" /\ Policy!Disabled(p, c)
       \/ c.op # "status" /\ Policy!Died(p, c)
  <2>1. CASE a = "enabled" /\ c.op = "enable-internet" /\ Mine(chain', c) = Stay(began[p], c)
    BY <1>3, <1>5, <1>6, <2>1 DEF Policy!Enabled
  <2>2. CASE /\ a = "disable-error" /\ c.op = "disable-internet" /\ c.only /\ c.portsArg # "list"
             /\ Mine(chain', c) = Stay(began[p], c)
    BY <1>3, <1>5, <1>6, <1>7, <2>2 DEF Policy!Disabled
  <2>3. CASE /\ a = "disabled" /\ c.op = "disable-internet" /\ (c.only => c.portsArg = "list")
             /\ Mine(chain', c) = Stay(began[p], c) \o Policy!Added(c)
    BY <1>3, <1>5, <1>6, <1>7, <2>3 DEF Policy!Disabled
  <2>4. CASE /\ a = "died"
             /\ Mine(chain', c) = Stay(began[p], c)
             /\ \/ c.op = "disable-internet" /\ ~c.net
                \/ /\ c.only /\ Stay(began[p], c) # << >>
                   /\ \/ c.op = "disable-internet" /\ c.portsArg # "list"
                      \/ Stay(began[p], c) = Mine(began[p], c)
    BY <1>1, <1>3, <1>5, <1>6, <1>7, <1>9, <2>4 DEF Policy!Died
  <2>5. QED
    BY <2>1, <2>2, <2>3, <2>4 DEF Ending, c
<1>11. Policy!CheckUser(c.caller) /\ Policy!WellFormed(c)
  BY <1>1, PolicyRules
<1>12. \E d \in Commands : /\ Policy!CheckUser(d.caller) /\ Policy!WellFormed(d)
                           /\ \/ d.op = "enable-internet" /\ Policy!Enabled(p, d)
                              \/ d.op = "disable-internet" /\ Policy!Disabled(p, d)
                              \/ d.op # "status" /\ Policy!Died(p, d)
  BY <1>1, <1>10, <1>11
<1>13. Policy!Next
  BY <1>12 DEF Policy!Next
<1>14. QED
  BY <1>4, <1>13 DEF Simulates

\* flush_iptables_user returns, with nothing left to flush.
LEMMA FlushDone ==
    ASSUME Inv, OneAtATime, NEW p \in Procs, pc[p] \in Flushing, CourseOK(p), ListOK(p),
           RestSame(chain', began[p], cmd[p]), Mine(chain', cmd[p]) = Stay(began[p], cmd[p]),
           chain' \in Seq(Rule), FlushReturns(p, TRUE), UNCHANGED <<ret, ports>>
    PROVE  RefInv' /\ Simulates
<1>1. pc[p] # Idle
  BY DEF Flushing, Idle
<1>2. CASE /\ ret[p] = "add"
           /\ Goto(p, "routing")
           /\ UNCHANGED <<reply, cmd, began>>
  <2>1. pc'[p] = "routing"
    BY <1>2 DEF Goto, Inv, TypeOK
  <2>2. CourseOK(p)'
    BY <1>2, <2>1 DEF CourseOK, Flushing
  <2>3. ListOK(p)'
    BY <1>2, <2>1 DEF ListOK, Flushing
  <2>4. QED
    BY <1>1, <1>2, <2>1, <2>2, <2>3, RefOne, GoesOn DEF Simulates, Idle
<1>3. CASE ret[p] = "failed" /\ Exit(p, "disable-error")
  <2>1. cmd[p].op = "disable-internet" /\ cmd[p].only /\ cmd[p].portsArg # "list"
    BY <1>3, CommandsAssumption DEF CourseOK, Command
  <2>2. QED
    BY <1>1, <1>3, <2>1, Finish DEF Ending
<1>4. CASE ret[p] = "enable" /\ Exit(p, "enabled")
  <2>1. cmd[p].op = "enable-internet"
    BY <1>4 DEF CourseOK
  <2>2. QED
    BY <1>1, <1>4, <2>1, Finish DEF Ending
<1>5. QED
  BY <1>2, <1>3, <1>4 DEF FlushReturns
------------------------------------------------------------------------------
(* The steps of a command. *)

\* What holds of a command under way.
LEMMA RunningFacts ==
    ASSUME Inv, RefInv, NEW p \in Procs, pc[p] # Idle
    PROVE  /\ CourseOK(p) /\ ListOK(p)
           /\ cmd[p] \in Commands
           /\ GetUid(cmd[p].user) \in Uids
           /\ chain \in Seq(Rule) /\ began[p] \in Seq(Rule)
           /\ Mine(chain, cmd[p]) \in Seq(Rule)
           /\ Stay(began[p], cmd[p]) \in Seq(Rule)
           /\ RestSame(chain, began[p], cmd[p])
<1>1. CourseOK(p) /\ ListOK(p) /\ chain \in Seq(Rule) /\ began[p] \in Seq(Rule)
  BY DEF RefInv, Inv, TypeOK
<1>2. cmd[p] \in Commands /\ RestSame(chain, began[p], cmd[p])
  BY <1>1 DEF CourseOK, ListOK
<1>3. GetUid(cmd[p].user) \in Uids
  BY UsersAssumption DEF GetUid
<1>4. Mine(chain, cmd[p]) \in Seq(Rule) /\ Stay(began[p], cmd[p]) \in Seq(Rule)
  BY <1>1, MineTypes
<1>5. QED
  BY <1>1, <1>2, <1>3, <1>4

\* A list that a flush left holds no rule to flush.
LEMMA StayBare ==
    ASSUME NEW ch \in Seq(Rule), NEW b \in Seq(Rule), NEW c, Mine(ch, c) = Stay(b, c)
    PROVE  \A n \in DOMAIN ch : ~Flushed(ch[n], c)
<1> DEFINE K == OfUid(GetUid(c.user))
           R == Rest(c)
           F == {rule \in Rule : Flushed(rule, c)}
           m == Mine(b, c)
<1>1. m \in Seq(Rule)
  BY MineTypes
<1>2. Only(Only(ch, K), F) = Only(ch, K \cap F)
  <2> HIDE DEF K, F
  <2> QED BY OnlyOnly
<1>3. Only(Only(m, R), F) = Only(m, R \cap F)
  <2> HIDE DEF m, R, F
  <2> QED BY <1>1, OnlyOnly
<1>4. \A n \in 1..Len(m) : m[n] \notin R \cap F
  BY DEF Rest
<1>5. Only(m, R \cap F) = << >>
  <2> HIDE DEF m, R, F
  <2> QED BY <1>1, <1>4, OnlyNone
<1>6. Only(ch, K) = Only(m, R)
  BY DEF Mine, Stay
<1>7. Only(ch, K \cap F) = << >>
  <2> HIDE DEF K, m, R, F
  <2> QED BY <1>2, <1>3, <1>5, <1>6
<1>8. \A n \in 1..Len(ch) : ch[n] \notin K \cap F
  <2> HIDE DEF K, F
  <2> QED BY <1>7, OnlyNone
<1>9. DOMAIN ch = 1..Len(ch) /\ \A n \in 1..Len(ch) : ch[n] \in Rule
  BY ChainLines, LenProperties
<1>10. \A n \in 1..Len(ch) : Flushed(ch[n], c) => ch[n] \in K \cap F
  BY <1>9 DEF Flushed, Own, OfUid
<1>11. QED
  BY <1>8, <1>9, <1>10

LEMMA CountRef ==
    ASSUME Inv, Undisturbed, RefInv, NEW p \in Procs, Count(p)
    PROVE  RefInv' /\ Simulates
<1>1. /\ pc[p] = "counting" /\ pc[p] # Idle /\ pc[p] \in Flushing
      /\ UNCHANGED <<chain, ret, todo, ports, issued, foreign, stale>>
      /\ OneAtATime
  BY DEF Count, Idle, Flushing, Undisturbed
<1>2. /\ CourseOK(p)
      /\ ListOK(p)
      /\ chain \in Seq(Rule)
      /\ RestSame(chain, began[p], cmd[p])
  BY <1>1, RunningFacts
<1>3. CASE /\ StatusIptablesUser(cmd[p].user)
           /\ Goto(p, "listing")
           /\ UNCHANGED <<reply, cmd, began>>
  <2>1. pc'[p] = "listing"
    BY <1>3 DEF Goto, Inv, TypeOK
  <2>2. CourseOK(p)'
    BY <1>1, <1>2, <1>3, <2>1 DEF CourseOK, Flushing
  <2>3. StatusIptablesUser(cmd[p].user)'
    BY <1>1, <1>3 DEF StatusIptablesUser
  <2>4. ListOK(p)'
    BY <1>1, <1>2, <1>3, <2>1, <2>3 DEF ListOK, Flushing
  <2>5. QED
    BY <1>1, <1>3, <2>1, <2>2, <2>4, RefOne, GoesOn DEF Simulates, Idle
<1>4. CASE ~StatusIptablesUser(cmd[p].user) /\ FlushReturns(p, TRUE)
  <2>1. \A n \in DOMAIN chain : ~Flushed(chain[n], cmd[p])
    BY <1>4 DEF StatusIptablesUser, Flushed
  <2>2. Mine(chain, cmd[p]) = Stay(chain, cmd[p])
    BY <1>2, <2>1, NothingFlushed
  <2>3. Mine(chain, cmd[p]) = Stay(began[p], cmd[p])
    BY <1>1, <1>2, <2>2 DEF ListOK
  <2>4. QED
    BY <1>1, <1>2, <1>4, <2>3, FlushDone
<1>5. QED
  BY <1>3, <1>4 DEF Count, Undisturbed

LEMMA ListRef ==
    ASSUME Inv, Undisturbed, RefInv, NEW p \in Procs, List(p)
    PROVE  RefInv' /\ Simulates
<1>1. /\ pc[p] = "listing" /\ pc[p] # Idle /\ pc[p] \in Flushing
      /\ UNCHANGED <<chain, ret, ports>>
      /\ OneAtATime
  BY DEF List, Idle, Flushing, Undisturbed
<1>2. /\ CourseOK(p)
      /\ ListOK(p)
      /\ chain \in Seq(Rule)
      /\ RestSame(chain, began[p], cmd[p])
  BY <1>1, RunningFacts
<1>3. CASE Listing(cmd[p]) = {}
  <2>1. Mine(chain, cmd[p]) = Stay(chain, cmd[p])
    BY <1>2, <1>3, NothingFlushed DEF Listing
  <2>2. Mine(chain, cmd[p]) = Stay(began[p], cmd[p])
    BY <1>1, <1>2, <2>1 DEF ListOK
  <2>3. CASE FlushReturns(p, TRUE)
    BY <1>1, <1>2, <2>2, <2>3, FlushDone
  <2>4. CASE Exit(p, "died")
    <3>1. Mine(chain, cmd[p]) # << >>
      BY <1>1, <1>2, StatusIsMine DEF ListOK
    <3>2. cmd[p].only
      BY <1>1, <1>2, <1>3 DEF ListOK, StatusIptablesUser, Listing, Flushed
    <3>3. ret[p] = "failed" => cmd[p].op = "disable-internet" /\ cmd[p].portsArg # "list"
      BY <1>2, CommandsAssumption DEF CourseOK, Command
    <3>4. ret[p] # "failed" => Stay(began[p], cmd[p]) = Mine(began[p], cmd[p])
      BY <1>1, <1>2, <2>2 DEF ListOK
    <3>5. Ending(p, cmd[p], "died")
      BY <1>1, <2>2, <3>1, <3>2, <3>3, <3>4 DEF Ending
    <3>6. QED
      BY <1>1, <1>2, <2>4, <3>5, Finish
  <2>5. QED
    BY <1>3, <2>3, <2>4 DEF List, Undisturbed
<1>4. CASE Listing(cmd[p]) # {}
  <2>1. Goto(p, "deleting") /\ UNCHANGED <<reply, cmd, began>>
    BY <1>4 DEF List, Undisturbed
  <2>2. pc'[p] = "deleting"
    BY <2>1 DEF Goto, Inv, TypeOK
  <2>3. ret[p] # "failed"
    <3>1. ret[p] = "failed" => Mine(chain, cmd[p]) = Stay(began[p], cmd[p])
      BY <1>1, <1>2 DEF ListOK
    <3>2. began[p] \in Seq(Rule)
      BY DEF Inv, TypeOK
    <3>3. ret[p] = "failed" => \A n \in DOMAIN chain : ~Flushed(chain[n], cmd[p])
      BY <1>2, <3>1, <3>2, StayBare
    <3>4. QED
      BY <1>4, <3>3 DEF Listing
  <2>4. CourseOK(p)'
    BY <1>1, <1>2, <2>1, <2>2, <2>3 DEF CourseOK, Flushing
  <2>5. ListOK(p)'
    BY <1>1, <1>2, <2>1, <2>2 DEF ListOK, Flushing
  <2>6. QED
    BY <1>1, <2>1, <2>2, <2>4, <2>5, RefOne, GoesOn DEF Simulates, Idle
<1>5. QED
  BY <1>3, <1>4

\* Deleting a rule to flush changes neither the rest of the chain nor what the
\* flush leaves of the list.
LEMMA DeleteKeeps ==
    ASSUME NEW ch \in Seq(Rule), NEW c, NEW n \in 1..Len(ch), Flushed(ch[n], c)
    PROVE  RestSame(RemoveAt(ch, n), ch, c) /\ Stay(RemoveAt(ch, n), c) = Stay(ch, c)
<1> DEFINE K == OfUid(GetUid(c.user))
           R == Rest(c)
           d == RemoveAt(ch, n)
<1>1. d \in Seq(Rule)
  BY RemoveAtProperties
<1>2. ASSUME NEW J, ch[n] \notin J PROVE Only(d, J) = Only(ch, J)
  BY <1>2, OnlyRemoveAt
<1>3. ch[n] \notin K \cap R /\ ch[n] \notin Untagged
  BY DEF Rest, Flushed, Own, Untagged
<1>4. \A u \in Uids \ {GetUid(c.user)} : ch[n] \notin OfUid(u)
  BY DEF Flushed, Own, OfUid
<1> HIDE DEF d, K, R
<1>5. Only(d, Untagged) = Only(ch, Untagged)
  BY <1>2, <1>3
<1>6. \A u \in Uids \ {GetUid(c.user)} : Only(d, OfUid(u)) = Only(ch, OfUid(u))
  BY <1>2, <1>4
<1>7. Only(d, K \cap R) = Only(ch, K \cap R)
  BY <1>2, <1>3
<1>8. /\ Only(Only(d, K), R) = Only(d, K \cap R)
      /\ Only(Only(ch, K), R) = Only(ch, K \cap R)
  BY <1>1, OnlyOnly
<1>9. QED
  BY <1>5, <1>6, <1>7, <1>8 DEF RestSame, Stay, Mine, d, K, R

LEMMA RestSameTrans ==
    ASSUME NEW a, NEW b, NEW d, NEW c, RestSame(a, b, c), RestSame(b, d, c)
    PROVE  RestSame(a, d, c)
BY DEF RestSame

LEMMA DeleteRef ==
    ASSUME Inv, Undisturbed, LoopInv, RefInv, NEW p \in Procs, Delete(p)
    PROVE  RefInv' /\ Simulates
<1>1. /\ pc[p] = "deleting" /\ pc[p] # Idle /\ pc[p] \in Flushing
      /\ UNCHANGED <<ret, ports>>
      /\ OneAtATime
  BY DEF Delete, Idle, Flushing, Undisturbed
<1>2. /\ CourseOK(p)
      /\ ListOK(p)
      /\ chain \in Seq(Rule)
      /\ RestSame(chain, began[p], cmd[p])
  BY <1>1, RunningFacts
<1>3. PICK n \in 1..Len(chain) : DeletionOf(p, n) /\ Flushed(chain[n], cmd[p])
  BY DeleteFacts
<1>4. chain' = RemoveAt(chain, n) /\ chain' \in Seq(Rule)
  BY <1>3, DeletedLines DEF DeletionOf
<1>5. RestSame(chain', chain, cmd[p]) /\ Stay(chain', cmd[p]) = Stay(chain, cmd[p])
  BY <1>2, <1>3, <1>4, DeleteKeeps
<1>6. RestSame(chain', began[p], cmd[p])
  BY <1>2, <1>5, RestSameTrans
<1>7. Stay(chain', cmd[p]) = Stay(began[p], cmd[p])
  BY <1>1, <1>2, <1>5 DEF ListOK
<1>8. CASE UNCHANGED <<pc, reply, cmd, began>>
  <2>1. CourseOK(p)'
    BY <1>1, <1>2, <1>8 DEF CourseOK, Flushing
  <2>2. ret[p] # "failed"
    BY <1>1, <1>2 DEF CourseOK
  <2>3. ListOK(p)'
    BY <1>1, <1>6, <1>7, <1>8, <2>2 DEF ListOK
  <2>4. QED
    BY <1>1, <1>8, <2>1, <2>3, RefOne, GoesOn DEF Simulates
<1>9. CASE todo[p] = {n} /\ FlushReturns(p, TRUE)
  <2>1. todo'[p] = {}
    BY <1>3, <1>9 DEF DeletionOf, Inv, TypeOK
  <2>2. \A i \in DOMAIN chain' : ~Flushed(chain'[i], cmd[p])
    BY <2>1, FlushedLeft
  <2>3. Mine(chain', cmd[p]) = Stay(chain', cmd[p])
    BY <1>4, <2>2, NothingFlushed
  <2>4. QED
    BY <1>1, <1>2, <1>4, <1>6, <1>7, <1>9, <2>3, FlushDone
<1>10. QED
  BY <1>3, <1>8, <1>9 DEF DeletionOf
------------------------------------------------------------------------------
LEMMA AppendMine ==
    ASSUME NEW ch \in Seq(Rule), NEW c, NEW rule \in Rule, rule.tagged, rule.owner = GetUid(c.user)
    PROVE  /\ RestSame(Append(ch, rule), ch, c)
           /\ Mine(Append(ch, rule), c) = Append(Mine(ch, c), rule)
<1>1. ASSUME NEW K
      PROVE  Only(Append(ch, rule), K) = IF rule \in K THEN Append(Only(ch, K), rule) ELSE Only(ch, K)
  BY OnlyAppend
<1>2. rule \notin Untagged /\ \A u \in Uids \ {GetUid(c.user)} : rule \notin OfUid(u)
  BY DEF Untagged, OfUid
<1>3. rule \in OfUid(GetUid(c.user))
  BY DEF OfUid
<1>4. RestSame(Append(ch, rule), ch, c)
  BY <1>1, <1>2 DEF RestSame
<1>5. Mine(Append(ch, rule), c) = Append(Mine(ch, c), rule)
  BY <1>1, <1>3 DEF Mine
<1>6. QED
  BY <1>4, <1>5

\* The rules of a command.
LEMMA RuleOfCommand ==
    ASSUME NEW c \in Commands, NEW port \in Int, NEW prot, NEW dest, NEW target,
           \/ prot = "tcp" /\ dest = "any" /\ target = "DROP"
           \/ prot = "all" /\ port = 0 /\ dest = "loopback" /\ target = "ACCEPT"
           \/ prot = "all" /\ port = 0 /\ dest = "outside" /\ target = "DROP"
    PROVE  LET rule == TncRule(c, prot, port, dest, target) IN
           rule \in Rule /\ rule.tagged /\ rule.owner = GetUid(c.user)
<1>1. TncRule(c, prot, port, dest, target) \in Rule
  BY RuleTypes
<1>2. QED
  BY <1>1 DEF TncRule

LEMMA PartTypes ==
    ASSUME NEW c \in Commands
    PROVE  /\ Given(c) \in Seq(Int)
           /\ Only(Given(c), GoodPorts) \in Seq(Int)
           /\ PortsPart(c) \in Seq(Rule)
           /\ LoopbackPart(c) \in Seq(Rule)
           /\ c.portsArg # "list" => PortsPart(c) = << >>
<1>1. c \in Command
  BY CommandsAssumption
<1>2. Given(c) \in Seq(Int)
  BY <1>1 DEF Command, Given
<1>3. Only(Given(c), GoodPorts) \in Seq(Int)
  BY <1>2, OnlyIn
<1>4. PortsPart(c) \in Seq(Rule)
  BY <1>3, BlocksType DEF PortsPart
<1>5. LoopbackPart(c) \in Seq(Rule)
  BY RuleTypes DEF LoopbackPart
<1>6. c.portsArg # "list" => PortsPart(c) = << >>
  BY OnlyEmpty DEF PortsPart, Given, Blocks
<1>7. QED
  BY <1>2, <1>3, <1>4, <1>5, <1>6

\* add_iptables_user after the port rules.
LEMMA AfterPortsRef ==
    ASSUME Inv, OneAtATime, RefInv, NEW p \in Procs, pc[p] \in {"routing", "blocking"},
           UNCHANGED <<chain, ports>>, AfterPorts(p),
           Mine(chain, cmd[p]) = Stay(began[p], cmd[p]) \o PortsPart(cmd[p])
    PROVE  RefInv' /\ Simulates
<1> DEFINE c == cmd[p]
<1>1. pc[p] # Idle /\ pc[p] \notin Flushing
  BY DEF Idle, Flushing
<1>2. /\ CourseOK(p)
      /\ ListOK(p)
      /\ chain \in Seq(Rule)
      /\ began[p] \in Seq(Rule)
      /\ RestSame(chain, began[p], c)
      /\ c \in Commands /\ Stay(began[p], c) \in Seq(Rule)
  BY <1>1, RunningFacts
<1>3. ret[p] = "add" /\ c.op = "disable-internet"
  BY <1>1, <1>2, CommandsAssumption DEF CourseOK, Command
<1>4. c.portsArg # "list" => Mine(chain, c) = Stay(began[p], c)
  BY <1>2, PartTypes, ConcatEmptySeq
<1>5. CASE c.only /\ c.portsArg = "list"
  <2>1. Exit(p, "disabled")
    BY <1>5 DEF AfterPorts, AddReturns
  <2>2. Policy!Added(c) = PortsPart(c)
    <3>1. Blocks(c, Only(Given(c), GoodPorts)) \in Seq(Rule)
      BY <1>2, PartTypes, BlocksType
    <3>2. Blocks(c, Only(Given(c), GoodPorts)) \o << >> = Blocks(c, Only(Given(c), GoodPorts))
      BY <3>1, ConcatEmptySeq
    <3>3. QED
      BY <1>2, <1>5, <3>2, PolicyAdded DEF PortsPart
  <2>3. Ending(p, c, "disabled")
    BY <1>3, <1>5, <2>2 DEF Ending
  <2>4. QED
    BY <1>1, <1>2, <2>1, <2>3, Finish
<1>6. CASE c.only /\ c.portsArg # "list"
  <2>1. CallFlush(p, "failed") /\ UNCHANGED <<reply, cmd, began>>
    BY <1>6 DEF AfterPorts, AddReturns
  <2>2. pc'[p] = "counting" /\ ret'[p] = "failed"
    BY <2>1 DEF CallFlush, Goto, Inv, TypeOK
  <2>3. pc[p] = "routing"
    BY <1>2, <1>6 DEF CourseOK
  <2>4. CourseOK(p)'
    BY <1>2, <1>3, <1>6, <2>1, <2>2, <2>3 DEF CourseOK, Flushing
  <2>5. Stay(chain, c) = Stay(began[p], c)
    BY <1>2, <1>4, <1>6, StayTwice
  <2>6. ListOK(p)'
    BY <1>2, <1>4, <1>6, <2>1, <2>2, <2>5 DEF ListOK, Flushing
  <2>7. QED
    BY <1>1, <2>1, <2>2, <2>4, <2>6, RefOne, GoesOn DEF Simulates, Idle
<1>7. CASE ~c.only
  <2>1. Goto(p, "accepting") /\ UNCHANGED <<reply, cmd, ret, began>>
    BY <1>7 DEF AfterPorts
  <2>2. pc'[p] = "accepting"
    BY <2>1 DEF Goto, Inv, TypeOK
  <2>3. CourseOK(p)'
    BY <1>2, <1>3, <1>7, <2>1, <2>2 DEF CourseOK, Flushing
  <2>4. ListOK(p)'
    BY <1>2, <1>3, <2>1, <2>2 DEF ListOK, Flushing
  <2>5. QED
    BY <1>1, <2>1, <2>2, <2>3, <2>4, RefOne, GoesOn DEF Simulates, Idle
<1>8. QED
  BY <1>5, <1>6, <1>7

LEMMA RouteRef ==
    ASSUME Inv, Undisturbed, RefInv, NEW p \in Procs, Route(p)
    PROVE  RefInv' /\ Simulates
<1> DEFINE c == cmd[p]
<1>1. /\ pc[p] = "routing" /\ pc[p] # Idle /\ pc[p] \notin Flushing
      /\ UNCHANGED <<chain, ports>>
      /\ OneAtATime
  BY DEF Route, Idle, Flushing, Undisturbed
<1>2. CourseOK(p) /\ ListOK(p) /\ chain \in Seq(Rule) /\ RestSame(chain, began[p], c)
      /\ c \in Commands /\ Stay(began[p], c) \in Seq(Rule)
  BY <1>1, RunningFacts
<1>3. /\ ret[p] = "add"
      /\ c.op = "disable-internet"
      /\ ports[p] = Given(c)
      /\ Mine(chain, c) = Stay(began[p], c)
  BY <1>1, <1>2, CommandsAssumption DEF CourseOK, Command, ListOK, Flushing
<1>4. CASE c.portsArg = "list" /\ Goto(p, "blocking") /\ UNCHANGED <<reply, cmd, ret, began>>
  <2>1. pc'[p] = "blocking"
    BY <1>4 DEF Goto, Inv, TypeOK
  <2>2. CourseOK(p)'
    BY <1>2, <1>3, <1>4, <2>1 DEF CourseOK, Flushing
  <2>3. IF c.user \in Known
        THEN Mine(chain, c) \o Blocks(c, Only(ports[p], GoodPorts)) = Stay(began[p], c) \o PortsPart(c)
        ELSE Mine(chain, c) = Stay(began[p], c)
    BY <1>3 DEF PortsPart
  <2>4. ListOK(p)'
    BY <1>1, <1>2, <1>3, <1>4, <2>1, <2>3 DEF ListOK, Flushing
  <2>5. QED
    BY <1>1, <1>4, <2>1, <2>2, <2>4, RefOne, GoesOn DEF Simulates, Idle
<1>5. CASE c.portsArg # "list" /\ AfterPorts(p)
  <2>1. Mine(chain, c) = Stay(began[p], c) \o PortsPart(c)
    BY <1>2, <1>3, <1>5, PartTypes, ConcatEmptySeq
  <2>2. QED
    BY <1>1, <1>5, <2>1, AfterPortsRef
<1>6. CASE ~c.net /\ Exit(p, "died")
  <2>1. Ending(p, c, "died")
    BY <1>1, <1>3, <1>6 DEF Ending
  <2>2. QED
    BY <1>1, <1>2, <1>6, <2>1, Finish
<1>7. QED
  BY <1>4, <1>5, <1>6 DEF Route, Undisturbed

LEMMA PortsBlockedRef ==
    ASSUME Inv, Undisturbed, RefInv, NEW p \in Procs, PortsBlocked(p)
    PROVE  RefInv' /\ Simulates
<1> DEFINE c == cmd[p]
<1>1. /\ pc[p] = "blocking" /\ pc[p] # Idle /\ ports[p] = << >>
      /\ UNCHANGED <<chain, ports>>
      /\ OneAtATime /\ AfterPorts(p)
  BY DEF PortsBlocked, Idle, Undisturbed
<1>2. ListOK(p) /\ Mine(chain, c) \in Seq(Rule) /\ Stay(began[p], c) \in Seq(Rule)
  BY <1>1, RunningFacts
<1>3. Blocks(c, Only(ports[p], GoodPorts)) = << >>
  BY <1>1, OnlyEmpty DEF Blocks
<1>4. Mine(chain, c) = Stay(began[p], c) \o PortsPart(c)
  <2>1. CASE c.user \in Known
    <3>1. Mine(chain, c) \o << >> = Stay(began[p], c) \o PortsPart(c)
      BY <1>1, <1>2, <1>3, <2>1 DEF ListOK
    <3>2. QED
      BY <1>2, <3>1, ConcatEmptySeq
  <2>2. CASE c.user \notin Known
    BY <1>1, <1>2, <2>2, ConcatEmptySeq DEF ListOK, PortsPart
  <2>3. QED
    BY <2>1, <2>2
<1>5. QED
  BY <1>1, <1>4, AfterPortsRef

LEMMA BlockRef ==
    ASSUME Inv, Undisturbed, RefInv, NEW p \in Procs, Block(p)
    PROVE  RefInv' /\ Simulates
<1> DEFINE c == cmd[p]
           h == Head(ports[p])
           t == Tail(ports[p])
           rule == TncRule(c, "tcp", h, "any", "DROP")
           mine == Mine(chain, c)
           want == Stay(began[p], c) \o PortsPart(c)
<1>1. /\ pc[p] = "blocking" /\ pc'[p] = "blocking" /\ pc[p] # Idle /\ pc'[p] # Idle /\ ports[p] # << >>
      /\ UNCHANGED <<pc, cmd, ret, began, reply>>
      /\ OneAtATime
      /\ ports' = [ports EXCEPT ![p] = Tail(@)]
      /\ chain' = IF CheckPort(h) THEN AppendFor(c, rule) ELSE chain
  BY DEF Block, Idle, Undisturbed
<1>2. CourseOK(p) /\ ListOK(p) /\ chain \in Seq(Rule) /\ RestSame(chain, began[p], c)
      /\ c \in Commands /\ mine \in Seq(Rule)
  BY <1>1, RunningFacts
<1>3. ports[p] \in Seq(Int) /\ ports'[p] = t
  BY <1>1 DEF Inv, TypeOK
<1>4. h \in Int /\ t \in Seq(Int)
  BY <1>1, <1>3
<1>5. rule \in Rule /\ rule.tagged /\ rule.owner = GetUid(c.user)
  BY <1>2, <1>4, RuleOfCommand
<1>6. CourseOK(p)'
  BY <1>1, <1>2 DEF CourseOK, Flushing
<1>7. ret[p] # "failed"
  BY <1>1, <1>2 DEF CourseOK
<1>8. /\ RestSame(chain', began[p], c)
      /\ IF c.user \in Known
         THEN Mine(chain', c) \o Blocks(c, Only(t, GoodPorts)) = want
         ELSE Mine(chain', c) = Stay(began[p], c)
  <2>1. CASE c.user \notin Known
    <3>1. chain' = chain
      BY <1>1, <2>1 DEF AppendFor
    <3>2. mine = Stay(began[p], c)
      BY <1>1, <1>2, <2>1 DEF ListOK
    <3>3. QED
      BY <1>2, <2>1, <3>1, <3>2
  <2>2. CASE c.user \in Known /\ ~CheckPort(h)
    <3>1. chain' = chain
      BY <1>1, <2>2
    <3>2. Only(ports[p], GoodPorts) = Only(t, GoodPorts)
      BY <1>1, <1>3, <2>2, OnlyHead DEF CheckPort
    <3>3. mine \o Blocks(c, Only(ports[p], GoodPorts)) = want
      BY <1>1, <1>2, <2>2 DEF ListOK
    <3>4. QED
      BY <1>2, <2>2, <3>1, <3>2, <3>3
  <2>3. CASE c.user \in Known /\ CheckPort(h)
    <3>1. chain' = Append(chain, rule)
      BY <1>1, <2>3 DEF AppendFor
    <3>2. RestSame(chain', chain, c) /\ Mine(chain', c) = Append(mine, rule)
      BY <1>2, <1>5, <3>1, AppendMine
    <3>3. RestSame(chain', began[p], c)
      BY <1>2, <3>2, RestSameTrans
    <3>4. Only(t, GoodPorts) \in Seq(Int)
      BY <1>4, OnlyIn
    <3>5. Only(ports[p], GoodPorts) = <<h>> \o Only(t, GoodPorts)
      BY <1>1, <1>3, <2>3, OnlyHead DEF CheckPort
    <3>6. Blocks(c, Only(ports[p], GoodPorts)) = <<rule>> \o Blocks(c, Only(t, GoodPorts))
      BY <1>2, <1>4, <3>4, <3>5, BlocksHead
    <3>7. Blocks(c, Only(t, GoodPorts)) \in Seq(Rule)
      BY <1>2, <3>4, BlocksType
    <3>8. Append(mine, rule) \o Blocks(c, Only(t, GoodPorts)) = mine \o (<<rule>> \o Blocks(c, Only(t, GoodPorts)))
      BY <1>2, <1>5, <3>7, AppendConcat
    <3>9. mine \o Blocks(c, Only(ports[p], GoodPorts)) = want
      BY <1>1, <1>2, <2>3 DEF ListOK
    <3>10. Mine(chain', c) \o Blocks(c, Only(t, GoodPorts)) = want
      BY <3>2, <3>6, <3>8, <3>9
    <3>11. QED
      BY <2>3, <3>3, <3>10
  <2>4. QED
    BY <2>1, <2>2, <2>3
<1>9. ListOK(p)'
  BY <1>1, <1>3, <1>7, <1>8 DEF ListOK, Flushing
<1>10. QED
  BY <1>1, <1>6, <1>9, RefOne, GoesOn DEF Simulates
------------------------------------------------------------------------------
LEMMA AcceptRef ==
    ASSUME Inv, Undisturbed, RefInv, NEW p \in Procs, Accept(p)
    PROVE  RefInv' /\ Simulates
<1> DEFINE c == cmd[p]
           rule == TncRule(c, "all", 0, "loopback", "ACCEPT")
           mine == Mine(chain, c)
           base == Stay(began[p], c) \o PortsPart(c)
<1>1. /\ pc[p] = "accepting" /\ pc[p] # Idle /\ pc[p] \notin Flushing
      /\ UNCHANGED <<ports, cmd, ret, began, reply>>
      /\ OneAtATime
      /\ chain' = AppendFor(c, rule)
      /\ Goto(p, "dropping")
  BY DEF Accept, Idle, Flushing, Undisturbed
<1>2. CourseOK(p) /\ ListOK(p) /\ chain \in Seq(Rule) /\ RestSame(chain, began[p], c)
      /\ c \in Commands /\ Stay(began[p], c) \in Seq(Rule)
  BY <1>1, RunningFacts
<1>3. pc'[p] = "dropping"
  BY <1>1 DEF Goto, Inv, TypeOK
<1>4. rule \in Rule /\ rule.tagged /\ rule.owner = GetUid(c.user)
  <2>1. rule \in Rule
    BY <1>2, RuleTypes
  <2>2. QED
    BY <2>1 DEF TncRule
<1>5. mine = base /\ ret[p] = "add" /\ ~c.only
  BY <1>1, <1>2 DEF ListOK, CourseOK
<1>6. base \in Seq(Rule)
  BY <1>2, PartTypes, ConcatProperties
<1>7. RestSame(chain', began[p], c) /\ Mine(chain', c) = base \o LoopbackPart(c)
  <2>1. CASE c.user \notin Known
    <3>1. chain' = chain /\ LoopbackPart(c) = << >>
      BY <1>1, <2>1 DEF AppendFor, LoopbackPart
    <3>2. base \o << >> = base
      BY <1>6, ConcatEmptySeq
    <3>3. QED
      BY <1>2, <1>5, <3>1, <3>2
  <2>2. CASE c.user \in Known
    <3>1. chain' = Append(chain, rule) /\ LoopbackPart(c) = <<rule>>
      BY <1>1, <2>2 DEF AppendFor, LoopbackPart
    <3>2. RestSame(chain', chain, c) /\ Mine(chain', c) = Append(mine, rule)
      BY <1>2, <1>4, <3>1, AppendMine
    <3>3. Append(base, rule) = base \o <<rule>>
      BY <1>4, <1>6, AppendIsConcat
    <3>4. RestSame(chain', began[p], c)
      BY <1>2, <3>2, RestSameTrans
    <3>5. QED
      BY <1>5, <3>1, <3>2, <3>3, <3>4
  <2>3. QED
    BY <2>1, <2>2
<1>8. CourseOK(p)'
  BY <1>1, <1>2, <1>3, <1>5 DEF CourseOK, Flushing
<1>9. ListOK(p)'
  BY <1>1, <1>3, <1>5, <1>7 DEF ListOK, Flushing
<1>10. QED
  BY <1>1, <1>3, <1>8, <1>9, RefOne, GoesOn DEF Simulates, Idle

LEMMA DropRef ==
    ASSUME Inv, Undisturbed, RefInv, NEW p \in Procs, Drop(p)
    PROVE  RefInv' /\ Simulates
<1> DEFINE c == cmd[p]
           loop == TncRule(c, "all", 0, "loopback", "ACCEPT")
           rule == TncRule(c, "all", 0, "outside", "DROP")
           mine == Mine(chain, c)
           stay == Stay(began[p], c)
           ports1 == PortsPart(c)
<1>1. /\ pc[p] = "dropping" /\ pc[p] # Idle
      /\ OneAtATime
      /\ chain' = IF c.net THEN AppendFor(c, rule) ELSE chain
      /\ Exit(p, "disabled")
  BY DEF Drop, AddReturns, Idle, Undisturbed
<1>2. CourseOK(p) /\ ListOK(p) /\ chain \in Seq(Rule) /\ RestSame(chain, began[p], c)
      /\ c \in Commands /\ stay \in Seq(Rule) /\ mine \in Seq(Rule)
  BY <1>1, RunningFacts
<1>3. c.op = "disable-internet" /\ ~c.only
  BY <1>1, <1>2, CommandsAssumption DEF CourseOK, Command, Flushing
<1>4. rule \in Rule /\ rule.tagged /\ rule.owner = GetUid(c.user) /\ loop \in Rule
  <2>1. rule \in Rule /\ loop \in Rule
    BY <1>2, RuleTypes
  <2>2. QED
    BY <2>1 DEF TncRule
<1>5. mine = (stay \o ports1) \o LoopbackPart(c)
  BY <1>1, <1>2 DEF ListOK
<1>6. ports1 \in Seq(Rule) /\ LoopbackPart(c) \in Seq(Rule)
  BY <1>2, PartTypes
<1>7. mine = stay \o (ports1 \o LoopbackPart(c))
  <2> HIDE DEF mine, stay, ports1
  <2> QED BY <1>2, <1>5, <1>6, ConcatAssociative
<1>8. CASE c.user \notin Known
  <2>1. /\ chain' = chain
        /\ Policy!Added(c) = << >>
        /\ ports1 = << >>
        /\ LoopbackPart(c) = << >>
    BY <1>1, <1>2, <1>8, PolicyAdded DEF AppendFor, PortsPart, LoopbackPart
  <2>2. mine = stay \o Policy!Added(c)
    <3>1. << >> \o << >> = << >>
      OBVIOUS
    <3>2. QED
      BY <1>7, <2>1, <3>1
  <2>3. QED
    BY <1>1, <1>2, <1>3, <2>1, <2>2, Finish DEF Ending
<1>9. CASE c.user \in Known /\ ~c.net
  <2>1. /\ chain' = chain
        /\ LoopbackPart(c) = <<loop>>
        /\ ports1 = Blocks(c, Only(Given(c), GoodPorts))
    BY <1>1, <1>9 DEF PortsPart, LoopbackPart
  <2>2. Policy!Added(c) = ports1 \o (<<loop>> \o << >>)
    BY <1>2, <1>3, <1>9, <2>1, PolicyAdded
  <2>3. <<loop>> \o << >> = <<loop>>
    BY <1>4
  <2>4. mine = stay \o Policy!Added(c)
    BY <1>7, <2>1, <2>2, <2>3
  <2>5. QED
    BY <1>1, <1>2, <1>3, <2>1, <2>4, Finish DEF Ending
<1>10. CASE c.user \in Known /\ c.net
  <2>1. /\ chain' = Append(chain, rule)
        /\ LoopbackPart(c) = <<loop>>
        /\ ports1 = Blocks(c, Only(Given(c), GoodPorts))
    BY <1>1, <1>10 DEF AppendFor, PortsPart, LoopbackPart
  <2>2. Policy!Added(c) = ports1 \o (<<loop>> \o <<rule>>)
    BY <1>2, <1>3, <1>10, <2>1, PolicyAdded
  <2>3. RestSame(chain', chain, c) /\ Mine(chain', c) = Append(mine, rule)
    BY <1>2, <1>4, <2>1, AppendMine
  <2>4. RestSame(chain', began[p], c)
    BY <1>2, <2>3, RestSameTrans
  <2>5. <<loop>> \in Seq(Rule) /\ <<rule>> \in Seq(Rule)
    BY <1>4
  <2>6. Append(mine, rule) = stay \o (ports1 \o (<<loop>> \o <<rule>>))
    <3>0. mine = stay \o (ports1 \o <<loop>>)
      BY <1>7, <2>1
    <3> HIDE DEF mine, stay, ports1, loop, rule
    <3>1. Append(mine, rule) = mine \o <<rule>>
      BY <1>2, <1>4, AppendIsConcat
    <3>2. ports1 \o <<loop>> \in Seq(Rule)
      BY <1>6, <2>5, ConcatProperties
    <3>3. (stay \o (ports1 \o <<loop>>)) \o <<rule>> = stay \o ((ports1 \o <<loop>>) \o <<rule>>)
      <4> DEFINE q == ports1 \o <<loop>>
                 last == <<rule>>
      <4>1. q \in Seq(Rule) /\ last \in Seq(Rule) /\ stay \in Seq(Rule)
        BY <1>2, <2>5, <3>2
      <4> HIDE DEF q, last
      <4>2. (stay \o q) \o last = stay \o (q \o last)
        BY <4>1, ConcatAssociative
      <4>3. QED
        BY <4>2 DEF q, last
    <3>4. (ports1 \o <<loop>>) \o <<rule>> = ports1 \o (<<loop>> \o <<rule>>)
      BY <1>6, <2>5, ConcatAssociative
    <3>5. QED
      BY <3>0, <3>1, <3>3, <3>4
  <2>7. Mine(chain', c) = stay \o Policy!Added(c)
    BY <2>2, <2>3, <2>6
  <2>8. Ending(p, c, "disabled")
    BY <1>3, <2>7 DEF Ending
  <2>9. QED
    BY <1>1, <1>2, <2>4, <2>8, Finish
<1>11. QED
  BY <1>8, <1>9, <1>10

\* A rule of another program changes no list of tnc.
LEMMA AppendForeignSame ==
    ASSUME NEW ch \in Seq(Rule), NEW rule \in Rule, ~rule.tagged
    PROVE  /\ \A u : Only(Append(ch, rule), OfUid(u)) = Only(ch, OfUid(u))
           /\ Only(Append(ch, rule), Untagged) = Append(Only(ch, Untagged), rule)
           /\ \A c : Mine(Append(ch, rule), c) = Mine(ch, c)
           /\ \A c : Stay(Append(ch, rule), c) = Stay(ch, c)
<1>1. ASSUME NEW K
      PROVE  Only(Append(ch, rule), K) = IF rule \in K THEN Append(Only(ch, K), rule) ELSE Only(ch, K)
  BY OnlyAppend
<1>2. rule \in Untagged /\ \A u : rule \notin OfUid(u)
  BY DEF Untagged, OfUid
<1>3. \A u : Only(Append(ch, rule), OfUid(u)) = Only(ch, OfUid(u))
  BY <1>1, <1>2
<1>4. Only(Append(ch, rule), Untagged) = Append(Only(ch, Untagged), rule)
  BY <1>1, <1>2
<1>5. \A c : Mine(Append(ch, rule), c) = Mine(ch, c)
  BY <1>3 DEF Mine
<1>6. QED
  BY <1>3, <1>4, <1>5 DEF Stay

LEMMA AppendForeignRef ==
    ASSUME Inv, OneAtATime, RefInv, NEW rule \in ForeignRules, AppendForeign(rule)
    PROVE  RefInv' /\ Simulates
<1>1. /\ rule \in Rule /\ ~rule.tagged
      /\ chain \in Seq(Rule)
      /\ \A p \in Procs : began[p] \in Seq(Rule)
  BY ForeignAssumption DEF Inv, TypeOK
<1>2. /\ chain' = Append(chain, rule)
      /\ UNCHANGED <<pc, cmd, ret, ports, reply>>
      /\ \A p \in Procs : began'[p] = IF pc[p] = Idle THEN began[p] ELSE Append(began[p], rule)
  BY DEF AppendForeign
<1>3. View' = Append(View, rule) /\ View \in Seq(Rule)
  <2>1. CASE \A p \in Procs : pc[p] = Idle
    <3>1. View = chain /\ View' = chain'
      BY <1>2, <2>1 DEF View, Running
    <3>2. QED
      BY <1>1, <1>2, <3>1
  <2>2. ASSUME NEW p \in Procs, pc[p] # Idle
        PROVE  View' = Append(View, rule) /\ View \in Seq(Rule)
    <3>1. View = began[p] /\ View' = began'[p]
      BY <1>2, <2>2, ViewRunning, ViewRunningNext
    <3>2. QED
      BY <1>1, <1>2, <2>2, <3>1
  <2>3. QED
    BY <2>1, <2>2
<1>4. Simulates
  <2>1. \A u : Only(Append(View, rule), OfUid(u)) = Only(View, OfUid(u))
    BY <1>1, <1>3, AppendForeignSame
  <2>2. Only(Append(View, rule), Untagged) = Append(Only(View, Untagged), rule)
    BY <1>1, <1>3, AppendForeignSame
  <2>3. [u \in Uids |-> Only(View, OfUid(u))]' = [u \in Uids |-> Only(View, OfUid(u))]
    BY <1>3, <2>1 DEF OfUid
  <2>4. Only(View, Untagged)' = Append(Only(View, Untagged), rule)
    BY <1>3, <2>2 DEF Untagged
  <2>5. Policy!Appended(rule)
    BY <1>2, <2>3, <2>4 DEF Policy!Appended
  <2>6. QED
    BY <2>5 DEF Simulates, Policy!Next
<1>5. RefInv'
  <2> SUFFICES ASSUME NEW p \in Procs, pc[p] # Idle PROVE CourseOK(p)' /\ ListOK(p)'
    BY <1>2 DEF RefInv
  <2>1. CourseOK(p) /\ ListOK(p)
    BY DEF RefInv
  <2>2. CourseOK(p)'
    BY <1>2, <2>1 DEF CourseOK
  <2>3. began'[p] = Append(began[p], rule)
    BY <1>2
  <2>4. StatusIptablesUser(cmd[p].user) => StatusIptablesUser(cmd[p].user)'
    <3>1. \A n \in DOMAIN chain : n \in DOMAIN chain' /\ chain'[n] = chain[n]
      <4>1. /\ DOMAIN chain = 1..Len(chain)
            /\ DOMAIN chain' = 1..(Len(chain) + 1)
            /\ Len(chain) \in Nat
            /\ \A n \in 1..Len(chain) : chain'[n] = chain[n]
        BY <1>1, <1>2, ChainLines
      <4>2. QED
        BY <4>1
    <3>2. QED
      BY <1>2, <3>1 DEF StatusIptablesUser
  <2>5. /\ RestSame(chain', began'[p], cmd[p])
        /\ Mine(chain', cmd[p]) = Mine(chain, cmd[p])
        /\ Mine(began'[p], cmd[p]) = Mine(began[p], cmd[p])
        /\ Stay(chain', cmd[p]) = Stay(chain, cmd[p])
        /\ Stay(began'[p], cmd[p]) = Stay(began[p], cmd[p])
    <3>1. RestSame(chain, began[p], cmd[p])
      BY <2>1 DEF ListOK
    <3>2. /\ \A u : Only(chain', OfUid(u)) = Only(chain, OfUid(u))
          /\ Only(chain', Untagged) = Append(Only(chain, Untagged), rule)
          /\ \A c : Mine(chain', c) = Mine(chain, c)
          /\ \A c : Stay(chain', c) = Stay(chain, c)
      BY <1>1, <1>2, AppendForeignSame
    <3>3. /\ \A u : Only(began'[p], OfUid(u)) = Only(began[p], OfUid(u))
          /\ Only(began'[p], Untagged) = Append(Only(began[p], Untagged), rule)
          /\ \A c : Mine(began'[p], c) = Mine(began[p], c)
          /\ \A c : Stay(began'[p], c) = Stay(began[p], c)
      BY <1>1, <2>3, AppendForeignSame
    <3>4. RestSame(chain', began'[p], cmd[p])
      BY <3>1, <3>2, <3>3 DEF RestSame
    <3>5. QED
      BY <3>2, <3>3, <3>4
  <2>6. ListOK(p)'
    BY <1>2, <2>1, <2>4, <2>5 DEF ListOK
  <2>7. QED
    BY <2>2, <2>6
<1>6. QED
  BY <1>4, <1>5

LEMMA StartRef ==
    ASSUME Inv, OneAtATime, RefInv, NEW p \in Procs, NEW c \in Commands, Start(p, c)
    PROVE  RefInv' /\ Simulates
<1>1. /\ pc[p] = Idle /\ pc'[p] = "counting" /\ pc'[p] # Idle
      /\ cmd'[p] = c /\ began'[p] = chain /\ ports'[p] = Given(c)
      /\ ret'[p] = IF c.op = "enable-internet" THEN "enable" ELSE "add"
      /\ CheckUser(c.caller) /\ WellFormed(c) /\ c.op # "status"
      /\ UNCHANGED <<chain, reply>>
  BY DEF Start, CallFlush, Goto, Given, Inv, TypeOK, Idle
<1>2. View = chain /\ View' = chain
  BY <1>1, ViewIdle, ViewRunningNext
<1>3. CourseOK(p)'
  BY <1>1 DEF CourseOK, Flushing
<1>4. ListOK(p)'
  BY <1>1 DEF ListOK, Flushing, RestSame
<1>5. QED
  BY <1>1, <1>2, <1>3, <1>4, RefOne, ViewSame DEF Simulates

\* A command that does not touch the chain: main answers at once.
LEMMA AnswerRef ==
    ASSUME Inv, OneAtATime, NEW p \in Procs, NEW c \in Commands, Refuse(p, c) \/ (Status(p, c) /\ Forks = {TRUE})
    PROVE  RefInv' /\ Simulates
<1>1. PICK a : /\ Exit(p, a)
               /\ \/ a \in {"denied", "usage"}
                  \/ a = IF StatusIptablesUser(c.user) THEN "disabled" ELSE "enabled"
  BY DEF Refuse, Status
<1>2. pc[p] = Idle /\ UNCHANGED chain
  BY DEF Refuse, Status
<1>3. pc'[p] = Idle /\ reply' = [reply EXCEPT ![p] = a]
  BY <1>1 DEF Exit, Goto, Inv, TypeOK
<1>4. View = chain /\ View' = chain
  BY <1>2, <1>3, ViewIdle, ViewIdleNext
<1>5. RefInv'
  BY <1>3, RefOne
<1>6. /\ [u \in Uids |-> Only(View, OfUid(u))]' = [u \in Uids |-> Only(View, OfUid(u))]
      /\ Only(View, Untagged)' = Only(View, Untagged)
  BY <1>4 DEF OfUid, Untagged
<1>7. CASE a \in {"denied", "usage"}
  <2>1. Policy!Refused(p)
    BY <1>3, <1>6, <1>7 DEF Policy!Refused, Policy!Answers
  <2>2. QED
    BY <1>5, <2>1 DEF Simulates, Policy!Next
<1>8. CASE a = IF StatusIptablesUser(c.user) THEN "disabled" ELSE "enabled"
  <2>1. c.user \in Users /\ GetUid(c.user) \in Uids
    BY CommandsAssumption, UsersAssumption DEF Command, GetUid
  <2>2. StatusIptablesUser(c.user) <=> Only(View, OfUid(GetUid(c.user))) # << >>
    BY <1>4, StatusIsMine DEF Inv, TypeOK, Mine
  <2>3. Policy!GetUid(c.user) = GetUid(c.user)
    BY PolicyRules
  <2>4. Policy!Queried(p, c.user)
    BY <1>3, <1>6, <1>8, <2>1, <2>2, <2>3 DEF Policy!Queried, Policy!Answers
  <2>5. QED
    BY <1>5, <2>1, <2>4 DEF Simulates, Policy!Next
<1>9. QED
  BY <1>1, <1>7, <1>8

\* The starting chain holds no rule of tnc.
LEMMA RefInit == Init => RefInv /\ Policy!Init
<1> SUFFICES ASSUME Init PROVE RefInv /\ Policy!Init
  OBVIOUS
<1>1. /\ chain \in Chains
      /\ chain \in Seq(Rule)
      /\ \A n \in DOMAIN chain : ~chain[n].tagged
  BY ChainsAssumption DEF Init
<1>2. \A p \in Procs : pc[p] = Idle
  BY DEF Init
<1>3. View = chain
  BY <1>2 DEF View, Running
<1>4. DOMAIN chain = 1..Len(chain) /\ \A n \in 1..Len(chain) : chain[n] \in Rule
  BY <1>1, ChainLines, LenProperties
<1>5. \A u \in Uids : Only(chain, OfUid(u)) = << >>
  <2> TAKE u \in Uids
  <2>1. \A n \in 1..Len(chain) : chain[n] \notin OfUid(u)
    BY <1>1, <1>4 DEF OfUid
  <2>2. QED
    BY <1>1, <2>1, OnlyNone
<1>6. Only(chain, Untagged) = chain
  BY OthersInit DEF Init, OtherRulesKept
<1>7. RefInv
  BY <1>2 DEF RefInv
<1>8. reply = [p \in Procs |-> ""]
  BY DEF Init
<1>9. Policy!Init
  BY <1>1, <1>3, <1>5, <1>6, <1>8 DEF Policy!Init
<1>10. QED
  BY <1>7, <1>9

\* Every step of a command is a step of the policy or leaves what it sees alone.
LEMMA RefStep ==
    ASSUME Inv, Undisturbed, LoopInv, RefInv, [Next]_vars
    PROVE  RefInv' /\ Simulates
<1>0. OneAtATime /\ Forks = {TRUE}
  BY DEF Undisturbed
<1>1. CASE UNCHANGED vars
  <2>1. UNCHANGED <<chain, pc, cmd, ret, ports, reply, began>>
    BY <1>1 DEF vars
  <2>2. View' = View
    BY <2>1 DEF View, Running
  <2>3. RefInv'
    BY <2>1 DEF RefInv, CourseOK, ListOK, StatusIptablesUser
  <2>4. QED
    BY <2>1, <2>2, <2>3, ViewSame DEF Simulates
<1>2. CASE \E p \in Procs : Step(p)
  BY <1>0, <1>2, CountRef, ListRef, DeleteRef, RouteRef, BlockRef, PortsBlockedRef, AcceptRef, DropRef
     DEF Step
<1>3. CASE \E p \in Procs, c \in Commands : Refuse(p, c) \/ Status(p, c) \/ Start(p, c)
  BY <1>0, <1>3, StartRef, AnswerRef
<1>4. CASE \E rule \in ForeignRules : AppendForeign(rule)
  BY <1>0, <1>4, AppendForeignRef
<1>5. QED
  BY <1>1, <1>2, <1>3, <1>4 DEF Next

\* One command at a time, the program does what NetPolicy says in one step: with
\* any commands, any ports and any starting chain, main blocks and unblocks the
\* list of the one uid it names and its answer tells what was done.
THEOREM ImplementsPolicyAlways == Undisturbed /\ Spec => ImplementsPolicy
<1>1. Undisturbed /\ Inv /\ LoopInv /\ RefInv /\ [Next]_vars => RefInv' /\ [Policy!Next]_(Policy!policyVars)
  BY RefStep DEF Simulates
<1>2. Undisturbed => []Undisturbed
  OBVIOUS
<1>3. QED
  BY <1>1, <1>2, RefInit, InvAlways, LoopAlways, PTL DEF Spec, ImplementsPolicy, Policy!Spec
==============================================================================
