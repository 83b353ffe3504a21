------------------------------- MODULE Lemmas -------------------------------
(***************************************************************************)
(* Facts about numbers and sequences that several proofs need and that the *)
(* library does not state, or states for an operator and not for a set.    *)
(***************************************************************************)
EXTENDS Integers, Sequences, FiniteSets, SequenceTheorems, FiniteSetTheorems,
        WellFoundedInduction, TLAPS

-----------------------------------------------------------------------------
(* Induction, for a set of numbers *)

Less == {x \in Nat \X Nat : x[1] < x[2]}

\* Every nonempty set of naturals has a least element (the library's order on
\* Nat is well founded).
LEMMA LeastElement ==
    ASSUME NEW T, T \subseteq Nat, T # {}
    PROVE  \E x \in T : \A y \in T : x <= y
<1>1. IsWellFoundedOn(Less, Nat)
  BY NatLessThanWellFounded DEF OpToRel, Less
<1>2. PICK x \in T : \A y \in T : ~ (<<y, x>> \in Less)
  BY <1>1, WFMin
<1>3. ASSUME NEW y \in T PROVE x <= y
  <2>1. <<y, x>> \notin Less /\ <<y, x>> \in Nat \X Nat
    BY <1>2
  <2>2. ~(y < x)
    BY <2>1 DEF Less
  <2> QED BY <2>1, <2>2
<1> QED BY <1>3

\* A set that has 0, and the successor of each number it has, has every natural:
\* induction, stated of a set so that no operator is instantiated.
LEMMA SetInduction ==
    ASSUME NEW T, 0 \in T, \A n \in Nat : n \in T => n + 1 \in T
    PROVE  Nat \subseteq T
<1> SUFFICES ASSUME ~(Nat \subseteq T) PROVE FALSE
  OBVIOUS
<1>1. PICK x \in Nat \ T : \A y \in Nat \ T : x <= y
  BY LeastElement
<1> QED BY <1>1

\* Every nonempty set of naturals with a bound has a greatest element.
LEMMA GreatestElement ==
    ASSUME NEW T, T \subseteq Nat, T # {}, NEW n \in Nat, \A x \in T : x <= n
    PROVE  \E x \in T : \A y \in T : y <= x
<1> DEFINE D == {n - x : x \in T}
<1>1. D \subseteq Nat /\ D # {}
  <2>1. \A x \in T : n - x \in Nat
    OBVIOUS
  <2> QED BY <2>1
<1>2. PICK d \in D : \A e \in D : d <= e
  BY <1>1, LeastElement
<1>3. PICK x \in T : d = n - x
  BY <1>2
<1>4. ASSUME NEW y \in T PROVE y <= x
  <2>1. n - y \in D
    OBVIOUS
  <2>2. d <= n - y /\ x \in Nat /\ y \in Nat
    BY <2>1, <1>2
  <2> QED BY <2>2, <1>3
<1> QED BY <1>4

-----------------------------------------------------------------------------
(* Numbers that are free *)

\* What a function takes on a finite set is finite, and no more than the set.
LEMMA ImageIsSmaller ==
    ASSUME NEW A, IsFiniteSet(A), NEW f
    PROVE  /\ IsFiniteSet({f[a] : a \in A})
           /\ Cardinality({f[a] : a \in A}) <= Cardinality(A)
<1> DEFINE B == {f[a] : a \in A}
           g == [a \in A |-> f[a]]
<1>1. g \in Surjection(A, B)
  BY DEF Surjection
<1> HIDE DEF g, B
<1>2. IsFiniteSet(B) /\ Cardinality(B) <= Cardinality(A)
  BY <1>1, FS_Surjection
<1> QED BY <1>2 DEF B

\* Among more numbers than two sets have together, one is in neither.
LEMMA FreeNumber ==
    ASSUME NEW X, NEW Y, IsFiniteSet(X), IsFiniteSet(Y), NEW m \in Nat,
           Cardinality(X) + Cardinality(Y) < m
    PROVE  \E e \in 1..m : e \notin X \cup Y
<1>1. /\ IsFiniteSet(X \cup Y) /\ Cardinality(X) \in Nat /\ Cardinality(Y) \in Nat
      /\ Cardinality(X \cap Y) \in Nat
      /\ Cardinality(X \cup Y) = Cardinality(X) + Cardinality(Y) - Cardinality(X \cap Y)
  <2>1. IsFiniteSet(X \cap Y)
    BY FS_Intersection
  <2> QED BY <2>1, FS_Union, FS_CardinalityType
<1>2. SUFFICES ASSUME 1..m \subseteq X \cup Y PROVE FALSE
  OBVIOUS
<1>3. Cardinality(1..m) <= Cardinality(X \cup Y)
  BY <1>1, <1>2, FS_Subset
<1>4. Cardinality(1..m) = m
  BY FS_Interval
<1> QED BY <1>1, <1>3, <1>4

-----------------------------------------------------------------------------
(* Parts of sequences *)

\* Append, as the function it returns.
LEMMA AppendIsFunction ==
    ASSUME NEW S, NEW s \in Seq(S), NEW e
    PROVE  Append(s, e) = [i \in 1..(Len(s) + 1) |-> IF i = Len(s) + 1 THEN e ELSE s[i]]
<1> DEFINE k == Len(s)
           T == S \cup {e}
<1>1. PICK f : f = [i \in 1..(k + 1) |-> IF i = k + 1 THEN e ELSE s[i]]
  OBVIOUS
<1>2. PICK t : t = Append(s, e)
  OBVIOUS
<1>3. s \in Seq(T) /\ e \in T
  BY SeqMonotonic
<1>4. t \in Seq(T) /\ Len(t) = k + 1
  BY <1>2, <1>3
<1>5. t \in [1..(k + 1) -> T]
  BY <1>4, LenProperties
<1>6. \A i \in 1..k : t[i] = s[i]
  BY <1>2, <1>3
<1>7. t[k + 1] = e
  BY <1>2, <1>3
<1>8. \A i \in 1..(k + 1) : t[i] = f[i]
  <2>1. \A i \in 1..(k + 1) : i # k + 1 => i \in 1..k
    OBVIOUS
  <2> QED BY <2>1, <1>1, <1>6, <1>7
<1>9. t = f
  BY <1>1, <1>5, <1>8
<1> QED BY <1>1, <1>2, <1>9

\* A part of a sequence: its length and what it has where.
LEMMA PartOf ==
    ASSUME NEW S, NEW s \in Seq(S), NEW m \in 1..(Len(s) + 1), NEW n \in 0..Len(s)
    PROVE  /\ SubSeq(s, m, n) \in Seq(S)
           /\ Len(SubSeq(s, m, n)) = IF m <= n THEN n - m + 1 ELSE 0
           /\ \A i \in 1..(n - m + 1) : SubSeq(s, m, n)[i] = s[m + i - 1]
<1>1. m \in Int /\ n \in Int /\ \A i \in m..n : s[i] \in S
  BY ElementOfSeq
<1> QED BY <1>1, SubSeqProperties

\* The first n of a sequence.
LEMMA FirstPart ==
    ASSUME NEW S, NEW s \in Seq(S), NEW n \in 0..Len(s)
    PROVE  /\ SubSeq(s, 1, n) \in Seq(S)
           /\ Len(SubSeq(s, 1, n)) = n
           /\ \A i \in 1..n : SubSeq(s, 1, n)[i] = s[i]
<1>1. 1 \in 1..(Len(s) + 1)
  OBVIOUS
<1>2. /\ SubSeq(s, 1, n) \in Seq(S)
      /\ Len(SubSeq(s, 1, n)) = IF 1 <= n THEN n - 1 + 1 ELSE 0
      /\ \A i \in 1..(n - 1 + 1) : SubSeq(s, 1, n)[i] = s[1 + i - 1]
  BY <1>1, PartOf
<1> QED BY <1>2

\* A part of a sequence that takes one more element: as it was, unless the part
\* reaches the end, and then it takes that element too.
LEMMA PartOfAppend ==
    ASSUME NEW S, NEW s \in Seq(S), NEW e \in S, NEW m \in 1..(Len(s) + 1),
           NEW n \in 0..Len(s)
    PROVE  /\ SubSeq(Append(s, e), m, n) = SubSeq(s, m, n)
           /\ SubSeq(Append(s, e), m, Len(s) + 1) = Append(SubSeq(s, m, Len(s)), e)
<1> DEFINE t == Append(s, e)
           k == Len(s)
<1>1. /\ t \in Seq(S) /\ Len(t) = k + 1 /\ k \in Nat /\ \A i \in 1..k : t[i] = s[i]
      /\ t[k + 1] = e
  BY AppendProperties
<1>2. \A j \in 0..k :
          /\ SubSeq(s, m, j) \in Seq(S)
          /\ Len(SubSeq(s, m, j)) = IF m <= j THEN j - m + 1 ELSE 0
          /\ \A i \in 1..(j - m + 1) : SubSeq(s, m, j)[i] = s[m + i - 1]
  BY PartOf
<1> HIDE DEF t
<1>3. m \in 1..(Len(t) + 1) /\ Len(t) = k + 1
  BY <1>1
<1>4. \A j \in 0..(k + 1) :
          /\ SubSeq(t, m, j) \in Seq(S)
          /\ Len(SubSeq(t, m, j)) = IF m <= j THEN j - m + 1 ELSE 0
          /\ \A i \in 1..(j - m + 1) : SubSeq(t, m, j)[i] = t[m + i - 1]
  <2>1. \A j \in 0..(k + 1) : j \in 0..Len(t)
    BY <1>1
  <2> QED BY <1>1, <1>3, <2>1, PartOf
<1>5. SubSeq(t, m, n) = SubSeq(s, m, n)
  <2>1. n \in 0..k /\ n \in 0..(k + 1)
    BY <1>1
  <2> DEFINE a == SubSeq(t, m, n)
             b == SubSeq(s, m, n)
  <2>2. a \in Seq(S) /\ b \in Seq(S) /\ Len(a) = Len(b)
    BY <1>2, <1>4, <2>1
  <2>3. \A i \in 1..Len(a) : a[i] = b[i]
    BY <1>1, <1>2, <1>4, <2>1
  <2> HIDE DEF a, b
  <2>4. a = b
    BY <2>2, <2>3, SeqEqual
  <2> QED BY <2>4 DEF a, b
<1>6. SubSeq(t, m, k + 1) = Append(SubSeq(s, m, k), e)
  <2>1. PICK a : a = SubSeq(t, m, k + 1)
    OBVIOUS
  <2>2. PICK c : c = SubSeq(s, m, k)
    OBVIOUS
  <2>3. PICK b : b = Append(c, e)
    OBVIOUS
  <2>4. /\ a \in Seq(S) /\ Len(a) = k - m + 2
        /\ \A i \in 1..(k - m + 2) : a[i] = t[m + i - 1]
    BY <1>1, <1>4, <2>1
  <2>5. /\ c \in Seq(S) /\ Len(c) = k - m + 1
        /\ \A i \in 1..(k - m + 1) : c[i] = s[m + i - 1]
    BY <1>1, <1>2, <2>2
  <2>6. /\ b \in Seq(S) /\ Len(b) = k - m + 2
        /\ \A i \in 1..(k - m + 1) : b[i] = c[i]
        /\ b[k - m + 2] = e
    <3>1. c \in Seq(S)
      BY <2>5
    <3>2. b \in Seq(S) /\ Len(b) = Len(c) + 1
      BY <2>3, <3>1
    <3>3. \A i \in 1..Len(c) : b[i] = c[i]
      BY <2>3, <3>1
    <3>4. b[Len(c) + 1] = e
      BY <2>3, <3>1
    <3>5. Len(c) = k - m + 1 /\ Len(c) + 1 = k - m + 2
      BY <2>5
    <3> QED BY <3>2, <3>3, <3>4, <3>5
  <2>7. ASSUME NEW i \in 1..Len(a) PROVE a[i] = b[i]
    <3>1. CASE i = k - m + 2
      <4>1. m + i - 1 = k + 1 /\ i \in 1..(k - m + 2)
        BY <1>1, <2>4, <3>1
      <4>2. a[i] = t[m + i - 1]
        BY <2>4, <4>1
      <4> QED BY <1>1, <2>6, <3>1, <4>1, <4>2
    <3>2. CASE i # k - m + 2
      <4>1. i \in 1..(k - m + 1) /\ m + i - 1 \in 1..k
        <5>1. Len(a) = k - m + 2
          BY <2>4
        <5> QED BY <3>2, <5>1
      <4> QED BY <1>1, <2>4, <2>5, <2>6, <4>1
    <3> QED BY <3>1, <3>2
  <2>8. a = b
    BY <2>4, <2>6, <2>7, SeqEqual
  <2> QED BY <2>1, <2>2, <2>3, <2>8
<1> QED BY <1>5, <1>6 DEF t

\* Two more are one and another.
LEMMA TwoMore ==
    ASSUME NEW S, NEW s \in Seq(S), NEW a \in S, NEW b \in S
    PROVE  s \o <<a, b>> = Append(Append(s, a), b)
<1>1. PICK t : t = Append(s, a)
  OBVIOUS
<1>2. t \in Seq(S) /\ Len(t) = Len(s) + 1 /\ Len(s) \in Nat
      /\ t[Len(s) + 1] = a /\ \A k \in 1..Len(s) : t[k] = s[k]
  BY <1>1, AppendProperties, LenProperties
<1>3. PICK u : u = Append(t, b)
  OBVIOUS
<1>4. /\ u \in Seq(S) /\ Len(u) = Len(s) + 2
      /\ u[Len(s) + 2] = b /\ \A k \in 1..(Len(s) + 1) : u[k] = t[k]
  <2>1. /\ u \in Seq(S) /\ Len(u) = Len(t) + 1
        /\ u[Len(t) + 1] = b /\ \A k \in 1..Len(t) : u[k] = t[k]
    BY <1>2, <1>3, AppendProperties
  <2> QED BY <1>2, <2>1
<1>5. PICK p : p = <<a, b>>
  OBVIOUS
<1>6. p \in Seq(S) /\ Len(p) = 2 /\ p[1] = a /\ p[2] = b
  BY <1>5
<1>7. PICK v : v = s \o p
  OBVIOUS
<1>8. /\ v \in Seq(S) /\ Len(v) = Len(s) + 2
      /\ \A i \in 1..(Len(s) + 2) : v[i] = IF i <= Len(s) THEN s[i] ELSE p[i - Len(s)]
  <2>1. /\ s \o p \in Seq(S) /\ Len(s \o p) = Len(s) + Len(p)
        /\ \A i \in 1..(Len(s) + Len(p)) :
               (s \o p)[i] = IF i <= Len(s) THEN s[i] ELSE p[i - Len(s)]
    BY <1>6, ConcatProperties
  <2> QED BY <1>6, <1>7, <2>1
<1>9. \A i \in 1..Len(v) : v[i] = u[i]
  <2> SUFFICES ASSUME NEW i \in 1..(Len(s) + 2) PROVE v[i] = u[i]
    BY <1>8
  <2>1. i \in 1..Len(s) \/ i = Len(s) + 1 \/ i = Len(s) + 2
    BY <1>2
  <2>2. CASE i \in 1..Len(s)
    <3>1. i \in 1..(Len(s) + 1) /\ i <= Len(s)
      BY <1>2, <2>2
    <3>2. u[i] = t[i] /\ t[i] = s[i]
      BY <1>2, <1>4, <2>2, <3>1
    <3>3. v[i] = s[i]
      BY <1>8, <3>1
    <3> QED BY <3>2, <3>3
  <2>3. CASE i = Len(s) + 1
    <3>1. i \in 1..(Len(s) + 1) /\ ~(i <= Len(s)) /\ i - Len(s) = 1
      BY <1>2, <2>3
    <3>2. u[i] = a
      BY <1>2, <1>4, <2>3, <3>1
    <3>3. v[i] = p[i - Len(s)]
      BY <1>8, <3>1
    <3> QED BY <1>6, <3>1, <3>2, <3>3
  <2>4. CASE i = Len(s) + 2
    <3>1. ~(i <= Len(s)) /\ i - Len(s) = 2
      BY <1>2, <2>4
    <3>2. u[i] = b
      BY <1>4, <2>4
    <3>3. v[i] = p[i - Len(s)]
      BY <1>8, <3>1
    <3> QED BY <1>6, <3>1, <3>2, <3>3
  <2> QED BY <2>1, <2>2, <2>3, <2>4
<1>10. v = u
  BY <1>4, <1>8, <1>9, SeqEqual
<1> QED BY <1>1, <1>3, <1>5, <1>7, <1>10
=============================================================================
