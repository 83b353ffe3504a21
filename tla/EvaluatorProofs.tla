---------------------------- MODULE EvaluatorProofs ----------------------------
(***************************************************************************)
(* How a call is evaluated.  First its arguments: match_positions binds    *)
(* them as R's rule says (module Matching).  Then the code it runs: the    *)
(* virtual machine keeps its operand stacks as deep as the code of every   *)
(* chunk says (module Machine).                                            *)
(***************************************************************************)
EXTENDS Machine, Matching, Lemmas

-----------------------------------------------------------------------------
(* Argument matching: a fold, run step by step *)

LEMMA MaxIs ==
    ASSUME NEW n \in Nat, NEW S, S \subseteq 1..n, S # {}
    PROVE  Max(S) \in S /\ \A x \in S : x <= Max(S)
<1>1. \A x \in S : x \in Nat /\ x <= n
  OBVIOUS
<1>2. PICK m \in S : \A x \in S : x <= m
  <2>1. S \subseteq Nat
    BY <1>1
  <2> QED BY <1>1, <2>1, GreatestElement
<1> QED BY <1>1, <1>2 DEF Max

\* The function a fold over the first n numbers runs through.
Folded(pass, formals, tags, s, n, g) ==
    g = [S \in SUBSET (1..n) |-> IF S = {} THEN s ELSE Step(pass, formals, tags, g[S \ {Max(S)}], Max(S))]

LEMMA FoldExists ==
    ASSUME NEW pass, NEW formals, NEW tags, NEW s, NEW n \in Nat
    PROVE  \E g : Folded(pass, formals, tags, s, n, g)
<1> DEFINE T == {m \in Nat : \E g : Folded(pass, formals, tags, s, m, g)}
<1>1. 0 \in T
  <2> DEFINE g == [S \in SUBSET (1..0) |-> s]
  <2>1. \A S \in SUBSET (1..0) : S = {}
    OBVIOUS
  <2>2. Folded(pass, formals, tags, s, 0, g)
    BY <2>1 DEF Folded
  <2> QED BY <2>2
<1>2. ASSUME NEW m \in Nat, m \in T PROVE m + 1 \in T
  <2>1. PICK g : Folded(pass, formals, tags, s, m, g)
    BY <1>2
  <2> DEFINE h == [S \in SUBSET (1..(m + 1)) |->
                      IF S = {} THEN s ELSE Step(pass, formals, tags, g[S \ {Max(S)}], Max(S))]
  <2>2. ASSUME NEW S \in SUBSET (1..(m + 1)), S # {}
        PROVE  S \ {Max(S)} \in SUBSET (1..m)
    <3>1. Max(S) \in S /\ \A x \in S : x <= Max(S)
      <4>1. m + 1 \in Nat /\ S \subseteq 1..(m + 1)
        OBVIOUS
      <4> QED BY <2>2, <4>1, MaxIs
    <3>2. ASSUME NEW x \in S, x # Max(S) PROVE x \in 1..m
      <4>1. x \in 1..(m + 1) /\ Max(S) \in 1..(m + 1) /\ x <= Max(S)
        BY <3>1
      <4> QED BY <3>2, <4>1
    <3> QED BY <3>2
  <2>3. ASSUME NEW S \in SUBSET (1..m) PROVE h[S] = g[S]
    <3>1. S \in SUBSET (1..(m + 1))
      BY <2>3
    <3>2. g[S] = IF S = {} THEN s ELSE Step(pass, formals, tags, g[S \ {Max(S)}], Max(S))
      BY <2>1 DEF Folded
    <3> QED BY <3>1, <3>2
  <2>4. h = [S \in SUBSET (1..(m + 1)) |->
                IF S = {} THEN s ELSE Step(pass, formals, tags, h[S \ {Max(S)}], Max(S))]
    <3>1. \A S \in SUBSET (1..(m + 1)) : S # {} => h[S \ {Max(S)}] = g[S \ {Max(S)}]
      BY <2>2, <2>3
    <3> QED BY <3>1
  <2> HIDE DEF h
  <2>5. Folded(pass, formals, tags, s, m + 1, h)
    BY <2>4 DEF Folded
  <2> QED BY <2>5
<1> HIDE DEF T
<1>3. n \in T
  BY <1>1, <1>2, SetInduction
<1> QED BY <1>3 DEF T

\* A pass takes the arguments one after the other.
LEMMA PassIs ==
    ASSUME NEW pass, NEW formals, NEW tags, NEW s
    PROVE  Pass(pass, formals, tags, s) =
             (CHOOSE g : g = [S \in SUBSET (DOMAIN [a \in DOMAIN tags |-> a]) |->
                IF S = {} THEN s
                ELSE Step(pass, formals, tags, g[S \ {Max(S)}], [a \in DOMAIN tags |-> a][Max(S)])])
             [DOMAIN [a \in DOMAIN tags |-> a]]
<1>1. Pass(pass, formals, tags, s)
        = FoldLeft(LAMBDA t, a : Step(pass, formals, tags, t, a), s, [a \in DOMAIN tags |-> a])
  BY DEF Pass
<1>2. FoldLeft(LAMBDA t, a : Step(pass, formals, tags, t, a), s, [a \in DOMAIN tags |-> a])
        = MapThenFoldSet(LAMBDA x, y : Step(pass, formals, tags, y, x), s,
               LAMBDA i : [a \in DOMAIN tags |-> a][i],
               LAMBDA S : Max(S), DOMAIN [a \in DOMAIN tags |-> a])
  BY DEF FoldLeft
<1>3. MapThenFoldSet(LAMBDA x, y : Step(pass, formals, tags, y, x), s,
               LAMBDA i : [a \in DOMAIN tags |-> a][i],
               LAMBDA S : Max(S), DOMAIN [a \in DOMAIN tags |-> a])
        = (CHOOSE g : g = [S \in SUBSET (DOMAIN [a \in DOMAIN tags |-> a]) |->
                IF S = {} THEN s
                ELSE Step(pass, formals, tags, g[S \ {Max(S)}], [a \in DOMAIN tags |-> a][Max(S)])])
             [DOMAIN [a \in DOMAIN tags |-> a]]
  BY DEF MapThenFoldSet
<1> QED BY <1>1, <1>2, <1>3

LEMMA PassRuns ==
    ASSUME NEW pass, NEW formals, NEW n \in Nat, NEW tags, DOMAIN tags = 1..n, NEW s
    PROVE  \E r : /\ r[0] = s
                  /\ \A a \in 1..n : r[a] = Step(pass, formals, tags, r[a - 1], a)
                  /\ Pass(pass, formals, tags, s) = r[n]
<1> DEFINE every == [a \in DOMAIN tags |-> a]
           Fold(g) == g = [S \in SUBSET (DOMAIN every) |->
                              IF S = {} THEN s ELSE Step(pass, formals, tags, g[S \ {Max(S)}], every[Max(S)])]
<1>1. PICK g : Folded(pass, formals, tags, s, n, g)
  BY FoldExists
<1>2. DOMAIN every = 1..n
  OBVIOUS
<1>3. \A S \in SUBSET (1..n) : S # {} => Max(S) \in 1..n
  <2>1. ASSUME NEW S \in SUBSET (1..n), S # {} PROVE Max(S) \in S
    BY <2>1, MaxIs
  <2> QED BY <2>1
<1>4. \A S \in SUBSET (1..n) : S # {} => every[Max(S)] = Max(S)
  BY <1>3
<1>5. Fold(g)
  BY <1>1, <1>2, <1>4 DEF Folded
<1>6. PICK f : f = (CHOOSE h : Fold(h))
  OBVIOUS
<1>7. Pass(pass, formals, tags, s) = f[1..n]
  BY <1>2, <1>6, PassIs
<1>8. Fold(f)
  BY <1>5, <1>6
<1>9. /\ f[{}] = s
      /\ \A S \in SUBSET (1..n) : S # {} => f[S] = Step(pass, formals, tags, f[S \ {Max(S)}], Max(S))
  <2>1. {} \in SUBSET (1..n)
    OBVIOUS
  <2> QED BY <1>2, <1>4, <1>8, <2>1
<1> DEFINE r == [a \in 0..n |-> f[1..a]]
<1>10. r[0] = s
  <2>1. 1..0 = {} /\ 0 \in 0..n
    OBVIOUS
  <2> QED BY <1>9, <2>1
<1>11. ASSUME NEW a \in 1..n PROVE r[a] = Step(pass, formals, tags, r[a - 1], a)
  <2>1. 1..a \in SUBSET (1..n) /\ 1..a # {} /\ a \in 0..n /\ a - 1 \in 0..n
    OBVIOUS
  <2>2. Max(1..a) = a
    <3>1. Max(1..a) \in 1..a /\ \A y \in 1..a : y <= Max(1..a)
      BY <2>1, MaxIs
    <3> QED BY <3>1
  <2>3. (1..a) \ {a} = 1..(a - 1)
    OBVIOUS
  <2> QED BY <1>9, <2>1, <2>2, <2>3
<1>12. r[n] = f[1..n]
  OBVIOUS
<1> HIDE DEF r
<1> QED BY <1>7, <1>10, <1>11, <1>12

-----------------------------------------------------------------------------
(* The passes *)

States(n, m) == [ok : BOOLEAN, to : [1..n -> 0..m]]
Apart(n, s) == \A a, b \in 1..n : s.to[a] # 0 /\ s.to[a] = s.to[b] => a = b

LEMMA FirstIs ==
    ASSUME NEW S, S \subseteq Nat
    PROVE  /\ S = {} => FirstOf(S) = 0
           /\ S # {} => FirstOf(S) \in S /\ Min(S) \in S /\ \A x \in S : Min(S) <= x
<1>1. ASSUME S # {} PROVE Min(S) \in S /\ \A x \in S : Min(S) <= x
  <2>1. PICK m \in S : \A x \in S : m <= x
    BY <1>1, LeastElement
  <2> QED BY <2>1 DEF Min
<1> QED BY <1>1 DEF FirstOf

LEMMA SetTo ==
    ASSUME NEW n, NEW m, NEW s, s \in States(n, m), NEW a, a \in 1..n, NEW p, p \in 0..m
    PROVE  LET t == [s EXCEPT !.to[a] = p]
           IN  /\ t \in States(n, m) /\ t.ok = s.ok /\ t.to[a] = p
               /\ \A b \in 1..n : b # a => t.to[b] = s.to[b]
BY DEF States

LEMMA Failing ==
    ASSUME NEW n, NEW m, NEW s, s \in States(n, m)
    PROVE  LET t == [s EXCEPT !.ok = FALSE] IN t \in States(n, m) /\ ~t.ok /\ t.to = s.to
BY DEF States

LEMMA Taken ==
    ASSUME NEW n \in Nat, NEW m, NEW s, s \in States(n, m)
    PROVE  /\ \A p : p \in ToSet(s.to) <=> \E b \in 1..n : s.to[b] = p
           /\ \A p : Contains(s.to, p) <=> \E b \in 1..n : s.to[b] = p
<1>1. s.to \in [1..n -> 0..m]
  BY DEF States
<1>2. DOMAIN s.to = 1..n /\ Len(s.to) = n
  BY <1>1
<1> QED BY <1>2 DEF ToSet, Contains

LEMMA PositionIs ==
    ASSUME NEW S, NEW formals \in Seq(S), NEW tag
    PROVE  /\ Position(formals, tag) \in 0..Len(formals)
           /\ Position(formals, tag) # 0 => formals[Position(formals, tag)] = tag
           /\ Position(formals, tag) # 0 <=> Contains(formals, tag)
<1> DEFINE P == {p \in DOMAIN formals : formals[p] = tag}
<1>1. DOMAIN formals = 1..Len(formals) /\ Len(formals) \in Nat
  OBVIOUS
<1>2. P \subseteq Nat /\ P \subseteq 1..Len(formals)
  BY <1>1
<1>3. Contains(formals, tag) <=> P # {}
  BY <1>1 DEF Contains
<1>4. Position(formals, tag) = FirstOf(P)
  BY DEF Position
<1>5. P = {} => FirstOf(P) = 0
  BY <1>2, FirstIs
<1>6. P # {} => FirstOf(P) \in P
  BY <1>2, FirstIs
<1> QED BY <1>1, <1>2, <1>3, <1>4, <1>5, <1>6

\* After the first k arguments of the first pass.
Named_(formals, tags, n, k, s) ==
    /\ s \in States(n, Len(formals))
    /\ \A a \in 1..n : s.to[a] # 0 => a <= k /\ Exact(formals, tags, a) /\ formals[s.to[a]] = tags[a]
    /\ s.ok => Apart(n, s) /\ \A a \in 1..n : a <= k /\ Exact(formals, tags, a) => s.to[a] # 0
    /\ ~s.ok => Refused(formals, tags)

LEMMA ExactStep ==
    ASSUME NEW S, NEW formals \in Seq(S), NEW n \in Nat, NEW tags, DOMAIN tags = 1..n,
           NEW a \in 1..n, NEW s, Named_(formals, tags, n, a - 1, s)
    PROVE  Named_(formals, tags, n, a, exact(formals, tags, s, a))
<1>0. PICK t, m, p : t = exact(formals, tags, s, a) /\ m = Len(formals) /\ p = Position(formals, tags[a])
  OBVIOUS
<1>1. s \in States(n, m) /\ m \in Nat /\ s.to \in [1..n -> 0..m] /\ s.ok \in BOOLEAN
  BY <1>0 DEF Named_, States
<1>2. p \in 0..m /\ (p # 0 => formals[p] = tags[a]) /\ (p # 0 <=> Contains(formals, tags[a]))
  BY <1>0, PositionIs
<1>3. \A b \in 1..n : b <= a => b <= a - 1 \/ b = a
  OBVIOUS
<1>4. CASE t = s /\ ~Exact(formals, tags, a)
  BY <1>0, <1>1, <1>3, <1>4 DEF Named_
<1>5. CASE t = [s EXCEPT !.ok = FALSE] /\ p \in ToSet(s.to) /\ p # 0 /\ Exact(formals, tags, a)
  <2>1. PICK b \in 1..n : s.to[b] = p
    BY <1>1, <1>5 DEF ToSet
  <2>2. b <= a - 1 /\ Exact(formals, tags, b) /\ formals[p] = tags[b]
    BY <1>5, <2>1 DEF Named_
  <2>3. Refused(formals, tags)
    <3>1. b # a /\ tags[b] = tags[a]
      BY <1>2, <1>5, <2>2
    <3> QED BY <2>2, <3>1 DEF Refused
  <2>4. t \in States(n, m) /\ ~t.ok /\ t.to = s.to
    BY <1>1, <1>5, Failing
  <2> QED BY <1>0, <1>1, <2>3, <2>4 DEF Named_
<1>6. CASE t = [s EXCEPT !.to[a] = p] /\ p \notin ToSet(s.to) /\ p # 0 /\ Exact(formals, tags, a)
  <2>1. t \in States(n, m) /\ t.ok = s.ok /\ t.to[a] = p /\ \A b \in 1..n : b # a => t.to[b] = s.to[b]
    BY <1>1, <1>2, <1>6 DEF States
  <2>2. \A b \in 1..n : s.to[b] # p
    BY <1>1, <1>6, Taken
  <2>3. s.ok => Apart(n, t)
    BY <2>1, <2>2 DEF Named_, Apart
  <2>4. \A b \in 1..n : t.to[b] # 0 => b <= a /\ Exact(formals, tags, b) /\ formals[t.to[b]] = tags[b]
    BY <1>2, <1>6, <2>1 DEF Named_
  <2>5. s.ok => \A b \in 1..n : b <= a /\ Exact(formals, tags, b) => t.to[b] # 0
    BY <1>3, <1>6, <2>1 DEF Named_
  <2> QED BY <1>0, <2>1, <2>3, <2>4, <2>5 DEF Named_
<1>7. \/ t = s /\ ~Exact(formals, tags, a)
      \/ t = [s EXCEPT !.ok = FALSE] /\ p \in ToSet(s.to) /\ p # 0 /\ Exact(formals, tags, a)
      \/ t = [s EXCEPT !.to[a] = p] /\ p \notin ToSet(s.to) /\ p # 0 /\ Exact(formals, tags, a)
  <2>1. CASE tags[a] = ""
    BY <2>1, <1>0 DEF exact, Exact
  <2>2. CASE tags[a] # "" /\ p = 0
    BY <1>2, <2>2, <1>0 DEF exact, Exact
  <2>3. CASE tags[a] # "" /\ p # 0 /\ p \in ToSet(s.to)
    BY <1>2, <2>3, <1>0 DEF exact, Exact
  <2>4. CASE tags[a] # "" /\ p # 0 /\ p \notin ToSet(s.to)
    BY <1>2, <2>4, <1>0 DEF exact, Exact
  <2> QED BY <2>1, <2>2, <2>3, <2>4
<1> QED BY <1>0, <1>4, <1>5, <1>6, <1>7

\* After the first k arguments of the second pass.
Parted(formals, tags, n, k, s) ==
    /\ s \in States(n, Len(formals))
    /\ s.ok =>
        /\ Apart(n, s)
        /\ \A a \in 1..n : Exact(formals, tags, a) => s.to[a] # 0 /\ formals[s.to[a]] = tags[a]
        /\ \A a \in 1..n : tags[a] = "" => s.to[a] = 0
        /\ \A a \in 1..n : (ByPart(formals, tags, a) /\ s.to[a] # 0) =>
              a <= k /\ s.to[a] \in Front_(formals) /\ starts_with(formals[s.to[a]], tags[a])
        /\ \A a \in 1..n : (ByPart(formals, tags, a) /\ a <= k) =>
              \A p \in Front_(formals) : (p # s.to[a] /\ starts_with(formals[p], tags[a])) =>
                  \E b \in 1..n : s.to[b] = p /\ tags[b] # "" /\ (Exact(formals, tags, b) \/ b < a)
    /\ ~s.ok => Refused(formals, tags)

LEMMA ExactOrPart ==
    ASSUME NEW formals, NEW tags, NEW a
    PROVE  /\ tags[a] # "" <=> (Exact(formals, tags, a) \/ ByPart(formals, tags, a))
           /\ ~(Exact(formals, tags, a) /\ ByPart(formals, tags, a))
BY DEF Exact, ByPart

\* The first pass leaves what the second one starts from.
LEMMA NamedThenParted ==
    ASSUME NEW formals, NEW tags, NEW n \in Nat, NEW s, Named_(formals, tags, n, n, s)
    PROVE  Parted(formals, tags, n, 0, s)
<1>1. s \in States(n, Len(formals)) /\ (~s.ok => Refused(formals, tags))
  BY DEF Named_
<1>2. ASSUME s.ok
      PROVE  /\ Apart(n, s)
             /\ \A a \in 1..n : Exact(formals, tags, a) => s.to[a] # 0 /\ formals[s.to[a]] = tags[a]
             /\ \A a \in 1..n : s.to[a] # 0 => Exact(formals, tags, a)
  BY <1>2 DEF Named_
<1>3. \A a \in 1..n : ~(a <= 0)
  OBVIOUS
<1> QED BY <1>1, <1>2, <1>3, ExactOrPart DEF Parted

LEMMA FrontIn ==
    ASSUME NEW S, NEW formals \in Seq(S)
    PROVE  /\ Front_(formals) \subseteq 1..Len(formals)
           /\ partial_limit(formals) = Front_(formals)
BY DEF Front_, partial_limit

LEMMA JustOne ==
    ASSUME NEW S, IsFiniteSet(S), S # {}
    PROVE  Cardinality(S) > 1 <=> \E x, y \in S : x # y
<1>1. Cardinality(S) \in Nat
  BY FS_CardinalityType
<1>2. CASE \A x, y \in S : x = y
  <2>1. PICK x \in S : S = {x}
    BY <1>2
  <2>2. Cardinality(S) = 1
    BY <2>1, FS_Singleton
  <2> QED BY <1>2, <2>2
<1>3. CASE \E x, y \in S : x # y
  <2>1. PICK x, y \in S : x # y
    BY <1>3
  <2>2. {x, y} \subseteq S /\ Cardinality({x, y}) = 2
    <3>1. IsFiniteSet({x}) /\ Cardinality({x}) = 1
      BY FS_Singleton
    <3>2. Cardinality({x} \cup {y}) = Cardinality({x}) + 1
      BY <2>1, <3>1, FS_AddElement
    <3>3. {x} \cup {y} = {x, y}
      OBVIOUS
    <3> QED BY <2>1, <3>1, <3>2, <3>3
  <2>3. Cardinality({x, y}) <= Cardinality(S)
    BY <2>2, FS_Subset
  <2> QED BY <1>1, <1>3, <2>2, <2>3
<1> QED BY <1>2, <1>3

LEMMA PartialStep ==
    ASSUME NEW S, NEW formals \in Seq(S), NEW n \in Nat, NEW tags, DOMAIN tags = 1..n,
           NEW a \in 1..n, NEW s, Parted(formals, tags, n, a - 1, s)
    PROVE  Parted(formals, tags, n, a, partial(formals, tags, s, a))
<1>0. PICK t, m, F, H : /\ t = partial(formals, tags, s, a) /\ m = Len(formals)
                        /\ F = Front_(formals) /\ H = Hits(formals, tags, s, a)
  OBVIOUS
<1>1. s \in States(n, m) /\ m \in Nat /\ s.to \in [1..n -> 0..m] /\ s.ok \in BOOLEAN
  <2>1. s \in States(n, m)
    BY <1>0 DEF Parted
  <2> QED BY <1>0, <2>1 DEF States
<1>a. ~s.ok => Refused(formals, tags)
  BY DEF Parted
<1>b. ASSUME s.ok
      PROVE  /\ Apart(n, s)
             /\ \A b \in 1..n : Exact(formals, tags, b) => s.to[b] # 0 /\ formals[s.to[b]] = tags[b]
             /\ \A b \in 1..n : tags[b] = "" => s.to[b] = 0
  BY <1>b DEF Parted
<1>c. ASSUME s.ok, NEW b \in 1..n, ByPart(formals, tags, b), s.to[b] # 0
      PROVE  b <= a - 1 /\ b <= a /\ s.to[b] \in F /\ starts_with(formals[s.to[b]], tags[b])
  <2>1. b <= a - 1 /\ s.to[b] \in F /\ starts_with(formals[s.to[b]], tags[b])
    BY <1>0, <1>c DEF Parted
  <2> QED BY <2>1
<1>d. ASSUME s.ok, NEW b \in 1..n, ByPart(formals, tags, b), b <= a - 1,
             NEW p \in F, p # s.to[b], starts_with(formals[p], tags[b])
      PROVE  \E c \in 1..n : s.to[c] = p /\ tags[c] # "" /\ (Exact(formals, tags, c) \/ c < b)
  BY <1>0, <1>d DEF Parted
<1>e. ASSUME s.ok,
             \A b \in 1..n : (ByPart(formals, tags, b) /\ b <= a) =>
                \A p \in F : (p # s.to[b] /\ starts_with(formals[p], tags[b])) =>
                    \E c \in 1..n : s.to[c] = p /\ tags[c] # "" /\ (Exact(formals, tags, c) \/ c < b)
      PROVE  Parted(formals, tags, n, a, s)
  <2>1. \A b \in 1..n : (ByPart(formals, tags, b) /\ s.to[b] # 0) =>
              b <= a /\ s.to[b] \in F /\ starts_with(formals[s.to[b]], tags[b])
    BY <1>c, <1>e
  <2>2. F = Front_(formals) /\ s \in States(n, Len(formals))
    BY <1>0, <1>1
  <2>3. /\ Apart(n, s)
        /\ \A b \in 1..n : Exact(formals, tags, b) => s.to[b] # 0 /\ formals[s.to[b]] = tags[b]
        /\ \A b \in 1..n : tags[b] = "" => s.to[b] = 0
    BY <1>b, <1>e
  <2> HIDE <1>0
  <2> QED BY <1>e, <2>1, <2>2, <2>3 DEF Parted
<1>f. ASSUME ~s.ok PROVE Parted(formals, tags, n, a, s)
  BY <1>0, <1>1, <1>a, <1>f DEF Parted
<1>2. F \subseteq 1..m /\ H \subseteq F /\ \A p : p \in H <=> p \in F /\ p \notin ToSet(s.to) /\ starts_with(formals[p], tags[a])
  BY <1>0, FrontIn DEF Hits
<1>3. \A b \in 1..n : b <= a => b <= a - 1 \/ b = a
  OBVIOUS
<1>4. \A p \in ToSet(s.to) : \E b \in 1..n : s.to[b] = p
  BY <1>1 DEF ToSet
<1>5. H # {} => Min(H) \in H
  <2>1. H \subseteq Nat
    BY <1>2
  <2> QED BY <2>1, FirstIs
<1>6. IsFiniteSet(H)
  <2>1. IsFiniteSet(1..m)
    BY <1>1, FS_Interval
  <2> QED BY <1>2, <2>1, FS_Subset
<1>7. \/ t = s /\ (s.to[a] # 0 \/ tags[a] = "")
      \/ t = s /\ s.to[a] = 0 /\ tags[a] # "" /\ H = {}
      \/ t = [s EXCEPT !.ok = FALSE] /\ s.to[a] = 0 /\ tags[a] # "" /\ H # {} /\ Cardinality(H) > 1
      \/ t = [s EXCEPT !.to[a] = Min(H)] /\ s.to[a] = 0 /\ tags[a] # "" /\ H # {} /\ ~(Cardinality(H) > 1)
  <2>1. CASE s.to[a] # 0 \/ tags[a] = ""
    BY <1>0, <2>1 DEF partial
  <2>2. CASE s.to[a] = 0 /\ tags[a] # "" /\ H = {}
    BY <1>0, <2>2 DEF partial
  <2>3. CASE s.to[a] = 0 /\ tags[a] # "" /\ H # {} /\ Cardinality(H) > 1
    BY <1>0, <2>3 DEF partial
  <2>4. CASE s.to[a] = 0 /\ tags[a] # "" /\ H # {} /\ ~(Cardinality(H) > 1)
    BY <1>0, <2>4 DEF partial
  <2> QED BY <2>1, <2>2, <2>3, <2>4
<1>8. ASSUME s.ok, s.to[a] = 0, tags[a] # "" PROVE ByPart(formals, tags, a)
  BY <1>8, ExactOrPart DEF Parted
<1>9. ASSUME s.ok, NEW p \in F, p \in ToSet(s.to)
      PROVE  \E b \in 1..n : s.to[b] = p /\ tags[b] # "" /\ (Exact(formals, tags, b) \/ b < a)
  <2>1. PICK b \in 1..n : s.to[b] = p
    BY <1>4, <1>9
  <2>2. s.to[b] # 0
    BY <1>2, <2>1
  <2>3. tags[b] # ""
    BY <1>9, <2>2 DEF Parted
  <2>4. ByPart(formals, tags, b) => b <= a - 1
    BY <1>9, <2>2 DEF Parted
  <2>5. ByPart(formals, tags, b) => b < a
    BY <2>4
  <2> QED BY <2>1, <2>3, <2>5, ExactOrPart
<1>10. CASE t = s /\ (s.to[a] # 0 \/ tags[a] = "")
  <2>1. s.ok => ~ByPart(formals, tags, a)
    <3>1. ~(a <= a - 1)
      OBVIOUS
    <3> QED BY <1>10, <3>1, ExactOrPart DEF Parted
  <2>2. ASSUME s.ok, NEW b \in 1..n, ByPart(formals, tags, b), b <= a
        PROVE  b <= a - 1
    BY <1>3, <2>1, <2>2
  <2> QED BY <1>0, <1>1, <1>d, <1>e, <1>f, <1>10, <2>2
<1>11. CASE t = s /\ s.to[a] = 0 /\ tags[a] # "" /\ H = {}
  <2>2. ASSUME s.ok, NEW p \in F, starts_with(formals[p], tags[a])
        PROVE  \E b \in 1..n : s.to[b] = p /\ tags[b] # "" /\ (Exact(formals, tags, b) \/ b < a)
    <3>1. p \in ToSet(s.to)
      BY <1>2, <1>11, <2>2
    <3> QED BY <1>9, <2>2, <3>1
  <2>3. ASSUME s.ok, NEW b \in 1..n, ByPart(formals, tags, b), b <= a,
               NEW p \in F, p # s.to[b], starts_with(formals[p], tags[b])
        PROVE  \E c \in 1..n : s.to[c] = p /\ tags[c] # "" /\ (Exact(formals, tags, c) \/ c < b)
    <3>1. CASE b = a
      BY <2>2, <2>3, <3>1
    <3>2. CASE b # a
      BY <1>3, <1>d, <2>3, <3>2
    <3> QED BY <3>1, <3>2
  <2> QED BY <1>0, <1>1, <1>e, <1>f, <1>11, <2>3
<1>12. CASE t = [s EXCEPT !.ok = FALSE] /\ s.to[a] = 0 /\ tags[a] # "" /\ H # {} /\ Cardinality(H) > 1
  <2>1. t \in States(n, m) /\ ~t.ok
    BY <1>1, <1>12 DEF States
  <2>2. ASSUME s.ok PROVE Refused(formals, tags)
    <3>1. PICK p, q \in H : p # q
      BY <1>6, <1>12, JustOne
    <3>2. p \in F /\ q \in F /\ starts_with(formals[p], tags[a]) /\ starts_with(formals[q], tags[a])
      BY <1>2
    <3>3. ByPart(formals, tags, a)
      BY <1>8, <1>12, <2>2
    <3> QED BY <1>0, <3>1, <3>2, <3>3 DEF Refused
  <2> QED BY <1>0, <1>1, <1>a, <2>1, <2>2 DEF Parted
<1>13. CASE t = [s EXCEPT !.to[a] = Min(H)] /\ s.to[a] = 0 /\ tags[a] # "" /\ H # {} /\ ~(Cardinality(H) > 1)
  <2>1. PICK p : p = Min(H)
    OBVIOUS
  <2>2. p \in H /\ p \in F /\ p \in 1..m /\ p \notin ToSet(s.to) /\ starts_with(formals[p], tags[a])
    BY <1>2, <1>5, <1>13, <2>1
  <2>3. t \in States(n, m) /\ t.ok = s.ok /\ t.to[a] = p /\ \A b \in 1..n : b # a => t.to[b] = s.to[b]
    <3>1. p \in 0..m
      BY <2>2
    <3> QED BY <1>1, <1>13, <2>1, <3>1 DEF States
  <2>4. \A b \in 1..n : s.to[b] # p
    BY <1>1, <2>2 DEF ToSet
  <2>6. ASSUME s.ok PROVE Apart(n, t)
    BY <1>b, <2>3, <2>4, <2>6 DEF Apart
  <2>7. ASSUME s.ok PROVE ByPart(formals, tags, a)
    BY <1>8, <1>13, <2>7
  <2>8. ASSUME s.ok, NEW b \in 1..n
        PROVE  /\ Exact(formals, tags, b) => t.to[b] # 0 /\ formals[t.to[b]] = tags[b]
               /\ tags[b] = "" => t.to[b] = 0
               /\ (ByPart(formals, tags, b) /\ t.to[b] # 0) =>
                     b <= a /\ t.to[b] \in F /\ starts_with(formals[t.to[b]], tags[b])
    <3>1. CASE b = a
      <4>1. ByPart(formals, tags, b) /\ ~Exact(formals, tags, b) /\ tags[b] # ""
        BY <2>7, <2>8, <3>1, ExactOrPart
      <4>2. t.to[b] = p /\ b <= a
        BY <2>3, <3>1
      <4> QED BY <2>2, <3>1, <4>1, <4>2
    <3>2. CASE b # a
      BY <1>b, <1>c, <2>3, <2>8, <3>2
    <3> QED BY <3>1, <3>2
  <2>9. \A c \in 1..n : s.to[c] # 0 => t.to[c] = s.to[c]
    BY <1>13, <2>3
  <2>10. ASSUME s.ok, NEW b \in 1..n, ByPart(formals, tags, b), b <= a,
                NEW q \in F, q # t.to[b], starts_with(formals[q], tags[b])
         PROVE  \E c \in 1..n : t.to[c] = q /\ tags[c] # "" /\ (Exact(formals, tags, c) \/ c < b)
    <3>1. \E c \in 1..n : s.to[c] = q /\ tags[c] # "" /\ (Exact(formals, tags, c) \/ c < b)
      <4>1. CASE b = a
        <5>1. q \notin H
          BY <1>6, <1>13, <2>2, <2>3, <2>10, <4>1, JustOne
        <5>2. q \in ToSet(s.to)
          BY <1>2, <2>10, <4>1, <5>1
        <5> QED BY <1>9, <2>10, <4>1, <5>2
      <4>2. CASE b # a
        <5>1. b <= a - 1 /\ q # s.to[b]
          BY <1>3, <2>3, <2>10, <4>2
        <5> QED BY <1>d, <2>10, <5>1
      <4> QED BY <4>1, <4>2
    <3>2. q # 0
      BY <1>2
    <3> QED BY <2>9, <3>1, <3>2
  <2> QED BY <1>0, <1>a, <2>3, <2>6, <2>8, <2>10 DEF Parted
<1> QED BY <1>0, <1>7, <1>10, <1>11, <1>12, <1>13

\* After the first k arguments of the third pass, which starts from s0.
Filled(formals, tags, n, k, s0, s) ==
    /\ s \in States(n, Len(formals))
    /\ s.ok = s0.ok
    /\ s.ok =>
        /\ Apart(n, s)
        /\ \A a \in 1..n : tags[a] # "" => s.to[a] = s0.to[a]
        /\ \A a \in 1..n : (tags[a] = "" /\ s.to[a] # 0) =>
              /\ a <= k /\ s.to[a] \in Front_(formals)
              /\ \A p \in Front_(formals) : p < s.to[a] => \E b \in 1..n : s.to[b] = p /\ (tags[b] # "" \/ b < a)
        /\ \A a \in 1..n : (tags[a] = "" /\ s.to[a] = 0 /\ a <= k) =>
              \A p \in Front_(formals) : \E b \in 1..n : s.to[b] = p

LEMMA PartedThenFilled ==
    ASSUME NEW formals, NEW tags, NEW n \in Nat, NEW s, Parted(formals, tags, n, n, s)
    PROVE  Filled(formals, tags, n, 0, s, s)
<1>1. s \in States(n, Len(formals))
  BY DEF Parted
<1>2. s.ok => Apart(n, s) /\ \A a \in 1..n : tags[a] = "" => s.to[a] = 0
  BY DEF Parted
<1>3. \A a \in 1..n : ~(a <= 0)
  OBVIOUS
<1> QED BY <1>1, <1>2, <1>3 DEF Filled

LEMMA FillStep ==
    ASSUME NEW S, NEW formals \in Seq(S), NEW n \in Nat, NEW tags, DOMAIN tags = 1..n,
           NEW a \in 1..n, NEW s0, NEW s, Filled(formals, tags, n, a - 1, s0, s)
    PROVE  Filled(formals, tags, n, a, s0, fill(formals, tags, s, a))
<1>0. PICK t, m, F, H : /\ t = fill(formals, tags, s, a) /\ m = Len(formals)
                        /\ F = Front_(formals) /\ H = F \ ToSet(s.to)
  OBVIOUS
<1>1. s \in States(n, m) /\ m \in Nat /\ s.to \in [1..n -> 0..m] /\ s.ok \in BOOLEAN /\ s.ok = s0.ok
  <2>1. s \in States(n, m) /\ s.ok = s0.ok
    BY <1>0 DEF Filled
  <2> QED BY <1>0, <2>1 DEF States
<1>2. F \subseteq 1..m /\ H \subseteq F /\ H = F \ ToSet(s.to)
  BY <1>0, FrontIn
<1>3. \A b \in 1..n : b <= a => b <= a - 1 \/ b = a
  OBVIOUS
<1>4. \A p \in ToSet(s.to) : \E b \in 1..n : s.to[b] = p
  BY <1>1 DEF ToSet
<1>5. H # {} => Min(H) \in H /\ \A p \in H : Min(H) <= p
  <2>1. F \subseteq 1..m /\ H \subseteq F /\ 1..m \subseteq Nat
    BY <1>2
  <2>2. H \subseteq Nat
    BY ONLY <2>1
  <2> QED BY <2>2, FirstIs
<1>b. ASSUME s.ok PROVE Apart(n, s) /\ \A b \in 1..n : tags[b] # "" => s.to[b] = s0.to[b]
  BY <1>b DEF Filled
<1>c. ASSUME s.ok, NEW b \in 1..n, tags[b] = "", s.to[b] # 0
      PROVE  /\ b <= a - 1 /\ b <= a /\ b # a /\ s.to[b] \in F
             /\ \A p \in F : p < s.to[b] => \E c \in 1..n : s.to[c] = p /\ (tags[c] # "" \/ c < b)
  <2>1. /\ b <= a - 1 /\ s.to[b] \in F
        /\ \A p \in F : p < s.to[b] => \E c \in 1..n : s.to[c] = p /\ (tags[c] # "" \/ c < b)
    BY <1>0, <1>c DEF Filled
  <2>2. b <= a /\ b # a
    <3>1. b <= a - 1
      BY <2>1
    <3> QED BY <3>1
  <2> QED BY <2>1, <2>2
<1>d. ASSUME s.ok, NEW b \in 1..n, tags[b] = "", s.to[b] = 0, b <= a - 1
      PROVE  \A p \in F : \E c \in 1..n : s.to[c] = p
  BY <1>0, <1>d DEF Filled
<1>e. ASSUME s.ok, (tags[a] = "" /\ s.to[a] = 0) => \A p \in F : \E c \in 1..n : s.to[c] = p
      PROVE  Filled(formals, tags, n, a, s0, s)
  <2>1. \A b \in 1..n : (tags[b] = "" /\ s.to[b] # 0) =>
              /\ b <= a /\ s.to[b] \in F
              /\ \A p \in F : p < s.to[b] => \E c \in 1..n : s.to[c] = p /\ (tags[c] # "" \/ c < b)
    BY <1>c, <1>e
  <2>2. \A b \in 1..n : (tags[b] = "" /\ s.to[b] = 0 /\ b <= a) => \A p \in F : \E c \in 1..n : s.to[c] = p
    BY <1>3, <1>d, <1>e
  <2>3. F = Front_(formals) /\ s \in States(n, Len(formals)) /\ s.ok = s0.ok
    BY <1>0, <1>1
  <2>4. Apart(n, s) /\ \A b \in 1..n : tags[b] # "" => s.to[b] = s0.to[b]
    BY <1>b, <1>e
  <2> HIDE <1>0
  <2> QED BY <1>e, <2>1, <2>2, <2>3, <2>4 DEF Filled
<1>f. ASSUME ~s.ok PROVE Filled(formals, tags, n, a, s0, s)
  BY <1>0, <1>1, <1>f DEF Filled
<1>7. \/ t = s /\ (s.to[a] # 0 \/ tags[a] # "")
      \/ t = s /\ s.to[a] = 0 /\ tags[a] = "" /\ H = {}
      \/ t = [s EXCEPT !.to[a] = Min(H)] /\ s.to[a] = 0 /\ tags[a] = "" /\ H # {}
  <2>1. CASE s.to[a] # 0 \/ tags[a] # ""
    BY <1>0, <2>1 DEF fill
  <2>2. CASE s.to[a] = 0 /\ tags[a] = "" /\ H = {}
    BY <1>0, <2>2 DEF fill
  <2>3. CASE s.to[a] = 0 /\ tags[a] = "" /\ H # {}
    BY <1>0, <2>3 DEF fill
  <2> QED BY <2>1, <2>2, <2>3
<1>8. CASE t = s /\ (s.to[a] # 0 \/ tags[a] # "")
  BY <1>0, <1>1, <1>e, <1>f, <1>8
<1>9. CASE t = s /\ s.to[a] = 0 /\ tags[a] = "" /\ H = {}
  <2>1. \A p \in F : \E c \in 1..n : s.to[c] = p
    BY <1>2, <1>4, <1>9
  <2> QED BY <1>0, <1>1, <1>e, <1>f, <1>9, <2>1
<1>10. CASE t = [s EXCEPT !.to[a] = Min(H)] /\ s.to[a] = 0 /\ tags[a] = "" /\ H # {}
  <2>1. PICK p : p = Min(H)
    OBVIOUS
  <2>2. p \in H /\ p \in F /\ p \in 1..m /\ p \notin ToSet(s.to) /\ \A q \in H : p <= q
    BY <1>2, <1>5, <1>10, <2>1
  <2>3. t \in States(n, m) /\ t.ok = s.ok /\ t.to[a] = p /\ \A b \in 1..n : b # a => t.to[b] = s.to[b]
    <3>1. p \in 0..m
      BY <2>2
    <3> QED BY <1>1, <1>10, <2>1, <3>1 DEF States
  <2>4. \A b \in 1..n : s.to[b] # p
    BY <1>1, <2>2 DEF ToSet
  <2>5. ASSUME s.ok PROVE Apart(n, t)
    BY <1>b, <2>3, <2>4, <2>5 DEF Apart
  <2>6. \A c \in 1..n : s.to[c] # 0 => t.to[c] = s.to[c]
    BY <1>10, <2>3
  <2>7. \A q \in F : q # 0
    BY <1>2
  <2>8. ASSUME s.ok, NEW b \in 1..n, tags[b] # "" PROVE t.to[b] = s0.to[b]
    BY <1>b, <1>10, <2>3, <2>8
  <2>9. ASSUME s.ok, NEW b \in 1..n, tags[b] = "", t.to[b] # 0
        PROVE  /\ b <= a /\ t.to[b] \in F
               /\ \A q \in F : q < t.to[b] => \E c \in 1..n : t.to[c] = q /\ (tags[c] # "" \/ c < b)
    <3>1. CASE b = a
      <4>1. ASSUME NEW q \in F, q < p
            PROVE  \E c \in 1..n : t.to[c] = q /\ (tags[c] # "" \/ c < a)
        <5>1. q \in ToSet(s.to)
          <6>1. q \in 1..m /\ ~(p <= q)
            BY <1>2, <2>2, <4>1
          <6> QED BY <1>2, <2>2, <6>1
        <5>2. PICK c \in 1..n : s.to[c] = q
          BY <1>4, <5>1
        <5>3. s.to[c] # 0 /\ t.to[c] = q
          BY <2>6, <2>7, <5>2
        <5>5. ASSUME tags[c] = "" PROVE c < a
          <6>1. c <= a /\ c # a
            BY <1>c, <2>9, <5>2, <5>3, <5>5
          <6> QED BY <6>1
        <5> QED BY <5>3, <5>5
      <4>2. t.to[b] = p /\ b <= a
        BY <2>3, <3>1
      <4> QED BY <2>2, <3>1, <4>1, <4>2
    <3>2. CASE b # a
      <4>1. t.to[b] = s.to[b] /\ s.to[b] # 0
        BY <2>3, <2>9, <3>2
      <4>2. /\ b <= a /\ s.to[b] \in F
            /\ \A q \in F : q < s.to[b] => \E c \in 1..n : s.to[c] = q /\ (tags[c] # "" \/ c < b)
        BY <1>c, <2>9, <4>1
      <4> QED BY <2>6, <2>7, <4>1, <4>2
    <3> QED BY <3>1, <3>2
  <2>10. ASSUME s.ok, NEW b \in 1..n, tags[b] = "", t.to[b] = 0, b <= a, NEW q \in F
         PROVE  \E c \in 1..n : t.to[c] = q
    <3>1. b # a
      <4>1. p # 0
        BY <2>2, <2>7
      <4> QED BY <2>3, <2>10, <4>1
    <3>2. b <= a - 1 /\ s.to[b] = 0
      BY <1>3, <2>3, <2>10, <3>1
    <3>3. PICK c \in 1..n : s.to[c] = q
      BY <1>d, <2>10, <3>2
    <3> QED BY <2>6, <2>7, <3>3
  <2>11. F = Front_(formals) /\ t \in States(n, Len(formals)) /\ t.ok = s0.ok
    BY <1>0, <1>1, <2>3
  <2>12. Filled(formals, tags, n, a, s0, t)
    <3> HIDE <1>0
    <3> QED BY <2>3, <2>5, <2>8, <2>9, <2>10, <2>11 DEF Filled
  <2> QED BY <1>0, <2>12
<1> QED BY <1>0, <1>7, <1>8, <1>9, <1>10

-----------------------------------------------------------------------------
(* The three together *)

LEMMA AfterThree ==
    ASSUME NEW S, NEW formals \in Seq(S), NEW n \in Nat, NEW tags, DOMAIN tags = 1..n
    PROVE  \E s0 : /\ Parted(formals, tags, n, n, s0)
                   /\ Filled(formals, tags, n, n, s0, match_positions(formals, tags))
<1>1. PICK u : u = Untouched(tags)
  OBVIOUS
<1>2. Named_(formals, tags, n, 0, u)
  <2>1. u.ok = TRUE /\ u.to = [a \in 1..n |-> 0] /\ u = [ok |-> TRUE, to |-> [a \in 1..n |-> 0]]
    BY <1>1 DEF Untouched
  <2>2. 0 \in 0..Len(formals)
    OBVIOUS
  <2>3. u \in States(n, Len(formals))
    BY <2>1, <2>2 DEF States
  <2>4. \A a \in 1..n : u.to[a] = 0 /\ ~(a <= 0)
    BY <2>1
  <2> QED BY <2>1, <2>3, <2>4 DEF Named_, Apart
<1>3. PICK s1 : s1 = Pass("exact", formals, tags, u)
  OBVIOUS
<1>4. Named_(formals, tags, n, n, s1)
  <2>1. PICK r : /\ r[0] = u
                 /\ \A a \in 1..n : r[a] = Step("exact", formals, tags, r[a - 1], a)
                 /\ s1 = r[n]
    <3>1. \E r : /\ r[0] = u
                 /\ \A a \in 1..n : r[a] = Step("exact", formals, tags, r[a - 1], a)
                 /\ Pass("exact", formals, tags, u) = r[n]
      BY PassRuns
    <3> QED BY <1>3, <3>1
  <2> DEFINE T == {k \in Nat : k <= n => Named_(formals, tags, n, k, r[k])}
  <2>2. 0 \in T
    BY <1>2, <2>1
  <2>3. ASSUME NEW k \in Nat, k \in T PROVE k + 1 \in T
    <3>1. CASE k + 1 <= n
      <4>1. k + 1 \in 1..n /\ (k + 1) - 1 = k /\ k <= n
        BY <3>1
      <4>2. Named_(formals, tags, n, (k + 1) - 1, r[k])
        BY <2>3, <4>1
      <4>3. r[k + 1] = exact(formals, tags, r[k], k + 1)
        BY <2>1, <4>1 DEF Step
      <4>4. Named_(formals, tags, n, k + 1, r[k + 1])
        BY <4>1, <4>2, <4>3, ExactStep
      <4> QED BY <4>4
    <3> QED BY <3>1
  <2> HIDE DEF T
  <2>4. n \in T
    BY <2>2, <2>3, SetInduction
  <2> QED BY <2>1, <2>4 DEF T
<1>5. PICK s2 : s2 = Pass("partial", formals, tags, s1)
  OBVIOUS
<1>6. Parted(formals, tags, n, n, s2)
  <2>1. PICK r : /\ r[0] = s1
                 /\ \A a \in 1..n : r[a] = Step("partial", formals, tags, r[a - 1], a)
                 /\ s2 = r[n]
    <3>1. \E r : /\ r[0] = s1
                 /\ \A a \in 1..n : r[a] = Step("partial", formals, tags, r[a - 1], a)
                 /\ Pass("partial", formals, tags, s1) = r[n]
      BY PassRuns
    <3> QED BY <1>5, <3>1
  <2> DEFINE T == {k \in Nat : k <= n => Parted(formals, tags, n, k, r[k])}
  <2>2. 0 \in T
    BY <1>4, <2>1, NamedThenParted
  <2>3. ASSUME NEW k \in Nat, k \in T PROVE k + 1 \in T
    <3>1. CASE k + 1 <= n
      <4>1. k + 1 \in 1..n /\ (k + 1) - 1 = k /\ k <= n
        BY <3>1
      <4>2. Parted(formals, tags, n, (k + 1) - 1, r[k])
        BY <2>3, <4>1
      <4>3. r[k + 1] = partial(formals, tags, r[k], k + 1)
        BY <2>1, <4>1 DEF Step
      <4>4. Parted(formals, tags, n, k + 1, r[k + 1])
        BY <4>1, <4>2, <4>3, PartialStep
      <4> QED BY <4>4
    <3> QED BY <3>1
  <2> HIDE DEF T
  <2>4. n \in T
    BY <2>2, <2>3, SetInduction
  <2> QED BY <2>1, <2>4 DEF T
<1>7. PICK s3 : s3 = Pass("fill", formals, tags, s2)
  OBVIOUS
<1>8. Filled(formals, tags, n, n, s2, s3)
  <2>1. PICK r : /\ r[0] = s2
                 /\ \A a \in 1..n : r[a] = Step("fill", formals, tags, r[a - 1], a)
                 /\ s3 = r[n]
    <3>1. \E r : /\ r[0] = s2
                 /\ \A a \in 1..n : r[a] = Step("fill", formals, tags, r[a - 1], a)
                 /\ Pass("fill", formals, tags, s2) = r[n]
      BY PassRuns
    <3> QED BY <1>7, <3>1
  <2> DEFINE T == {k \in Nat : k <= n => Filled(formals, tags, n, k, s2, r[k])}
  <2>2. 0 \in T
    BY <1>6, <2>1, PartedThenFilled
  <2>3. ASSUME NEW k \in Nat, k \in T PROVE k + 1 \in T
    <3>1. CASE k + 1 <= n
      <4>1. k + 1 \in 1..n /\ (k + 1) - 1 = k /\ k <= n
        BY <3>1
      <4>2. Filled(formals, tags, n, (k + 1) - 1, s2, r[k])
        BY <2>3, <4>1
      <4>3. r[k + 1] = fill(formals, tags, r[k], k + 1)
        BY <2>1, <4>1 DEF Step
      <4>4. Filled(formals, tags, n, k + 1, s2, r[k + 1])
        BY <4>1, <4>2, <4>3, FillStep
      <4> QED BY <4>4
    <3> QED BY <3>1
  <2> HIDE DEF T
  <2>4. n \in T
    BY <2>2, <2>3, SetInduction
  <2> QED BY <2>1, <2>4 DEF T
<1>9. s3 = match_positions(formals, tags)
  BY <1>1, <1>3, <1>5, <1>7 DEF match_positions
<1> QED BY <1>6, <1>8, <1>9

LEMMA FilledBinds ==
    ASSUME NEW S, NEW formals \in Seq(S), NEW n \in Nat, NEW tags, DOMAIN tags = 1..n, NEW s0, NEW s,
           Parted(formals, tags, n, n, s0), Filled(formals, tags, n, n, s0, s), s.ok
    PROVE  Binds(formals, tags, s.to)
<1>0. PICK to, F : to = s.to /\ F = Front_(formals)
  OBVIOUS
<1>1. s \in States(n, Len(formals)) /\ s0.ok /\ \A b \in 1..n : b <= n
  <2>1. s \in States(n, Len(formals)) /\ s0.ok
    BY DEF Filled
  <2> QED BY <2>1
<1>2. Apart(n, s) /\ \A b \in 1..n : tags[b] # "" => to[b] = s0.to[b]
  BY <1>0 DEF Filled
<1>3. ASSUME NEW a \in 1..n, tags[a] = "", to[a] # 0
      PROVE  /\ to[a] \in F
             /\ \A p \in F : p < to[a] => \E b \in 1..n : to[b] = p /\ (tags[b] # "" \/ b < a)
  BY <1>0, <1>3 DEF Filled
<1>4. ASSUME NEW a \in 1..n, tags[a] = "", to[a] = 0, NEW p \in F PROVE Contains(to, p)
  <2>1. \E b \in 1..n : to[b] = p
    BY <1>0, <1>1, <1>4 DEF Filled
  <2> QED BY <1>0, <1>1, <2>1, Taken
<1>5. ASSUME NEW a \in 1..n, Exact(formals, tags, a) PROVE to[a] # 0 /\ formals[to[a]] = tags[a]
  <2>1. s0.to[a] # 0 /\ formals[s0.to[a]] = tags[a] /\ tags[a] # ""
    BY <1>1, <1>5, ExactOrPart DEF Parted
  <2> QED BY <1>2, <2>1
<1>6. ASSUME NEW a \in 1..n, ByPart(formals, tags, a)
      PROVE  /\ to[a] # 0 => to[a] \in F /\ starts_with(formals[to[a]], tags[a])
             /\ \A p \in F : (p # to[a] /\ starts_with(formals[p], tags[a])) =>
                    \E b \in 1..n : to[b] = p /\ tags[b] # "" /\ (Exact(formals, tags, b) \/ b < a)
  <2>1. to[a] = s0.to[a]
    BY <1>2, <1>6, ExactOrPart
  <2>2. to[a] # 0 => to[a] \in F /\ starts_with(formals[to[a]], tags[a])
    BY <1>0, <1>1, <1>6, <2>1 DEF Parted
  <2>3. ASSUME NEW p \in F, p # to[a], starts_with(formals[p], tags[a])
        PROVE  \E b \in 1..n : to[b] = p /\ tags[b] # "" /\ (Exact(formals, tags, b) \/ b < a)
    <3>1. PICK b \in 1..n : s0.to[b] = p /\ tags[b] # "" /\ (Exact(formals, tags, b) \/ b < a)
      BY <1>0, <1>1, <1>6, <2>1, <2>3 DEF Parted
    <3> QED BY <1>2, <3>1
  <2> QED BY <2>2, <2>3
<1>7. ASSUME NEW a \in 1..n, to[a] # 0, NEW b \in 1..n, b # a PROVE to[b] # to[a]
  BY <1>0, <1>2, <1>7 DEF Apart
<1> HIDE <1>0
<1>8. F = Front_(formals)
  BY <1>0
<1>9. Binds(formals, tags, to)
  <2>1. ASSUME NEW a \in 1..n
        PROVE  /\ to[a] # 0 => \A b \in 1..n : b # a => to[b] # to[a]
               /\ Exact(formals, tags, a) => to[a] # 0 /\ formals[to[a]] = tags[a]
               /\ (tags[a] = "" /\ to[a] = 0) => \A p \in F : Contains(to, p)
               /\ (tags[a] = "" /\ to[a] # 0) =>
                      /\ to[a] \in F
                      /\ \A p \in F : p < to[a] => \E b \in 1..n : to[b] = p /\ (tags[b] # "" \/ b < a)
    BY <1>3, <1>4, <1>5, <1>7
  <2>2. ASSUME NEW a \in 1..n, ByPart(formals, tags, a)
        PROVE  /\ to[a] # 0 => to[a] \in F /\ starts_with(formals[to[a]], tags[a])
               /\ \A p \in F : (p # to[a] /\ starts_with(formals[p], tags[a])) =>
                    \E b \in 1..n : to[b] = p /\ tags[b] # "" /\ (Exact(formals, tags, b) \/ b < a)
    BY <1>6, <2>2
  <2> HIDE <1>3, <1>4, <1>5, <1>6, <1>7
  <2> QED BY <1>8, <2>1, <2>2 DEF Binds
<1> QED BY <1>0, <1>9

\* match_positions gives each argument the formal that R's rule gives it, and
\* refuses no call that the rule accepts: for every list of formals, every list
\* of tags and every relation of one name beginning another.
THEOREM ArgumentsFollowTheRule ==
    ASSUME NEW S, NEW formals \in Seq(S), NEW tags \in Seq(S)
    PROVE  LET m == match_positions(formals, tags)
           IN  /\ m.ok => Binds(formals, tags, m.to)
               /\ ~m.ok => Refused(formals, tags)
<1>1. PICK n : n = Len(tags) /\ n \in Nat /\ DOMAIN tags = 1..n
  OBVIOUS
<1>2. PICK m : m = match_positions(formals, tags)
  OBVIOUS
<1>3. PICK s0 : Parted(formals, tags, n, n, s0) /\ Filled(formals, tags, n, n, s0, m)
  BY <1>1, <1>2, AfterThree
<1>4. m.ok => Binds(formals, tags, m.to)
  BY <1>1, <1>3, FilledBinds
<1>5. ~m.ok => Refused(formals, tags)
  <2>1. m.ok = s0.ok
    BY <1>3 DEF Filled
  <2> QED BY <1>3, <2>1 DEF Parted
<1> QED BY <1>2, <1>4, <1>5
-----------------------------------------------------------------------------
(* The machine: what holds of its frames *)

Chunk(f) ==
    /\ f = [code |-> f.code, pc |-> f.pc, stack |-> f.stack, slots |-> f.slots]
    /\ f.stack \in Seq(ToSet(f.stack))
Held(fs, sig) ==
    /\ fs \in Seq(ToSet(fs)) /\ fs # <<>>
    /\ \A i \in DOMAIN fs : Chunk(fs[i])
    /\ \A i \in DOMAIN fs : Deep(fs[i], IF i = Len(fs) THEN 0 ELSE 1, i = Len(fs) /\ sig # "none")
IInv == Held(frames, signal)

LEMMA OwnSeq ==
    ASSUME NEW T, NEW s, s \in Seq(T)
    PROVE  s \in Seq(ToSet(s))
<1>1. DOMAIN s = 1..Len(s) /\ Len(s) \in Nat /\ s = [i \in 1..Len(s) |-> s[i]]
  OBVIOUS
<1>2. \A i \in 1..Len(s) : s[i] \in ToSet(s)
  BY <1>1 DEF ToSet
<1> QED BY <1>1, <1>2

LEMMA Overlaid ==
    ASSUME NEW S, NEW s \in Seq(S), NEW T, NEW vs \in Seq(T), NEW n \in Nat
    PROVE  LET st == SubSeq(s, 1, Len(s) - n) \o vs
           IN  /\ st \in Seq(ToSet(st))
               /\ n <= Len(s) => Len(st) = Len(s) - n + Len(vs)
<1>1. PICK a, st, U : a = SubSeq(s, 1, Len(s) - n) /\ st = a \o vs /\ U = S \cup T
  OBVIOUS
<1>2. a \in Seq(S) /\ (n <= Len(s) => Len(a) = Len(s) - n)
  BY <1>1
<1>3. a \in Seq(U) /\ vs \in Seq(U)
  BY <1>1, <1>2
<1>4. st \in Seq(U) /\ Len(st) = Len(a) + Len(vs)
  <2>1. ASSUME NEW x, NEW y, x \in Seq(U), y \in Seq(U)
        PROVE  x \o y \in Seq(U) /\ Len(x \o y) = Len(x) + Len(y)
    BY ONLY <2>1
  <2> QED BY ONLY <1>1, <1>3, <2>1
<1>5. st \in Seq(ToSet(st))
  BY <1>4, OwnSeq
<1>6. n <= Len(s) => Len(st) = Len(s) - n + Len(vs)
  BY <1>2, <1>4
<1> QED BY <1>1, <1>5, <1>6

\* A frame after one operation.
LEMMA Onward ==
    ASSUME NEW f, Chunk(f), NEW e, Deep(f, 0, e), ~(f.pc > Len(f.code)),
           NEW st, st \in Seq(ToSet(st)), NEW q, NEW sl, NEW w \in {0, 1}, NEW ended,
           Balanced(f.code) => q \in Leads(f.code[f.pc], f.pc),
           NEW n \in Nat, n <= Takes(f.code[f.pc]),
           n <= Len(f.stack) =>
              Len(st) + w = Len(f.stack) - Takes(f.code[f.pc]) + Gives(f.code[f.pc])
    PROVE  LET g == [code |-> f.code, pc |-> q, stack |-> st, slots |-> sl]
           IN  Chunk(g) /\ Deep(g, w, ended)
<1>1. PICK g : g = [code |-> f.code, pc |-> q, stack |-> st, slots |-> sl]
  OBVIOUS
<1>2. g.code = f.code /\ g.pc = q /\ g.stack = st /\ g.slots = sl
  BY <1>1
<1>3. Chunk(g)
  BY <1>1, <1>2 DEF Chunk
<1>4. ASSUME Balanced(f.code)
      PROVE  q \in 1..Len(f.code) + 1 /\ Len(st) + w = Heights(f.code)[q]
  <2>1. PICK c, h, p, op : c = f.code /\ h = Heights(f.code) /\ p = f.pc /\ op = f.code[f.pc]
    OBVIOUS
  <2>2. /\ c \in Seq(ToSet(c)) /\ h \in [1..Len(c) + 1 -> Nat]
        /\ \A r \in DOMAIN c : /\ Takes(c[r]) <= h[r]
                               /\ \A s \in Leads(c[r], r) : s \in DOMAIN h /\ h[s] = h[r] - Takes(c[r]) + Gives(c[r])
    BY <1>4, <2>1 DEF Balanced
  <2>3. Len(c) \in Nat /\ DOMAIN c = 1..Len(c) /\ DOMAIN h = 1..Len(c) + 1
    BY <2>2
  <2>4. p \in 1..Len(c) + 1 /\ ~(p > Len(c))
    BY <1>4, <2>1 DEF Deep
  <2>5. p \in DOMAIN c /\ p # Len(c) + 1
    BY <2>3, <2>4
  <2>6. Len(f.stack) = h[p]
    <3>1. Len(f.stack) + 0 = h[p]
      BY <1>4, <2>1, <2>5 DEF Deep
    <3>2. Len(f.stack) \in Nat
      BY DEF Chunk
    <3> QED BY <3>1, <3>2
  <2>7. q \in DOMAIN h /\ h[q] = h[p] - Takes(op) + Gives(op) /\ Takes(op) <= h[p]
    BY <1>4, <2>1, <2>2, <2>5
  <2>8. n <= Len(f.stack)
    <3>1. h[p] \in Nat /\ Takes(op) \in Nat
      BY <2>2, <2>3, <2>5 DEF Takes
    <3> QED BY <2>1, <2>6, <2>7, <3>1
  <2> QED BY <2>1, <2>3, <2>6, <2>7, <2>8
<1>5. Deep(g, w, ended)
  BY <1>2, <1>4 DEF Deep
<1> QED BY <1>1, <1>3, <1>5

LEMMA ReplaceTop ==
    ASSUME NEW fs, NEW s, Held(fs, s), NEW g, Chunk(g), NEW t, Deep(g, 0, t # "none")
    PROVE  Held([fs EXCEPT ![Len(fs)] = g], t)
<1>1. PICK hs, n : hs = [fs EXCEPT ![Len(fs)] = g] /\ n = Len(fs)
  OBVIOUS
<1>2. fs \in Seq(ToSet(fs)) /\ n \in Nat /\ n # 0 /\ DOMAIN fs = 1..n
  BY <1>1 DEF Held
<1>3. hs = [i \in 1..n |-> IF i = n THEN g ELSE fs[i]]
  BY <1>1, <1>2
<1>4. hs \in Seq(ToSet(fs) \cup {g}) /\ Len(hs) = n /\ DOMAIN hs = 1..n /\ hs # <<>>
  <2>1. \A i \in 1..n : fs[i] \in ToSet(fs)
    BY <1>2 DEF ToSet
  <2>2. hs \in [1..n -> ToSet(fs) \cup {g}]
    BY <1>3, <2>1
  <2> QED BY <1>2, <2>2
<1>5. hs \in Seq(ToSet(hs))
  BY <1>4, OwnSeq
<1>6. \A i \in DOMAIN hs : Chunk(hs[i])
  BY <1>2, <1>3, <1>4 DEF Held
<1>7. ASSUME NEW i \in DOMAIN hs
      PROVE  Deep(hs[i], IF i = Len(hs) THEN 0 ELSE 1, i = Len(hs) /\ t # "none")
  <2>1. CASE i = n
    BY <1>3, <1>4, <2>1
  <2>2. CASE i # n
    <3>1. hs[i] = fs[i] /\ i \in DOMAIN fs
      BY <1>2, <1>3, <1>4, <2>2
    <3>2. Deep(fs[i], 1, FALSE)
      BY <1>1, <2>2, <3>1 DEF Held
    <3> QED BY <1>4, <2>2, <3>1, <3>2
  <2> QED BY <2>1, <2>2
<1>8. Held(hs, t)
  BY <1>4, <1>5, <1>6, <1>7 DEF Held
<1> QED BY <1>1, <1>8

LEMMA PushFrame ==
    ASSUME NEW fs, NEW s, Held(fs, s), NEW g, Chunk(g), Deep(g, 1, FALSE),
           NEW h, Chunk(h), NEW t, Deep(h, 0, t # "none")
    PROVE  Held(Append([fs EXCEPT ![Len(fs)] = g], h), t)
<1>1. PICK hs, n : hs = Append([fs EXCEPT ![Len(fs)] = g], h) /\ n = Len(fs)
  OBVIOUS
<1>2. fs \in Seq(ToSet(fs)) /\ n \in Nat /\ n # 0 /\ DOMAIN fs = 1..n
  BY <1>1 DEF Held
<1>3. PICK ms : ms = [i \in 1..n |-> IF i = n THEN g ELSE fs[i]]
  OBVIOUS
<1>4. ms \in Seq(ToSet(fs) \cup {g, h}) /\ Len(ms) = n
  <2>1. \A i \in 1..n : fs[i] \in ToSet(fs)
    BY <1>2 DEF ToSet
  <2>2. ms \in [1..n -> ToSet(fs) \cup {g, h}]
    BY <1>3, <2>1
  <2> QED BY <1>2, <2>2
<1>5. hs = Append(ms, h)
  BY <1>1, <1>2, <1>3
<1>6. hs \in Seq(ToSet(fs) \cup {g, h}) /\ Len(hs) = n + 1 /\ hs # <<>> /\ DOMAIN hs = 1..n + 1
  BY <1>2, <1>4, <1>5
<1>7. hs[n + 1] = h /\ hs[n] = g /\ \A i \in 1..n : i # n => hs[i] = fs[i]
  BY <1>2, <1>3, <1>4, <1>5
<1>8. hs \in Seq(ToSet(hs))
  BY <1>6, OwnSeq
<1>9. ASSUME NEW i \in DOMAIN hs
      PROVE  Chunk(hs[i]) /\ Deep(hs[i], IF i = Len(hs) THEN 0 ELSE 1, i = Len(hs) /\ t # "none")
  <2>1. CASE i = n + 1
    BY <1>6, <1>7, <2>1
  <2>2. CASE i = n
    <3>1. i # Len(hs)
      BY <1>2, <1>6, <2>2
    <3> QED BY <1>7, <2>2, <3>1
  <2>3. CASE i # n /\ i # n + 1
    <3>1. i \in 1..n /\ i # Len(hs)
      BY <1>2, <1>6, <2>3
    <3>2. hs[i] = fs[i] /\ i \in DOMAIN fs /\ i # Len(fs)
      BY <1>1, <1>2, <1>7, <2>3, <3>1
    <3>3. Chunk(fs[i]) /\ Deep(fs[i], 1, FALSE)
      BY <3>2 DEF Held
    <3> QED BY <3>1, <3>2, <3>3
  <2> QED BY <2>1, <2>2, <2>3
<1>10. Held(hs, t)
  BY <1>6, <1>8, <1>9 DEF Held
<1> QED BY <1>1, <1>10

\* The frames without the last, the one before it replaced.
LEMMA PopFrame ==
    ASSUME NEW fs, NEW s, Held(fs, s), Len(fs) # 1, NEW g, Chunk(g), NEW t, Deep(g, 0, t # "none"),
           NEW hs, hs = [i \in 1..Len(fs) - 1 |-> IF i = Len(fs) - 1 THEN g ELSE fs[i]]
    PROVE  Held(hs, t)
<1>1. PICK n : n = Len(fs) - 1
  OBVIOUS
<1>2. fs \in Seq(ToSet(fs)) /\ Len(fs) \in Nat /\ n \in Nat /\ n # 0 /\ DOMAIN fs = 1..Len(fs) /\ Len(fs) = n + 1
  BY <1>1 DEF Held
<1>3. hs \in Seq(ToSet(fs) \cup {g}) /\ Len(hs) = n /\ hs # <<>> /\ DOMAIN hs = 1..n
  <2>1. \A i \in 1..n : fs[i] \in ToSet(fs)
    BY <1>2 DEF ToSet
  <2>2. hs \in [1..n -> ToSet(fs) \cup {g}]
    BY <1>1, <2>1
  <2> QED BY <1>2, <2>2
<1>4. hs \in Seq(ToSet(hs))
  BY <1>3, OwnSeq
<1>5. ASSUME NEW i \in DOMAIN hs
      PROVE  Chunk(hs[i]) /\ Deep(hs[i], IF i = Len(hs) THEN 0 ELSE 1, i = Len(hs) /\ t # "none")
  <2>1. CASE i = n
    BY <1>1, <1>3, <2>1
  <2>2. CASE i # n
    <3>1. hs[i] = fs[i] /\ i \in DOMAIN fs /\ i # Len(fs) /\ i # Len(hs)
      BY <1>1, <1>2, <1>3, <2>2
    <3>2. Chunk(fs[i]) /\ Deep(fs[i], 1, FALSE)
      BY <3>1 DEF Held
    <3> QED BY <3>1, <3>2
  <2> QED BY <2>1, <2>2
<1> QED BY <1>3, <1>4, <1>5 DEF Held

\* The caller of a body has its value: what the body left, or what try answers.
LEMMA Received ==
    ASSUME NEW f, Chunk(f), Deep(f, 1, FALSE), NEW v, NEW ended
    PROVE  LET g == [f EXCEPT !.stack = Append(@, v)]
           IN  Chunk(g) /\ Deep(g, 0, ended)
<1>1. PICK st, g : st = Append(f.stack, v) /\ g = [f EXCEPT !.stack = Append(@, v)]
  OBVIOUS
<1>2. g = [code |-> f.code, pc |-> f.pc, stack |-> st, slots |-> f.slots]
  BY <1>1 DEF Chunk
<1>3. Len(f.stack) \in Nat /\ Len(st) = Len(f.stack) + 1 /\ st \in Seq(ToSet(f.stack) \cup {v})
  BY <1>1 DEF Chunk
<1>4. st \in Seq(ToSet(st))
  BY <1>3, OwnSeq
<1>5. g.code = f.code /\ g.pc = f.pc /\ g.stack = st /\ g.slots = f.slots
  BY <1>2
<1>6. Chunk(g)
  BY <1>2, <1>4, <1>5 DEF Chunk
<1>7. Deep(g, 0, ended)
  BY <1>3, <1>5 DEF Deep
<1> QED BY <1>1, <1>6, <1>7

-----------------------------------------------------------------------------
(* The steps *)

LEMMA CurIs ==
    ASSUME Held(frames, signal)
    PROVE  /\ Cur = frames[Len(frames)] /\ Len(frames) \in Nat \ {0} /\ Len(frames) \in DOMAIN frames
           /\ Chunk(Cur) /\ Deep(Cur, 0, signal # "none") /\ Cur.stack \in Seq(ToSet(Cur.stack))
<1>1. Cur = frames[Len(frames)] /\ Len(frames) \in Nat \ {0} /\ Len(frames) \in DOMAIN frames
  BY DEF Held, Cur, Last
<1>2. Chunk(Cur) /\ Deep(Cur, 0, signal # "none")
  BY <1>1 DEF Held
<1> QED BY <1>1, <1>2 DEF Chunk

LEMMA GoingKeeps ==
    ASSUME Held(frames, signal), ~AtEnd, NEW T, NEW vs, vs \in Seq(T), NEW n \in Nat, NEW q, NEW sl,
           Going(Put(n, vs), q, sl),
           Balanced(Cur.code) => q \in Leads(Here, Cur.pc),
           n <= Takes(Here), Len(vs) - n = Gives(Here) - Takes(Here)
    PROVE  Held(frames', signal')
<1>1. PICK f : f = Cur
  OBVIOUS
<1>2. Chunk(f) /\ Deep(f, 0, signal # "none") /\ f.stack \in Seq(ToSet(f.stack)) /\ ~(f.pc > Len(f.code))
  BY <1>1, CurIs DEF AtEnd
<1>3. PICK st : st = SubSeq(f.stack, 1, Len(f.stack) - n) \o vs
  OBVIOUS
<1>4. st \in Seq(ToSet(st)) /\ (n <= Len(f.stack) => Len(st) = Len(f.stack) - n + Len(vs))
  <2>1. PICK s, S : s = f.stack /\ S = ToSet(s)
    OBVIOUS
  <2>2. ASSUME NEW r \in Seq(S), NEW ws \in Seq(T), NEW m \in Nat
        PROVE  LET z == SubSeq(r, 1, Len(r) - m) \o ws
               IN  z \in Seq(ToSet(z)) /\ (m <= Len(r) => Len(z) = Len(r) - m + Len(ws))
    BY ONLY Overlaid
  <2>3. st \in Seq(ToSet(st)) /\ (n <= Len(s) => Len(st) = Len(s) - n + Len(vs))
    <3>1. s \in Seq(S)
      BY <1>2, <2>1
    <3>2. st = SubSeq(s, 1, Len(s) - n) \o vs
      BY <1>3, <2>1
    <3> QED BY <2>2, <3>1, <3>2
  <2> QED BY <2>1, <2>3
<1>5. Takes(Here) \in Nat /\ Gives(Here) \in Nat /\ Len(vs) \in Nat /\ Len(f.stack) \in Nat
  BY <1>2 DEF Takes, Gives
<1>6. n <= Len(f.stack) => Len(st) + 0 = Len(f.stack) - Takes(f.code[f.pc]) + Gives(f.code[f.pc])
  BY <1>1, <1>4, <1>5 DEF Here
<1>7. PICK g : g = [code |-> f.code, pc |-> q, stack |-> st, slots |-> sl]
  OBVIOUS
<1>8. Chunk(g) /\ Deep(g, 0, signal' # "none")
  <2>1. Balanced(f.code) => q \in Leads(f.code[f.pc], f.pc)
    BY <1>1 DEF Here
  <2>2. n <= Takes(f.code[f.pc])
    BY <1>1 DEF Here
  <2> QED BY <1>2, <1>4, <1>6, <1>7, <2>1, <2>2, Onward
<1>9. frames' = [frames EXCEPT ![Len(frames)] = g]
  BY <1>1, <1>3, <1>7 DEF Going, Put
<1> QED BY <1>8, <1>9, ReplaceTop

LEMMA GoKeeps ==
    ASSUME Held(frames, signal), ~AtEnd, NEW T, NEW vs, vs \in Seq(T), NEW n \in Nat, Go(n, vs),
           Leads(Here, Cur.pc) = {Cur.pc + 1},
           n <= Takes(Here), Len(vs) - n = Gives(Here) - Takes(Here)
    PROVE  Held(frames', signal')
<1>1. Cur.pc + 1 \in Leads(Here, Cur.pc)
  OBVIOUS
<1>2. Going(Put(n, vs), Cur.pc + 1, Cur.slots)
  BY DEF Go
<1> QED BY <1>1, <1>2, GoingKeeps

LEMMA AbortKeeps ==
    ASSUME Held(frames, signal), Abort, UNCHANGED signal
    PROVE  Held(frames', signal')
<1>1. CASE Len(frames) = 1
  <2>1. frames' = frames
    BY <1>1 DEF Abort
  <2> QED BY <2>1
<1>2. CASE Len(frames) # 1
  <2>1. PICK n : n = Len(frames) - 1
    OBVIOUS
  <2>2. /\ frames \in Seq(ToSet(frames)) /\ Len(frames) = n + 1 /\ n \in Nat /\ n # 0
        /\ n \in DOMAIN frames /\ n # Len(frames)
    BY <1>2, <2>1 DEF Held
  <2>3. PICK f, g : f = frames[n] /\ g = [f EXCEPT !.stack = Append(@, TryError)]
    OBVIOUS
  <2>4. Chunk(f) /\ Deep(f, 1, FALSE)
    BY <2>2, <2>3 DEF Held
  <2>5. Chunk(g) /\ Deep(g, 0, signal' # "none")
    BY <2>3, <2>4, Received
  <2>6. frames' = Append(SubSeq(frames, 1, n - 1), g)
    <3>1. Len(frames) - 2 = n - 1
      BY <2>2
    <3> QED BY <1>2, <2>1, <2>3, <3>1 DEF Abort
  <2>7. frames' = [i \in 1..n |-> IF i = n THEN g ELSE frames[i]]
    <3>1. PICK a : a = SubSeq(frames, 1, n - 1)
      OBVIOUS
    <3>2. a \in Seq(ToSet(frames)) /\ Len(a) = n - 1 /\ \A i \in 1..n - 1 : a[i] = frames[i]
      BY <2>2, <3>1
    <3>3. a \in Seq(ToSet(frames) \cup {g}) /\ g \in ToSet(frames) \cup {g}
      BY <3>2
    <3>4. PICK b : b = Append(a, g)
      OBVIOUS
    <3>5. b \in Seq(ToSet(frames) \cup {g}) /\ Len(b) = n /\ b[n] = g /\ \A i \in 1..n - 1 : b[i] = frames[i]
      BY <2>2, <3>2, <3>3, <3>4
    <3>6. b = [i \in 1..n |-> b[i]]
      BY <3>5
    <3>7. \A i \in 1..n : b[i] = IF i = n THEN g ELSE frames[i]
      BY <2>2, <3>5
    <3> QED BY <2>6, <3>1, <3>4, <3>6, <3>7
  <2> QED BY <1>2, <2>1, <2>5, <2>7, PopFrame
<1> QED BY <1>1, <1>2

LEMMA AnswerKeeps ==
    ASSUME Held(frames, signal), ~AtEnd, NEW n \in Nat, NEW v, Answer(n, v), UNCHANGED signal,
           Leads(Here, Cur.pc) = {Cur.pc + 1}, n <= Takes(Here), 1 - n = Gives(Here) - Takes(Here)
    PROVE  Held(frames', signal')
<1>1. CASE v = Err
  BY <1>1, AbortKeeps DEF Answer
<1>2. CASE v # Err
  <2>1. Go(n, <<v>>)
    BY <1>2 DEF Answer
  <2>2. <<v>> \in Seq({v}) /\ Len(<<v>>) = 1
    OBVIOUS
  <2> QED BY <2>1, <2>2, GoKeeps
<1> QED BY <1>1, <1>2

LEMMA PushStep ==
    ASSUME Held(frames, signal), Push
    PROVE  Held(frames', signal')
<1>1. PICK v : v = IF Here.o = "name" THEN Vec("name", <<Here.arg>>) ELSE Here.arg
  OBVIOUS
<1>2. ~AtEnd /\ Here.o \in {"const", "const-visible", "name"} /\ Go(0, <<v>>)
  BY <1>1 DEF Push, Doing
<1>3. Leads(Here, Cur.pc) = {Cur.pc + 1} /\ Takes(Here) = 0 /\ Gives(Here) = 1
  BY <1>2 DEF Leads, Takes, Gives
<1>4. <<v>> \in Seq({v}) /\ Len(<<v>>) = 1
  OBVIOUS
<1>5. 0 \in Nat /\ 0 <= Takes(Here) /\ Len(<<v>>) - 0 = Gives(Here) - Takes(Here)
  BY <1>3, <1>4
<1> QED BY <1>2, <1>3, <1>4, <1>5, GoKeeps

LEMMA ShuffleStep ==
    ASSUME Held(frames, signal), Shuffle
    PROVE  Held(frames', signal')
<1>1. ~AtEnd /\ Here.o \in {"dup", "pop", "swap", "rot"}
  BY DEF Shuffle, Doing
<1>2. Leads(Here, Cur.pc) = {Cur.pc + 1}
  BY <1>1 DEF Leads
<1>3. PICK a, b, c : a = Top(1) /\ b = Top(2) /\ c = Top(3)
  OBVIOUS
<1>4. CASE Here.o = "dup"
  <2>1. Go(0, <<a>>) /\ <<a>> \in Seq({a}) /\ Len(<<a>>) = 1
    BY <1>3, <1>4 DEF Shuffle
  <2>2. Takes(Here) = 1 /\ Gives(Here) = 2
    BY <1>4 DEF Takes, Gives
  <2>3. 0 \in Nat /\ 0 <= Takes(Here) /\ Len(<<a>>) - 0 = Gives(Here) - Takes(Here)
    BY <2>1, <2>2
  <2> QED BY <1>1, <1>2, <2>1, <2>3, GoKeeps
<1>5. CASE Here.o = "pop"
  <2>1. Go(1, <<>>) /\ <<>> \in Seq({a}) /\ Len(<<>>) = 0
    BY <1>5 DEF Shuffle
  <2>2. Takes(Here) = 1 /\ Gives(Here) = 0
    BY <1>5 DEF Takes, Gives
  <2>3. 1 \in Nat /\ 1 <= Takes(Here) /\ Len(<<>>) - 1 = Gives(Here) - Takes(Here)
    BY <2>1, <2>2
  <2> QED BY <1>1, <1>2, <2>1, <2>3, GoKeeps
<1>6. CASE Here.o = "swap"
  <2>1. Go(2, <<a, b>>) /\ <<a, b>> \in Seq({a, b}) /\ Len(<<a, b>>) = 2
    BY <1>3, <1>6 DEF Shuffle
  <2>2. Takes(Here) = 2 /\ Gives(Here) = 2
    BY <1>6 DEF Takes, Gives
  <2>3. 2 \in Nat /\ 2 <= Takes(Here) /\ Len(<<a, b>>) - 2 = Gives(Here) - Takes(Here)
    BY <2>1, <2>2
  <2> QED BY <1>1, <1>2, <2>1, <2>3, GoKeeps
<1>7. CASE Here.o = "rot"
  <2>1. Go(3, <<b, a, c>>) /\ <<b, a, c>> \in Seq({a, b, c}) /\ Len(<<b, a, c>>) = 3
    BY <1>3, <1>7 DEF Shuffle
  <2>2. Takes(Here) = 3 /\ Gives(Here) = 3
    BY <1>7 DEF Takes, Gives
  <2>3. 3 \in Nat /\ 3 <= Takes(Here) /\ Len(<<b, a, c>>) - 3 = Gives(Here) - Takes(Here)
    BY <2>1, <2>2
  <2> QED BY <1>1, <1>2, <2>1, <2>3, GoKeeps
<1> QED BY <1>1, <1>4, <1>5, <1>6, <1>7

\* The operations that push one value of their own, or none.
LEMMA PlainStep ==
    ASSUME Held(frames, signal), ~AtEnd, NEW v,
           \/ Here.o \in {"get-slot", "getvar", "take-loop-signal", "null-invisible"} /\ Go(0, <<v>>)
           \/ Here.o \in {"set-visible", "autoprint"} /\ Go(0, <<>>)
           \/ Here.o \in {"is", "is-signal", "call"} /\ Go(1, <<v>>)
           \/ Here.o = "setvar" /\ Go(2, <<v>>)
    PROVE  Held(frames', signal')
<1>1. <<v>> \in Seq({v}) /\ Len(<<v>>) = 1 /\ <<>> \in Seq({v}) /\ Len(<<>>) = 0
  OBVIOUS
<1>2. CASE Here.o \in {"get-slot", "getvar", "take-loop-signal", "null-invisible"} /\ Go(0, <<v>>)
  <2>1. Takes(Here) = 0 /\ Gives(Here) = 1 /\ Leads(Here, Cur.pc) = {Cur.pc + 1}
    BY <1>2 DEF Takes, Gives, Leads
  <2>2. 0 \in Nat /\ 0 <= Takes(Here) /\ Len(<<v>>) - 0 = Gives(Here) - Takes(Here)
    BY <1>1, <2>1
  <2> QED BY <1>1, <1>2, <2>1, <2>2, GoKeeps
<1>3. CASE Here.o \in {"set-visible", "autoprint"} /\ Go(0, <<>>)
  <2>1. Takes(Here) \in {0, 1} /\ Gives(Here) = Takes(Here) /\ Leads(Here, Cur.pc) = {Cur.pc + 1}
    BY <1>3 DEF Takes, Gives, Leads
  <2>2. 0 \in Nat /\ 0 <= Takes(Here) /\ Len(<<>>) - 0 = Gives(Here) - Takes(Here)
    BY <1>1, <2>1
  <2> QED BY <1>1, <1>3, <2>1, <2>2, GoKeeps
<1>4. CASE Here.o \in {"is", "is-signal", "call"} /\ Go(1, <<v>>)
  <2>1. Takes(Here) = 1 /\ Gives(Here) = 1 /\ Leads(Here, Cur.pc) = {Cur.pc + 1}
    BY <1>4 DEF Takes, Gives, Leads
  <2>2. 1 \in Nat /\ 1 <= Takes(Here) /\ Len(<<v>>) - 1 = Gives(Here) - Takes(Here)
    BY <1>1, <2>1
  <2> QED BY <1>1, <1>4, <2>1, <2>2, GoKeeps
<1>5. CASE Here.o = "setvar" /\ Go(2, <<v>>)
  <2>1. Takes(Here) = 2 /\ Gives(Here) = 1 /\ Leads(Here, Cur.pc) = {Cur.pc + 1}
    BY <1>5 DEF Takes, Gives, Leads
  <2>2. 2 \in Nat /\ 2 <= Takes(Here) /\ Len(<<v>>) - 2 = Gives(Here) - Takes(Here)
    BY <1>1, <2>1
  <2> QED BY <1>1, <1>5, <2>1, <2>2, GoKeeps
<1> QED BY <1>2, <1>3, <1>4, <1>5

LEMMA SetSlotStep ==
    ASSUME Held(frames, signal), SetSlot
    PROVE  Held(frames', signal')
<1>1. PICK sl : sl = Bind(Cur.slots, Here.arg, Top(1))
  OBVIOUS
<1>2. ~AtEnd /\ Here.o = "set-slot" /\ Going(Put(1, <<>>), Cur.pc + 1, sl)
  BY <1>1 DEF SetSlot, Doing
<1>3. Takes(Here) = 1 /\ Gives(Here) = 0 /\ Cur.pc + 1 \in Leads(Here, Cur.pc)
  BY <1>2 DEF Takes, Gives, Leads
<1>4. <<>> \in Seq({}) /\ Len(<<>>) = 0
  OBVIOUS
<1>5. 1 \in Nat /\ 1 <= Takes(Here) /\ Len(<<>>) - 1 = Gives(Here) - Takes(Here)
  BY <1>3, <1>4
<1> QED BY <1>2, <1>3, <1>4, <1>5, GoingKeeps

LEMMA GetVarStep ==
    ASSUME Held(frames, signal), b_getvar
    PROVE  Held(frames', signal')
<1>1. ~AtEnd /\ Here.o = "getvar" /\ UNCHANGED signal
  BY DEF b_getvar, Doing
<1>2. CASE Here.arg \in DOMAIN env
  <2>1. Go(0, <<env[Here.arg]>>)
    BY <1>2 DEF b_getvar
  <2> QED BY <1>1, <2>1, PlainStep
<1>3. CASE Here.arg \notin DOMAIN env
  BY <1>1, <1>3, AbortKeeps DEF b_getvar
<1> QED BY <1>2, <1>3

LEMMA OperatorStep ==
    ASSUME Held(frames, signal), Operator
    PROVE  Held(frames', signal')
<1>1. /\ ~AtEnd /\ UNCHANGED signal
      /\ Here.o \in {"native", "binop", "minus", "index", "index-set", "replace", "truthy", "logic2-arg"}
  BY DEF Operator, Doing
<1>2. Leads(Here, Cur.pc) = {Cur.pc + 1} /\ Gives(Here) = 1
  BY <1>1 DEF Leads, Gives
<1>3. CASE Here.o \in {"native", "binop", "index"}
  <2>1. \E v : Answer(2, v)
    BY <1>3 DEF Operator
  <2>2. Takes(Here) = 2
    BY <1>3 DEF Takes
  <2> QED BY <1>1, <1>2, <2>1, <2>2, AnswerKeeps
<1>4. CASE Here.o \in {"minus", "truthy", "logic2-arg"}
  <2>1. \E v : Answer(1, v)
    BY <1>4 DEF Operator
  <2>2. Takes(Here) = 1
    BY <1>4 DEF Takes
  <2> QED BY <1>1, <1>2, <2>1, <2>2, AnswerKeeps
<1>5. CASE Here.o \in {"index-set", "replace"}
  <2>1. \E v : Answer(3, v)
    BY <1>5 DEF Operator
  <2>2. Takes(Here) = 3
    BY <1>5 DEF Takes
  <2> QED BY <1>1, <1>2, <2>1, <2>2, AnswerKeeps
<1> QED BY <1>1, <1>3, <1>4, <1>5

LEMMA LoopHelperStep ==
    ASSUME Held(frames, signal), LoopHelper
    PROVE  Held(frames', signal')
<1>1. /\ ~AtEnd /\ UNCHANGED signal
      /\ Here.o \in {"abs", "range", "seq-len", "seq-elem", "switch-index"}
  BY DEF LoopHelper, Doing
<1>2. Leads(Here, Cur.pc) = {Cur.pc + 1} /\ Gives(Here) = 1
  BY <1>1 DEF Leads, Gives
<1>3. CASE Here.o \in {"range", "seq-elem"}
  <2>1. \E v : Answer(2, v)
    BY <1>3 DEF LoopHelper
  <2>2. Takes(Here) = 2
    BY <1>3 DEF Takes
  <2> QED BY <1>1, <1>2, <2>1, <2>2, AnswerKeeps
<1>4. CASE Here.o \in {"abs", "seq-len", "switch-index"}
  <2>1. \E v : Answer(1, v)
    BY <1>4 DEF LoopHelper
  <2>2. Takes(Here) = 1
    BY <1>4 DEF Takes
  <2> QED BY <1>1, <1>2, <2>1, <2>2, AnswerKeeps
<1> QED BY <1>1, <1>3, <1>4

LEMMA BranchStep ==
    ASSUME Held(frames, signal), Branch
    PROVE  Held(frames', signal')
<1>1. ~AtEnd /\ Here.o \in {"jump", "jump-if-false", "jump-if-true"}
  BY DEF Branch, Doing
<1>2. PICK n, q : /\ n = IF Here.o = "jump" THEN 0 ELSE 1
                  /\ q = Cur.pc + (IF Here.o = "jump" \/ Top(1).elems[1] = Bool(Here.o = "jump-if-true")
                                   THEN Here.arg ELSE 1)
  OBVIOUS
<1>3. Going(Put(n, <<>>), q, Cur.slots)
  BY <1>2 DEF Branch
<1>4. q \in Leads(Here, Cur.pc) /\ Takes(Here) = n /\ Gives(Here) = 0 /\ n \in Nat
  BY <1>1, <1>2 DEF Leads, Takes, Gives
<1>5. <<>> \in Seq({}) /\ Len(<<>>) = 0
  OBVIOUS
<1>6. n \in Nat /\ n <= Takes(Here) /\ Len(<<>>) - n = Gives(Here) - Takes(Here)
  BY <1>4, <1>5
<1> QED BY <1>1, <1>3, <1>4, <1>5, <1>6, GoingKeeps

LEMMA TryStep ==
    ASSUME Held(frames, signal), CallTry
    PROVE  Held(frames', signal')
<1>1. PICK f, h, q : f = Cur /\ h = Frame(Here.arg) /\ q = f.pc + 1
  OBVIOUS
<1>2. /\ Here.o = "try" /\ ~(f.pc > Len(f.code)) /\ Chunk(f) /\ Deep(f, 0, signal # "none")
      /\ f.stack \in Seq(ToSet(f.stack)) /\ f = frames[Len(frames)] /\ Len(frames) \in DOMAIN frames
  BY <1>1, CurIs DEF CallTry, Doing, AtEnd
<1>3. PICK g : g = [code |-> f.code, pc |-> q, stack |-> f.stack, slots |-> f.slots]
  OBVIOUS
<1>4. q \in Leads(f.code[f.pc], f.pc) /\ Takes(f.code[f.pc]) = 0 /\ Gives(f.code[f.pc]) = 1
  BY <1>1, <1>2 DEF Here, Leads, Takes, Gives
<1>5. Chunk(g) /\ Deep(g, 1, FALSE)
  <2>1. Len(f.stack) + 1 = Len(f.stack) - Takes(f.code[f.pc]) + Gives(f.code[f.pc]) /\ 0 <= Takes(f.code[f.pc])
    BY <1>2, <1>4
  <2>2. PICK st, n, w : st = f.stack /\ n = 0 /\ w = 1
    OBVIOUS
  <2>3. /\ st \in Seq(ToSet(st)) /\ n \in Nat /\ n <= Takes(f.code[f.pc]) /\ w \in {0, 1}
        /\ n <= Len(f.stack) => Len(st) + w = Len(f.stack) - Takes(f.code[f.pc]) + Gives(f.code[f.pc])
    BY <1>2, <2>1, <2>2
  <2>4. g = [code |-> f.code, pc |-> q, stack |-> st, slots |-> f.slots]
    BY <1>3, <2>2
  <2>5. Chunk(g) /\ Deep(g, w, FALSE)
    BY <1>2, <1>4, <2>3, <2>4, Onward
  <2> QED BY <2>2, <2>5
<1>6. Chunk(h) /\ Deep(h, 0, signal' # "none")
  <2>1. h = [code |-> Here.arg, pc |-> 1, stack |-> <<>>, slots |-> <<>>]
    BY <1>1 DEF Frame
  <2>2. <<>> \in Seq(ToSet(<<>>)) /\ Len(<<>>) = 0
    OBVIOUS
  <2>3. Chunk(h)
    BY <2>1, <2>2 DEF Chunk
  <2>4. ASSUME Balanced(Here.arg) PROVE 1 \in 1..Len(Here.arg) + 1 /\ 0 = Heights(Here.arg)[1]
    <3>1. Len(Here.arg) \in Nat
      BY <2>4 DEF Balanced
    <3> QED BY <2>4, <3>1 DEF Balanced
  <2>5. Deep(h, 0, signal' # "none")
    BY <2>1, <2>2, <2>4 DEF Deep
  <2> QED BY <2>3, <2>5
<1>7. [frames EXCEPT ![Len(frames)].pc = @ + 1] = [frames EXCEPT ![Len(frames)] = g]
  <2>1. g = [f EXCEPT !.pc = @ + 1]
    <3>1. PICK c, p, s, l : /\ c = f.code /\ p = f.pc /\ s = f.stack /\ l = f.slots
                            /\ f = [code |-> c, pc |-> p, stack |-> s, slots |-> l]
      BY <1>2 DEF Chunk
    <3>2. g = [code |-> c, pc |-> p + 1, stack |-> s, slots |-> l]
      BY <1>1, <1>3, <3>1
    <3> QED BY ONLY <3>1, <3>2
  <2> QED BY <1>2, <2>1
<1>8. frames' = Append([frames EXCEPT ![Len(frames)] = g], h)
  BY <1>1, <1>7 DEF CallTry
<1> QED BY <1>5, <1>6, <1>8, PushFrame

LEMMA ReturnStep ==
    ASSUME Held(frames, signal), Return
    PROVE  Held(frames', signal')
<1>1. PICK n, r : n = Len(frames) - 1 /\ r = IF Cur.stack = <<>> THEN Null ELSE Top(1)
  OBVIOUS
<1>2. /\ frames \in Seq(ToSet(frames)) /\ Len(frames) = n + 1 /\ n \in Nat /\ n # 0 /\ Len(frames) # 1
      /\ n \in DOMAIN frames /\ n # Len(frames)
  BY <1>1 DEF Held, Return
<1>3. PICK f, g : f = frames[n] /\ g = [f EXCEPT !.stack = Append(@, r)]
  OBVIOUS
<1>4. Chunk(f) /\ Deep(f, 1, FALSE)
  BY <1>2, <1>3 DEF Held
<1>5. Chunk(g) /\ Deep(g, 0, signal' # "none")
  BY <1>3, <1>4, Received
<1>6. PICK b : b = Front(frames)
  OBVIOUS
<1>7. Len(b) = n /\ b = [i \in 1..n |-> frames[i]]
  BY <1>1, <1>2, <1>6 DEF Front
<1>8. frames' = [b EXCEPT ![n].stack = Append(@, r)]
  BY <1>1, <1>6, <1>7 DEF Return
<1>9. frames' = [i \in 1..n |-> IF i = n THEN g ELSE frames[i]]
  <2>1. n \in 1..n /\ b[n] = f
    BY <1>2, <1>3, <1>7
  <2>2. frames' = [b EXCEPT ![n] = g]
    BY <1>3, <1>8, <2>1
  <2> QED BY <1>7, <2>1, <2>2
<1> QED BY <1>1, <1>2, <1>5, <1>9, PopFrame

LEMMA LoopSignalStep ==
    ASSUME Held(frames, signal), b_loop_signal
    PROVE  Held(frames', signal')
<1>1. PICK f : f = Cur
  OBVIOUS
<1>2. /\ Here.o = "loop-signal" /\ ~(f.pc > Len(f.code)) /\ Chunk(f) /\ Deep(f, 0, signal # "none")
      /\ f.stack \in Seq(ToSet(f.stack)) /\ signal' = Here.arg
  BY <1>1, CurIs DEF b_loop_signal, Doing, AtEnd
<1>3. PICK g : g = [code |-> f.code, pc |-> Len(f.code) + 1, stack |-> f.stack, slots |-> f.slots]
  OBVIOUS
<1>4. g.code = f.code /\ g.pc = Len(f.code) + 1 /\ g.stack = f.stack /\ g.slots = f.slots
  BY <1>3
<1>5. Chunk(g)
  BY <1>2, <1>3, <1>4 DEF Chunk
<1>6. ASSUME Balanced(f.code) PROVE signal' # "none" /\ Len(f.code) + 1 \in 1..Len(f.code) + 1
  <2>1. f.code \in Seq(ToSet(f.code)) /\ Len(f.code) \in Nat /\ DOMAIN f.code = 1..Len(f.code)
    BY <1>6 DEF Balanced
  <2>2. f.pc \in DOMAIN f.code
    BY <1>2, <1>6, <2>1 DEF Deep
  <2>3. f.code[f.pc].o = "loop-signal" /\ f.code[f.pc].arg = signal'
    BY <1>1, <1>2 DEF Here
  <2> QED BY <1>6, <2>1, <2>2, <2>3 DEF Balanced
<1>7. Deep(g, 0, signal' # "none")
  BY <1>4, <1>6 DEF Deep
<1>8. frames' = [frames EXCEPT ![Len(frames)] = g]
  BY <1>1, <1>3 DEF b_loop_signal, Going
<1> QED BY <1>5, <1>7, <1>8, ReplaceTop

LEMMA Inductive == IInv /\ [Next]_vars => IInv'
<1> SUFFICES ASSUME Held(frames, signal), [Next]_vars PROVE Held(frames', signal')
  BY DEF IInv
<1>1. CASE Push
  BY <1>1, PushStep
<1>2. CASE Shuffle
  BY <1>2, ShuffleStep
<1>3. CASE GetSlot
  BY <1>3, PlainStep DEF GetSlot, Doing
<1>4. CASE SetSlot
  BY <1>4, SetSlotStep
<1>5. CASE b_getvar
  BY <1>5, GetVarStep
<1>6. CASE b_setvar
  BY <1>6, PlainStep DEF b_setvar, Doing
<1>7. CASE Operator
  BY <1>7, OperatorStep
<1>8. CASE LoopHelper
  BY <1>8, LoopHelperStep
<1>9. CASE Probe
  BY <1>9, PlainStep DEF Probe, Doing
<1>10. CASE Branch
  BY <1>10, BranchStep
<1>11. CASE CallFunction
  BY <1>11, PlainStep DEF CallFunction, Doing
<1>12. CASE CallTry
  BY <1>12, TryStep
<1>13. CASE Return
  BY <1>13, ReturnStep
<1>14. CASE b_loop_signal
  BY <1>14, LoopSignalStep
<1>15. CASE b_take_loop_signal
  BY <1>15, PlainStep DEF b_take_loop_signal, Doing
<1>16. CASE b_null_invisible
  BY <1>16, PlainStep DEF b_null_invisible, Doing
<1>17. CASE b_set_visible
  BY <1>17, PlainStep DEF b_set_visible, Doing
<1>18. CASE NoLoop
  BY <1>18, AbortKeeps DEF NoLoop
<1>19. CASE b_autoprint
  BY <1>19, PlainStep DEF b_autoprint, Doing
<1>20. CASE Finish
  BY <1>20 DEF Finish
<1>21. CASE UNCHANGED vars
  BY <1>21 DEF vars
<1> QED BY <1>1, <1>2, <1>3, <1>4, <1>5, <1>6, <1>7, <1>8, <1>9, <1>10, <1>11, <1>12, <1>13, <1>14, <1>15,
           <1>16, <1>17, <1>18, <1>19, <1>20, <1>21 DEF Next

LEMMA Starting == ASSUME NEW code, Loaded(code) PROVE IInv
<1>1. PICK f : f = Frame(code)
  OBVIOUS
<1>2. f = [code |-> code, pc |-> 1, stack |-> <<>>, slots |-> <<>>]
  BY <1>1 DEF Frame
<1>3. <<>> \in Seq(ToSet(<<>>)) /\ Len(<<>>) = 0
  OBVIOUS
<1>4. Chunk(f)
  BY <1>2, <1>3 DEF Chunk
<1>5. ASSUME Balanced(code) PROVE 1 \in 1..Len(code) + 1 /\ 0 = Heights(code)[1]
  <2>1. Len(code) \in Nat
    BY <1>5 DEF Balanced
  <2> QED BY <1>5, <2>1 DEF Balanced
<1>6. Deep(f, 0, signal # "none")
  BY <1>2, <1>3, <1>5 DEF Deep
<1>7. frames = <<f>> /\ frames \in Seq({f}) /\ Len(frames) = 1 /\ frames[1] = f
  BY <1>1 DEF Loaded
<1>8. frames \in Seq(ToSet(frames))
  BY <1>7, OwnSeq
<1>9. frames # <<>> /\ DOMAIN frames = {1}
  BY <1>7
<1> QED BY <1>4, <1>6, <1>7, <1>8, <1>9 DEF IInv, Held

\* Whatever code the machine is given, and whatever lazy bodies that calls, the stack
\* of every chunk whose code is balanced is as deep as the code says.
THEOREM DepthsStay == Runs => []HeightsKept
<1>1. (\E code : Loaded(code)) => IInv
  BY Starting
<1>2. IInv => HeightsKept
  BY DEF IInv, Held, HeightsKept
<1> QED BY <1>1, <1>2, Inductive, PTL DEF Runs
=============================================================================
