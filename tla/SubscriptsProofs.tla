--------------------------- MODULE SubscriptsProofs ---------------------------
(***************************************************************************)
(* Proofs about Subscripts, for every vector, every plan of a write and    *)
(* every value: what a program holds is a vector; a write touches the      *)
(* elements it selects and no other, in place as when it rebuilds; the two *)
(* give the same vector; and what another name holds is not disturbed.     *)
(***************************************************************************)
EXTENDS Subscripts, Lemmas

-----------------------------------------------------------------------------
(* What is recorded of a write *)

\* The vector a write of w goes into, and what p makes of it.
Goal(v, w) == IF w.single /\ v.kind = "Null" /\ w.value.kind # "Null" THEN List(<<>>)
              ELSE [v EXCEPT !.levels = <<>>]
Result(v, p, w, inplace) ==
    IF p.keep THEN Goal(v, w)
    ELSE IF inplace THEN WriteInPlace(Goal(v, w), p.plan, p.value)
    ELSE [Rebuild(Goal(v, w), p.plan, p.value, w.single) EXCEPT !.levels = v.levels]

\* A vector that no other name holds, with nothing a write has to look after.
Bare(v) == v.kind # "Null" /\ v.levels = <<>>
Alone ==
    pend.on => /\ ~last.done
               /\ pend = [on |-> TRUE, p |-> pend.p, w |-> pend.w, unshared |-> pend.unshared,
                          taken |-> pend.taken]
               /\ pend.unshared => Bare(x)
               /\ pend.unshared /\ ~pend.taken => ~same
AsRecorded(l, v) ==
    /\ v = Result(l.before, l.p, l.w, l.inplace)
    /\ l.inplace => /\ ~l.p.keep /\ Bare(l.before)
                    /\ FitsInPlace(Goal(l.before, l.w), l.p.plan, l.p.value, l.w.single)
IInv == Alone /\ (last.done => AsRecorded(last, x)) /\ OtherNameKept

\* A write that is performed: alone unless a handler took the vector.
LEMMA Performs ==
    ASSUME NEW p, NEW w, NEW unshared, NEW taken, unshared => Bare(x),
           unshared /\ ~taken => ~same, Perform(p, w, unshared, taken)
    PROVE  IInv'
<1> DEFINE fits == FitsInPlace(Goal(x, w), p.plan, p.value, w.single)
           inplace == unshared /\ ~p.keep /\ fits
<1>1. Target(w) = Goal(x, w)
  BY DEF Target, Goal
<1>2. /\ x' = Written(p, w, inplace)
      /\ held' = IF same /\ inplace THEN x' ELSE held
      /\ last' = [done |-> TRUE, w |-> w, before |-> x, p |-> p, inplace |-> inplace,
                  taken |-> taken, held |-> held]
      /\ pend' = Idle
  BY <1>1 DEF Perform
<1>3. x' = Result(x, p, w, inplace)
  BY <1>1, <1>2 DEF Written, Result
<1>4. inplace => ~p.keep /\ Bare(x) /\ fits
  OBVIOUS
<1> HIDE DEF inplace, fits
<1>5. /\ last'.done /\ last'.w = w /\ last'.before = x /\ last'.p = p /\ last'.inplace = inplace
      /\ last'.taken = taken /\ last'.held = held
  BY <1>2
<1>6. AsRecorded(last', x')
  BY <1>3, <1>4, <1>5 DEF AsRecorded, fits
<1>7. Alone'
  BY <1>2 DEF Alone, Idle
<1>8. OtherNameKept'
  <2>1. inplace => unshared
    BY DEF inplace
  <2> QED BY <1>2, <1>5, <2>1 DEF OtherNameKept
<1> QED BY <1>6, <1>7, <1>8 DEF IInv

LEMMA Inductive == IInv /\ [Next]_vars => IInv'
<1> SUFFICES ASSUME IInv, [Next]_vars PROVE IInv'
  OBVIOUS
<1>1. CASE Assign
  <2>1. PICK w \in Writes, r \in {Prepared(Target(ww), ww.args, Source(ww), ww.single) : ww \in Writes} :
           LET unshared == ~same /\ ~IsFactor(x) /\ x.kind # "Null"
           IN  \/ /\ \E pp : pend' = [on |-> TRUE, p |-> pp, w |-> w, unshared |-> unshared,
                                      taken |-> FALSE]
                  /\ last' = NoWrite
                  /\ UNCHANGED <<x, held, same>>
               \/ Perform(r.val, w, unshared, FALSE)
    BY <1>1 DEF Assign
  <2> DEFINE unshared == ~same /\ ~IsFactor(x) /\ x.kind # "Null"
  <2>2. (unshared => Bare(x)) /\ (unshared => ~same)
    BY DEF Bare, IsFactor
  <2>3. CASE Perform(r.val, w, unshared, FALSE)
    <3>1. PICK no : no = FALSE
      OBVIOUS
    <3> HIDE DEF unshared
    <3>2. Perform(r.val, w, unshared, no) /\ (unshared /\ ~no => ~same)
      BY <2>2, <2>3, <3>1
    <3> QED BY <2>2, <3>2, Performs
  <2>4. ASSUME NEW pp, pend' = [on |-> TRUE, p |-> pp, w |-> w, unshared |-> unshared, taken |-> FALSE],
               last' = NoWrite, UNCHANGED <<x, held, same>>
        PROVE  IInv'
    <3> HIDE DEF unshared
    <3>1. /\ pend'.unshared = unshared /\ ~last'.done
          /\ pend' = [on |-> TRUE, p |-> pend'.p, w |-> pend'.w, unshared |-> pend'.unshared,
                      taken |-> pend'.taken]
      BY <2>4 DEF NoWrite
    <3>2. Bare(x') = Bare(x) /\ same' = same
      BY <2>4
    <3> QED BY <3>1, <3>2, <2>2 DEF IInv, Alone, OtherNameKept
  <2> QED BY <2>1, <2>3, <2>4
<1>2. CASE HandlerTakes
  <2>1. /\ x' = x /\ last' = last /\ ~last.done /\ pend' = [pend EXCEPT !.taken = TRUE]
        /\ pend = [on |-> TRUE, p |-> pend.p, w |-> pend.w, unshared |-> pend.unshared,
                   taken |-> pend.taken]
    BY <1>2 DEF HandlerTakes, IInv, Alone
  <2>2. PICK p, w, u, t : pend = [on |-> TRUE, p |-> p, w |-> w, unshared |-> u, taken |-> t]
    BY <2>1
  <2>3. pend' = [on |-> TRUE, p |-> p, w |-> w, unshared |-> u, taken |-> TRUE] /\ pend.unshared = u
    BY <2>1, <2>2
  <2>4. /\ pend'.unshared = pend.unshared /\ pend'.taken
        /\ pend' = [on |-> TRUE, p |-> pend'.p, w |-> pend'.w, unshared |-> pend'.unshared,
                    taken |-> pend'.taken]
    BY <2>3
  <2> QED BY <1>2, <2>1, <2>4 DEF HandlerTakes, IInv, Alone, OtherNameKept
<1>3. CASE Resume
  <2>1. Perform(pend.p, pend.w, pend.unshared, pend.taken)
    BY <1>3 DEF Resume
  <2>2. (pend.unshared => Bare(x)) /\ (pend.unshared /\ ~pend.taken => ~same)
    BY <1>3 DEF Resume, IInv, Alone
  <2> QED BY <2>1, <2>2, Performs
<1>4. CASE Abandon
  <2>1. ~pend'.on /\ UNCHANGED <<x, held, same, last>>
    BY <1>4 DEF Abandon, Idle
  <2> QED BY <2>1 DEF IInv, Alone, OtherNameKept
<1>5. CASE Share
  BY <1>5 DEF Share, NoWrite, IInv, Alone, OtherNameKept
<1>6. CASE Take
  BY <1>6 DEF Take, NoWrite, IInv, Alone, OtherNameKept
<1>7. CASE UNCHANGED vars
  BY <1>7 DEF vars, IInv, Alone, OtherNameKept
<1> QED BY <1>1, <1>2, <1>3, <1>4, <1>5, <1>6, <1>7 DEF Next

LEMMA Recorded == Spec => []IInv
<1>1. Init => IInv
  BY DEF Init, Idle, NoWrite, IInv, Alone, OtherNameKept
<1> QED BY <1>1, Inductive, PTL DEF Spec

\* What another name held before a write it holds after: the write goes in place
\* only into a vector that was this name's own when it was planned, and only a
\* handler of its own warning can have shared it since.
THEOREM OtherNameStays == Spec => []OtherNameKept
<1>1. IInv => OtherNameKept
  BY DEF IInv
<1> QED BY <1>1, Recorded, PTL

-----------------------------------------------------------------------------
(* Positions and lengths *)

LEMMA MaxOf ==
    ASSUME NEW S, S \subseteq Nat, S # {}, NEW n \in Nat, \A a \in S : a <= n
    PROVE  Max(S) \in S /\ \A a \in S : a <= Max(S)
<1>1. PICK m \in S : \A a \in S : a <= m
  BY GreatestElement
<1>2. \A a \in S : m >= a
  BY <1>1
<1>3. Max(S) \in S /\ \A a \in S : Max(S) >= a
  BY <1>2 DEF Max
<1> QED BY <1>3

\* The numbers of a sequence have a bound.
LEMMA Bounded ==
    ASSUME NEW s \in Seq(Nat)
    PROVE  \E m \in Nat : \A i \in 1..Len(s) : s[i] <= m
<1> DEFINE Bound(k) == \E m \in Nat : \A i \in 1..k : s[i] <= m
           T == {k \in Nat : k <= Len(s) => Bound(k)}
<1>1. 0 \in T
  <2>1. Bound(0)
    OBVIOUS
  <2> HIDE DEF Bound
  <2> QED BY <2>1
<1>2. ASSUME NEW k \in Nat, k \in T PROVE k + 1 \in T
  <2>1. ASSUME k + 1 <= Len(s) PROVE Bound(k + 1)
    <3>1. PICK m \in Nat : \A i \in 1..k : s[i] <= m
      BY <1>2, <2>1
    <3>2. PICK b \in Nat : b >= m /\ b >= s[k + 1]
      <4>1. s[k + 1] \in Nat
        BY <2>1
      <4>2. m + s[k + 1] \in Nat /\ m + s[k + 1] >= m /\ m + s[k + 1] >= s[k + 1]
        BY <4>1
      <4> QED BY <4>2
    <3>3. \A i \in 1..(k + 1) : s[i] <= b
      BY <3>1, <3>2, <2>1
    <3> QED BY <3>2, <3>3
  <2> HIDE DEF Bound
  <2> QED BY <2>1
<1>3. Len(s) \in T
  <2>1. Nat \subseteq T
    <3> HIDE DEF T
    <3> QED BY <1>1, <1>2, SetInduction
  <2>2. Len(s) \in Nat
    OBVIOUS
  <2> HIDE DEF T
  <2> QED BY <2>1, <2>2
<1>4. Bound(Len(s))
  <2> HIDE DEF Bound
  <2> QED BY <1>3
<1> QED BY <1>4

\* Everything selected, and the vector there was, is within the reach of a plan.
LEMMA Reaches ==
    ASSUME NEW plan, plan.pos \in Seq(Nat), NEW n \in Nat
    PROVE  /\ Reach(plan, n) \in Nat /\ n <= Reach(plan, n)
           /\ \A i \in ToSet(plan.pos) : i <= Reach(plan, n)
           /\ Reach(plan, n) = n \/ Reach(plan, n) \in ToSet(plan.pos)
<1> DEFINE S == ToSet(plan.pos) \cup {n}
<1>1. PICK b \in Nat : \A i \in 1..Len(plan.pos) : plan.pos[i] <= b
  BY Bounded
<1>2. S \subseteq Nat /\ S # {} /\ b + n \in Nat /\ \A a \in S : a <= b + n
  BY <1>1 DEF ToSet
<1>3. Max(S) \in S /\ \A a \in S : a <= Max(S)
  <2> HIDE DEF S
  <2> QED BY <1>2, MaxOf
<1>4. Reach(plan, n) = Max(S)
  BY DEF Reach
<1> QED BY <1>2, <1>3, <1>4

LEMMA Padded ==
    ASSUME NEW E, NEW s \in Seq(E), NEW n \in Int, NEW e \in E
    PROVE  /\ Pad(s, n, e) \in Seq(E) /\ Len(Pad(s, n, e)) \in Nat
           /\ DOMAIN Pad(s, n, e) = 1..Len(Pad(s, n, e))
           /\ n > Len(s) => Len(Pad(s, n, e)) = n
           /\ n <= Len(s) => Pad(s, n, e) = s /\ Len(Pad(s, n, e)) = Len(s)
<1> DEFINE more == [i \in 1..(n - Len(s)) |-> e]
<1>1. s \in Seq(E) /\ Len(s) \in Nat
  OBVIOUS
<1>2. more \in Seq(E) /\ (n > Len(s) => Len(more) = n - Len(s))
      /\ (n <= Len(s) => more = << >> /\ Len(more) = 0)
  <2>1. PICK m \in Int : m = n - Len(s)
    BY <1>1
  <2>2. more = [i \in 1..m |-> e]
    BY <2>1
  <2>3. CASE m > 0
    <3>1. [i \in 1..m |-> e] \in Seq(E) /\ Len([i \in 1..m |-> e]) = m
      BY <2>3
    <3> HIDE DEF more
    <3> QED BY <1>1, <2>1, <2>2, <2>3, <3>1
  <2>4. CASE ~(m > 0)
    <3>1. [i \in 1..m |-> e] = << >>
      BY <2>4
    <3> HIDE DEF more
    <3>2. more = << >>
      BY <2>2, <3>1
    <3>3. more \in Seq(E) /\ Len(more) = 0
      BY ONLY <3>2
    <3> QED BY <1>1, <2>1, <2>4, <3>2, <3>3
  <2> QED BY <2>3, <2>4
<1>3. Pad(s, n, e) = s \o more
  BY DEF Pad
<1> HIDE DEF more
<1>4. s \o more \in Seq(E) /\ Len(s \o more) = Len(s) + Len(more)
  BY <1>1, <1>2
<1>5. PICK p \in Seq(E) : p = Pad(s, n, e)
  BY <1>3, <1>4
<1>6. Len(p) \in Nat /\ DOMAIN p = 1..Len(p)
  OBVIOUS
<1>7. n > Len(s) => Len(p) = n
  BY <1>1, <1>2, <1>3, <1>4, <1>5
<1>8. n <= Len(s) => p = s
  <2> SUFFICES ASSUME n <= Len(s) PROVE p = s
    OBVIOUS
  <2>1. more = << >>
    BY <1>1, <1>2
  <2> QED BY <1>3, <1>5, <2>1
<1> QED BY <1>5, <1>6, <1>7, <1>8

LEMMA PaddedAt ==
    ASSUME NEW E, NEW s \in Seq(E), NEW n \in Int, NEW e \in E, NEW i \in 1..Len(Pad(s, n, e))
    PROVE  (i <= Len(s) => Pad(s, n, e)[i] = s[i]) /\ (i > Len(s) => Pad(s, n, e)[i] = e)
<1> DEFINE more == [j \in 1..(n - Len(s)) |-> e]
<1>1. s \in Seq(E) /\ Len(s) \in Nat
  OBVIOUS
<1>2. more \in Seq(E) /\ \A j \in 1..Len(more) : more[j] = e
  <2>1. PICK m \in Int : m = n - Len(s)
    BY <1>1
  <2>2. more = [j \in 1..m |-> e]
    BY <2>1
  <2>3. CASE m > 0
    <3>1. [j \in 1..m |-> e] \in Seq(E) /\ \A k \in 1..Len([j \in 1..m |-> e]) : [j \in 1..m |-> e][k] = e
      BY <2>3
    <3> HIDE DEF more
    <3> QED BY <2>2, <3>1
  <2>4. CASE ~(m > 0)
    <3>1. [j \in 1..m |-> e] = << >>
      BY <2>4
    <3> HIDE DEF more
    <3>2. more = << >>
      BY <2>2, <3>1
    <3>3. more \in Seq(E) /\ Len(more) = 0
      BY ONLY <3>2
    <3> QED BY <3>3
  <2> QED BY <2>3, <2>4
<1>3. Pad(s, n, e) = s \o more
  BY DEF Pad
<1> HIDE DEF more
<1>4. more \in Seq(E)
  BY <1>2
<1>5. i \in 1..(Len(s) + Len(more))
  BY <1>1, <1>3, <1>4
<1>6. (s \o more)[i] = IF i <= Len(s) THEN s[i] ELSE more[i - Len(s)]
  BY <1>1, <1>4, <1>5
<1>7. i > Len(s) => more[i - Len(s)] = e
  <2> SUFFICES ASSUME i > Len(s) PROVE more[i - Len(s)] = e
    OBVIOUS
  <2>1. i - Len(s) \in 1..Len(more)
    BY <1>1, <1>4, <1>5
  <2> QED BY <1>2, <2>1
<1> QED BY <1>1, <1>3, <1>6, <1>7

\* The last of the elements that have a given number.
LEMMA LastIn ==
    ASSUME NEW S, NEW s \in Seq(S), NEW c
    PROVE  LET k == SelectLastInSeq(s, LAMBDA p : p = c)
           IN  \/ k = 0 /\ \A j \in 1..Len(s) : s[j] # c
               \/ /\ k \in 1..Len(s) /\ s[k] = c
                  /\ \A j \in 1..Len(s) : j > k => s[j] # c
<1> DEFINE I == {i \in 1..Len(s) : s[i] = c}
           k == SelectLastInSeq(s, LAMBDA p : p = c)
<1>1. k = IF I # {} THEN Max(I) ELSE 0
  BY DEF SelectLastInSeq
<1>2. CASE I = {}
  BY <1>1, <1>2
<1>3. CASE I # {}
  <2>1. I \subseteq Nat /\ Len(s) \in Nat /\ \A a \in I : a <= Len(s)
    OBVIOUS
  <2>2. Max(I) \in I /\ \A a \in I : a <= Max(I)
    <3> HIDE DEF I
    <3> QED BY <1>3, <2>1, MaxOf
  <2>3. k = Max(I)
    BY <1>1, <1>3
  <2>4. Max(I) \in 1..Len(s) /\ s[Max(I)] = c /\ \A j \in 1..Len(s) : j > Max(I) => s[j] # c
    <3>1. Max(I) \in 1..Len(s) /\ s[Max(I)] = c
      BY <2>2
    <3>2. ASSUME NEW j \in 1..Len(s), j > Max(I) PROVE s[j] # c
      <4>1. j \notin I
        <5> HIDE DEF I
        <5> QED BY <2>2, <3>1, <3>2
      <4> QED BY <4>1
    <3> QED BY <3>1, <3>2
  <2>5. k \in 1..Len(s) /\ s[k] = c /\ \A j \in 1..Len(s) : j > k => s[j] # c
    BY ONLY <2>3, <2>4
  <2> QED BY <2>5
<1> QED BY <1>2, <1>3

\* Splicing keeps what is not selected; the last element written to a place is there.
LEMMA SplicedLength ==
    ASSUME NEW E, NEW dst \in Seq(E), NEW pos, NEW src
    PROVE  DOMAIN Splice(dst, pos, src) = 1..Len(dst) /\ Len(Splice(dst, pos, src)) = Len(dst)
BY DEF Splice

LEMMA SplicedAround ==
    ASSUME NEW E, NEW dst \in Seq(E), NEW pos \in Seq(Nat), NEW src, NEW i \in 1..Len(dst), i \notin ToSet(pos)
    PROVE  Splice(dst, pos, src)[i] = dst[i]
<1> DEFINE at == SelectLastInSeq(pos, LAMBDA p : p = i)
<1>1. \/ at = 0 /\ \A j \in 1..Len(pos) : pos[j] # i
      \/ at \in 1..Len(pos) /\ pos[at] = i /\ \A j \in 1..Len(pos) : j > at => pos[j] # i
  BY LastIn
<1>2. Splice(dst, pos, src)[i] = IF at = 0 THEN dst[i] ELSE src[((at - 1) % Len(src)) + 1]
  BY DEF Splice
<1> HIDE DEF at
<1>3. at = 0
  BY <1>1 DEF ToSet
<1> QED BY <1>2, <1>3

LEMMA SplicedAt ==
    ASSUME NEW E, NEW dst \in Seq(E), NEW pos \in Seq(Nat), NEW src, NEW k \in 1..Len(pos),
           pos[k] \in 1..Len(dst), \A j \in 1..Len(pos) : j > k => pos[j] # pos[k]
    PROVE  Splice(dst, pos, src)[pos[k]] = src[((k - 1) % Len(src)) + 1]
<1>1. PICK i \in 1..Len(dst) : i = pos[k]
  OBVIOUS
<1> DEFINE at == SelectLastInSeq(pos, LAMBDA p : p = i)
<1>2. \/ at = 0 /\ \A j \in 1..Len(pos) : pos[j] # i
      \/ at \in 1..Len(pos) /\ pos[at] = i /\ \A j \in 1..Len(pos) : j > at => pos[j] # i
  BY LastIn
<1>3. Splice(dst, pos, src)[i] = IF at = 0 THEN dst[i] ELSE src[((at - 1) % Len(src)) + 1]
  BY DEF Splice
<1> HIDE DEF at
<1>4. at = k
  BY <1>1, <1>2
<1>5. k # 0
  OBVIOUS
<1> QED BY <1>1, <1>3, <1>4, <1>5

\* Names go to new elements only, and there are none that no write asked for.
LEMMA Renames ==
    ASSUME NEW S, Blank \in S, NEW names \in Seq(S), NEW fresh \in Seq(Nat \X S)
    PROVE  /\ Len(Renamed(names, fresh)) \in Nat
           /\ DOMAIN Renamed(names, fresh) = 1..Len(Renamed(names, fresh))
           /\ Renamed(names, fresh) \in Seq(S) /\ Len(Renamed(names, fresh)) >= Len(names)
           /\ \A i \in 1..Len(Renamed(names, fresh)) :
                (\A k \in 1..Len(fresh) : fresh[k][1] # i)
                  => Renamed(names, fresh)[i] = IF i <= Len(names) THEN names[i] ELSE Blank
           /\ fresh = << >> => Renamed(names, fresh) = names
<1> DEFINE places == [k \in 1..Len(fresh) |-> fresh[k][1]]
           plan == [pos |-> places]
           long == Pad(names, Reach(plan, Len(names)), Blank)
           at(i) == SelectLastInSeq(fresh, LAMBDA f : f[1] = i)
<1>1. places \in Seq(Nat) /\ Len(fresh) \in Nat /\ Len(names) \in Nat
  OBVIOUS
<1>2. plan.pos \in Seq(Nat) /\ (fresh = << >> => ToSet(plan.pos) = {})
  BY <1>1 DEF ToSet
<1>3. Reach(plan, Len(names)) \in Nat /\ Reach(plan, Len(names)) >= Len(names)
      /\ (fresh = << >> => Reach(plan, Len(names)) = Len(names))
  <2> HIDE DEF plan
  <2> QED BY <1>1, <1>2, Reaches
<1>4. Renamed(names, fresh) = [i \in DOMAIN long |-> IF at(i) = 0 THEN long[i] ELSE fresh[at(i)][2]]
  <2>1. DOMAIN fresh = 1..Len(fresh)
    OBVIOUS
  <2> QED BY ONLY <2>1 DEF Renamed
<1>5. long \in Seq(S) /\ Len(long) = Reach(plan, Len(names))
      /\ (\A i \in 1..Len(long) : long[i] = IF i <= Len(names) THEN names[i] ELSE Blank)
      /\ (fresh = << >> => long = names)
  <2> HIDE DEF plan
  <2>2. PICK n \in Nat : n = Reach(plan, Len(names))
    BY <1>3
  <2>3. /\ Pad(names, n, Blank) \in Seq(S)
        /\ n > Len(names) => Len(Pad(names, n, Blank)) = n
        /\ n <= Len(names) => Pad(names, n, Blank) = names /\ Len(Pad(names, n, Blank)) = Len(names)
        /\ \A i \in 1..Len(Pad(names, n, Blank)) :
             Pad(names, n, Blank)[i] = IF i <= Len(names) THEN names[i] ELSE Blank
    <3>1. n \in Int /\ Len(names) \in Nat
      OBVIOUS
    <3>2. /\ Pad(names, n, Blank) \in Seq(S)
          /\ n > Len(names) => Len(Pad(names, n, Blank)) = n
          /\ n <= Len(names) => Pad(names, n, Blank) = names /\ Len(Pad(names, n, Blank)) = Len(names)
      BY <3>1, Padded
    <3>3. ASSUME NEW i \in 1..Len(Pad(names, n, Blank))
          PROVE  Pad(names, n, Blank)[i] = IF i <= Len(names) THEN names[i] ELSE Blank
      <4>1. /\ i <= Len(names) => Pad(names, n, Blank)[i] = names[i]
            /\ i > Len(names) => Pad(names, n, Blank)[i] = Blank
        BY <3>1, PaddedAt
      <4>2. i \in Nat
        BY <3>2
      <4> QED BY <3>1, <4>1, <4>2
    <3> QED BY <3>2, <3>3
  <2>4. n >= Len(names) /\ (fresh = << >> => n = Len(names))
    BY <2>2, <1>3
  <2>5. Len(Pad(names, n, Blank)) = n
    BY <1>1, <2>3, <2>4
  <2>6. fresh = << >> => Pad(names, n, Blank) = names
    BY <1>1, <2>3, <2>4
  <2> QED BY ONLY <2>2, <2>3, <2>5, <2>6
<1>6. ASSUME NEW i PROVE \/ at(i) = 0
                         \/ at(i) \in 1..Len(fresh) /\ fresh[at(i)][1] = i
  <2> DEFINE I == {k \in 1..Len(fresh) : fresh[k][1] = i}
  <2>1. at(i) = IF I # {} THEN Max(I) ELSE 0
    BY DEF SelectLastInSeq
  <2>2. I \subseteq Nat /\ \A a \in I : a <= Len(fresh)
    OBVIOUS
  <2>3. I # {} => Max(I) \in I
    <3> HIDE DEF I
    <3> QED BY <1>1, <2>2, MaxOf
  <2> HIDE DEF at
  <2> QED BY <2>1, <2>3
<1> HIDE DEF at, long
<1>7. \A i : at(i) = 0 \/ fresh[at(i)][2] \in S
  BY <1>6
<1>8. DOMAIN Renamed(names, fresh) = 1..Len(long) /\ Len(Renamed(names, fresh)) = Len(long)
  BY <1>4, <1>5
<1>9. Renamed(names, fresh) \in Seq(S)
  <2>1. \A i \in 1..Len(long) : Renamed(names, fresh)[i] \in S
    BY <1>4, <1>5, <1>7
  <2>2. Renamed(names, fresh) = [i \in 1..Len(long) |-> Renamed(names, fresh)[i]]
    BY <1>4, <1>5
  <2>3. Len(long) \in Nat
    BY <1>5
  <2>4. PICK R : R = Renamed(names, fresh)
    OBVIOUS
  <2>5. R = [i \in 1..Len(long) |-> R[i]] /\ \A i \in 1..Len(long) : R[i] \in S
    BY <2>1, <2>2, <2>4
  <2>6. R \in Seq(S)
    BY <2>3, <2>5
  <2> QED BY <2>4, <2>6
<1>10. ASSUME NEW i \in 1..Len(long), \A k \in 1..Len(fresh) : fresh[k][1] # i
       PROVE  Renamed(names, fresh)[i] = long[i]
  <2>1. at(i) = 0
    BY <1>6, <1>10
  <2> QED BY <1>4, <1>5, <2>1
<1>11. fresh = << >> => Renamed(names, fresh) = names
  <2> SUFFICES ASSUME fresh = << >> PROVE Renamed(names, fresh) = names
    OBVIOUS
  <2>1. \A i \in 1..Len(long) : Renamed(names, fresh)[i] = long[i]
    BY <1>10
  <2>2. long = names
    BY <1>5
  <2> QED BY <1>8, <1>9, <2>1, <2>2
<1> QED BY <1>1, <1>3, <1>5, <1>8, <1>9, <1>10, <1>11

-----------------------------------------------------------------------------
(* Types *)

LEMMA MaxOfTwo ==
    ASSUME NEW a \in Nat, NEW b \in Nat
    PROVE  Max({a, b}) = IF a >= b THEN a ELSE b
<1>1. {a, b} \subseteq Nat /\ {a, b} # {} /\ a + b \in Nat /\ \A c \in {a, b} : c <= a + b
  OBVIOUS
<1>2. Max({a, b}) \in {a, b} /\ \A c \in {a, b} : c <= Max({a, b})
  BY <1>1, MaxOf
<1>3. PICK m : m = Max({a, b})
  OBVIOUS
<1>4. m \in {a, b} /\ a <= m /\ b <= m
  BY <1>2, <1>3
<1>5. m = IF a >= b THEN a ELSE b
  BY <1>4
<1> QED BY <1>3, <1>5

LEMMA Ranks ==
    ASSUME NEW v, v.kind \in Kinds
    PROVE  /\ Rank(v) \in 0..5 /\ (Rank(v) = 5 <=> v.kind = "List") /\ (Rank(v) = 0 <=> v.kind = "Null")
           /\ Atomic(v) <=> Rank(v) \in 1..4
           /\ Atomic(v) => KindOfRank(Rank(v)) = v.kind
<1>1. CASE v.kind = "Null"
  BY <1>1 DEF Rank, Atomic
<1>2. CASE v.kind = "Lgl"
  BY <1>2 DEF Rank, Atomic, KindOfRank
<1>3. CASE v.kind = "Int"
  BY <1>3 DEF Rank, Atomic, KindOfRank
<1>4. CASE v.kind = "Dbl"
  BY <1>4 DEF Rank, Atomic, KindOfRank
<1>5. CASE v.kind = "Str"
  BY <1>5 DEF Rank, Atomic, KindOfRank
<1>6. CASE v.kind = "List"
  BY <1>6 DEF Rank, Atomic
<1> QED BY <1>1, <1>2, <1>3, <1>4, <1>5, <1>6 DEF Kinds

LEMMA KindsOfRanks ==
    ASSUME NEW r \in 1..4, NEW v, v.kind = KindOfRank(r)
    PROVE  Rank(v) = r /\ v.kind # "List" /\ v.kind # "Null" /\ v.kind \in Kinds
<1>1. r = 1 \/ r = 2 \/ r = 3 \/ r = 4
  OBVIOUS
<1>2. /\ r = 1 => v.kind = "Lgl"
      /\ r = 2 => v.kind = "Int"
      /\ r = 3 => v.kind = "Dbl"
      /\ r = 4 => v.kind = "Str"
  BY DEF KindOfRank
<1> QED BY <1>1, <1>2 DEF Kinds, Rank

\* An element of a vector is of the vector's type already.
LEMMA OfItsType ==
    ASSUME NEW v, Formed(v), Atomic(v), NEW i \in 1..Len(v.data)
    PROVE  Coerce(v.data[i], Rank(v)) = v.data[i]
<1>1. v.data[i] \in ToSet(v.data)
  BY DEF Formed, ToSet
<1>2. v.data[i] = NA \/ v.data[i] = <<Tag(v), v.data[i][2]>>
  BY <1>1 DEF Formed
<1>3. v.kind = "Lgl" \/ v.kind = "Int" \/ v.kind = "Dbl" \/ v.kind = "Str"
  BY DEF Atomic
<1>4. CASE v.data[i] = NA
  BY <1>4 DEF Coerce
<1>5. PICK d : v.data[i] = NA \/ v.data[i] = <<Tag(v), d>>
  BY <1>2
<1>6. CASE v.data[i] = <<Tag(v), d>>
  <2>1. CASE v.kind = "Lgl"
    BY <1>6, <2>1 DEF Coerce, Tag, Rank, NA
  <2>2. CASE v.kind = "Int"
    BY <1>6, <2>2 DEF Coerce, Tag, Rank, NA
  <2>3. CASE v.kind = "Dbl"
    BY <1>6, <2>3 DEF Coerce, Tag, Rank, NA
  <2>4. CASE v.kind = "Str"
    BY <1>6, <2>4 DEF Coerce, Tag, Rank, NA
  <2> QED BY <1>3, <2>1, <2>2, <2>3, <2>4
<1> QED BY <1>4, <1>5, <1>6

LEMMA FormedParts ==
    ASSUME NEW v, Formed(v)
    PROVE  /\ v.kind \in Kinds /\ v.data \in Seq(ToSet(v.data)) /\ Len(v.data) \in Nat
           /\ DOMAIN v.data = 1..Len(v.data)
           /\ NamesOf(v) \in Seq(STRING) /\ Len(NamesOf(v)) <= Len(v.data)
           /\ v = [kind |-> v.kind, data |-> v.data, names |-> v.names, dim |-> v.dim,
                   dimnames |-> v.dimnames, levels |-> v.levels]
<1>1. /\ v.kind \in Kinds /\ v.data \in Seq(ToSet(v.data)) /\ v.names \in Seq(STRING)
      /\ v.dimnames \in Seq(Seq(STRING))
      /\ v \in [kind : Kinds, data : Seq(ToSet(v.data)), names : Seq(STRING), dim : Seq(Nat),
                dimnames : Seq(Seq(STRING)), levels : Seq(STRING)]
  BY DEF Formed
<1>2. Len(v.data) \in Nat /\ DOMAIN v.data = 1..Len(v.data)
  BY <1>1
<1>3. NamesOf(v) \in Seq(STRING)
  <2>1. v.dimnames # <<>> => v.dimnames[1] \in Seq(STRING)
    BY <1>1
  <2> QED BY <1>1, <2>1 DEF NamesOf
<1>4. Len(NamesOf(v)) <= Len(v.data)
  <2>1. PICK n \in Nat, m \in Nat : n = Len(NamesOf(v)) /\ m = Len(v.data)
    BY <1>2, <1>3
  <2>2. n \in {0, m} \/ n < m
    BY <2>1 DEF Formed
  <2> QED BY <2>1, <2>2
<1>5. v = [kind |-> v.kind, data |-> v.data, names |-> v.names, dim |-> v.dim,
           dimnames |-> v.dimnames, levels |-> v.levels]
  <2>1. PICK D, N, M, A, L : v \in [kind : Kinds, data : D, names : N, dim : M, dimnames : A, levels : L]
    BY <1>1
  <2> QED BY <2>1
<1> QED BY <1>1, <1>2, <1>3, <1>4, <1>5

-----------------------------------------------------------------------------
(* Names *)

\* A write that keeps the names it finds, and adds those of its plan, leaves every
\* other element with the name it had.
LEMMA NamesStay ==
    ASSUME NEW S, NEW v, NEW out, NEW fresh, NamesOf(v) \in Seq(S), out.names \in Seq(S),
           Len(out.names) >= Len(NamesOf(v)),
           \A i \in 1..Len(out.names) : i \notin fresh
             => out.names[i] = IF i <= Len(NamesOf(v)) THEN NamesOf(v)[i] ELSE Blank,
           out.dim = << >> \/ (out.dim = v.dim /\ out.dimnames = v.dimnames),
           NEW i \in Nat \ {0}, i \notin fresh
    PROVE  NameOf(out, i) = NameOf(v, i)
<1>1. CASE out.names # << >>
  <2>1. NamesOf(out) = out.names
    BY <1>1 DEF NamesOf
  <2>2. NameOf(out, i) = IF i \in DOMAIN out.names THEN out.names[i] ELSE Blank
    BY <2>1 DEF NameOf
  <2>3. DOMAIN out.names = 1..Len(out.names) /\ DOMAIN NamesOf(v) = 1..Len(NamesOf(v))
        /\ Len(out.names) \in Nat /\ Len(NamesOf(v)) \in Nat
    OBVIOUS
  <2>4. NameOf(v, i) = IF i \in DOMAIN NamesOf(v) THEN NamesOf(v)[i] ELSE Blank
    BY DEF NameOf
  <2> QED BY <2>2, <2>3, <2>4
<1>2. CASE out.names = << >>
  <2>1. NamesOf(v) = << >>
    <3>1. PICK o \in Seq(S) : o = NamesOf(v)
      OBVIOUS
    <3>2. Len(out.names) = 0
      BY <1>2
    <3>3. Len(o) = 0
      BY <3>1, <3>2
    <3> QED BY <3>1, <3>3, EmptySeq
  <2>2. NamesOf(out) = << >>
    <3>1. CASE Len(out.dim) = 1 /\ out.dimnames # << >>
      <4>1. out.dim = v.dim /\ out.dimnames = v.dimnames
        <5>1. out.dim # << >>
          <6> SUFFICES ASSUME out.dim = << >> PROVE FALSE
            OBVIOUS
          <6>1. Len(out.dim) = 0
            OBVIOUS
          <6> QED BY <3>1, <6>1
        <5> QED BY <5>1
      <4>2. v.names = << >>
        BY <2>1 DEF NamesOf
      <4> QED BY <1>2, <2>1, <3>1, <4>1, <4>2 DEF NamesOf
    <3> QED BY <1>2, <3>1 DEF NamesOf
  <2> QED BY <2>1, <2>2 DEF NameOf
<1> QED BY <1>1, <1>2

-----------------------------------------------------------------------------
(* A write that rebuilds the vector *)

\* Every element the plan does not select is v's, in the type of out, with its name;
\* elements that had to be added are NA, NULL in a list, and have no name.
Around(v, plan, out) ==
    LET n == Len(v.data)
        selected == ToSet(plan.pos)
    IN  /\ Len(out.data) = Reach(plan, n) /\ DOMAIN out.data = 1..Len(out.data)
        /\ Len(out.data) = n => out.dim = v.dim /\ out.dimnames = v.dimnames
        /\ \A i \in (1..Len(out.data)) \ selected :
             out.data[i] = IF out.kind = "List" THEN IF i <= n THEN Elements(v)[i] ELSE Box(NULL)
                           ELSE IF i <= n THEN Coerce(v.data[i], Rank(out)) ELSE NA
        /\ \A i \in 1..Len(out.data) : i <= n \/ i \notin selected => NameOf(out, i) = NameOf(v, i)

LEMMA PlanParts ==
    ASSUME NEW v, Formed(v), NEW plan, PlanFor(v, plan)
    PROVE  /\ plan.pos \in Seq(Nat) /\ plan.fresh \in Seq(Nat \X STRING)
           /\ Reach(plan, Len(v.data)) \in Nat /\ Len(v.data) <= Reach(plan, Len(v.data))
           /\ \A k \in 1..Len(plan.pos) : plan.pos[k] \in 1..Reach(plan, Len(v.data))
           /\ \A i \in Nat : i <= Len(v.data) \/ i \notin ToSet(plan.pos)
                => \A k \in 1..Len(plan.fresh) : plan.fresh[k][1] # i
<1>1. plan.pos \in Seq(Nat \ {0}) /\ plan.fresh \in Seq(Nat \X STRING)
  BY DEF PlanFor
<1>2. plan.pos \in Seq(Nat)
  <2>1. Nat \ {0} \subseteq Nat
    OBVIOUS
  <2> QED BY <1>1, <2>1, SeqMonotonic
<1>3. Len(v.data) \in Nat
  BY FormedParts
<1>4. /\ Reach(plan, Len(v.data)) \in Nat /\ Len(v.data) <= Reach(plan, Len(v.data))
      /\ \A i \in ToSet(plan.pos) : i <= Reach(plan, Len(v.data))
  BY <1>2, <1>3, Reaches
<1>5. ASSUME NEW k \in 1..Len(plan.pos) PROVE plan.pos[k] \in 1..Reach(plan, Len(v.data))
  <2>1. plan.pos[k] \in ToSet(plan.pos) /\ plan.pos[k] \in Nat \ {0}
    BY <1>1 DEF ToSet
  <2> QED BY <1>4, <2>1
<1>6. ASSUME NEW i \in Nat, i <= Len(v.data) \/ i \notin ToSet(plan.pos), NEW k \in 1..Len(plan.fresh)
      PROVE  plan.fresh[k][1] # i
  <2>1. plan.fresh[k] \in ToSet(plan.fresh) /\ plan.fresh[k][1] \in Nat
    BY <1>1 DEF ToSet
  <2>2. plan.fresh[k][1] > Len(v.data) /\ plan.fresh[k][1] \in ToSet(plan.pos)
    BY <2>1 DEF PlanFor
  <2>3. PICK n \in Nat : n = Len(v.data)
    BY <1>3
  <2>4. PICK f \in Nat : f = plan.fresh[k][1]
    BY <2>1
  <2>5. f > n /\ f \in ToSet(plan.pos) /\ (i <= n \/ i \notin ToSet(plan.pos))
    BY <1>6, <2>2, <2>3, <2>4
  <2>6. f # i
    BY <2>5
  <2> QED BY <2>4, <2>6
<1> QED BY <1>1, <1>2, <1>4, <1>5, <1>6

\* A vector that is stretched, and then has the value spliced into it.
LEMMA Stretched ==
    ASSUME NEW E, NEW s \in Seq(E), NEW reach \in Nat, Len(s) <= reach, NEW e \in E
    PROVE  /\ Pad(s, reach, e) \in Seq(E)
           /\ Len(Pad(s, reach, e)) = reach /\ DOMAIN Pad(s, reach, e) = 1..reach
           /\ \A i \in 1..reach : (i <= Len(s) => Pad(s, reach, e)[i] = s[i])
                                   /\ (i > Len(s) => Pad(s, reach, e)[i] = e)
<1>1. reach \in Int /\ Len(s) \in Nat
  OBVIOUS
<1>2. /\ Pad(s, reach, e) \in Seq(E) /\ DOMAIN Pad(s, reach, e) = 1..Len(Pad(s, reach, e))
      /\ reach > Len(s) => Len(Pad(s, reach, e)) = reach
      /\ reach <= Len(s) => Len(Pad(s, reach, e)) = Len(s)
  BY <1>1, Padded
<1>3. Len(Pad(s, reach, e)) = reach
  <2>1. CASE reach > Len(s)
    BY <1>2, <2>1
  <2>2. CASE ~(reach > Len(s))
    <3>1. reach = Len(s)
      BY <1>1, <2>2
    <3> QED BY <1>1, <1>2, <3>1
  <2> QED BY <2>1, <2>2
<1>4. ASSUME NEW i \in 1..reach
      PROVE  (i <= Len(s) => Pad(s, reach, e)[i] = s[i]) /\ (i > Len(s) => Pad(s, reach, e)[i] = e)
  <2>1. i \in 1..Len(Pad(s, reach, e))
    BY <1>3
  <2> QED BY <1>1, <2>1, PaddedAt
<1> QED BY <1>2, <1>3, <1>4

LEMMA SplicedInto ==
    ASSUME NEW E, NEW s \in Seq(E), NEW reach \in Nat, Len(s) <= reach, NEW e \in E,
           NEW pos \in Seq(Nat), NEW src
    PROVE  /\ Len(Splice(Pad(s, reach, e), pos, src)) = reach
           /\ DOMAIN Splice(Pad(s, reach, e), pos, src) = 1..reach
           /\ \A i \in (1..reach) \ ToSet(pos) :
                /\ i <= Len(s) => Splice(Pad(s, reach, e), pos, src)[i] = s[i]
                /\ i > Len(s) => Splice(Pad(s, reach, e), pos, src)[i] = e
<1>1. PICK room \in Seq(E) : room = Pad(s, reach, e)
  BY Stretched
<1>2. Len(room) = reach
  BY <1>1, Stretched
<1>3. ASSUME NEW i \in 1..reach PROVE (i <= Len(s) => room[i] = s[i]) /\ (i > Len(s) => room[i] = e)
  <2>1. i \in 1..Len(Pad(s, reach, e)) /\ reach \in Int
    BY <1>1, <1>2
  <2>2. (i <= Len(s) => Pad(s, reach, e)[i] = s[i]) /\ (i > Len(s) => Pad(s, reach, e)[i] = e)
    BY <2>1, PaddedAt
  <2> QED BY <1>1, <2>2
<1>4. DOMAIN Splice(room, pos, src) = 1..reach /\ Len(Splice(room, pos, src)) = reach
  BY <1>2, SplicedLength
<1>5. ASSUME NEW i \in (1..reach) \ ToSet(pos) PROVE Splice(room, pos, src)[i] = room[i]
  BY <1>2, SplicedAround
<1> QED BY <1>1, <1>3, <1>4, <1>5

LEMMA AtomicAround ==
    ASSUME NEW v, Formed(v), NEW plan, PlanFor(v, plan), NEW value, Formed(value),
           v.kind # "List", value.kind # "List"
    PROVE  Around(v, plan, WriteAtomic(v, plan, value))
<1> DEFINE n == Len(v.data)
           rank == Max({Rank(v), Rank(value)})
           As(s) == [i \in DOMAIN s |-> Coerce(s[i], rank)]
           grow == Reach(plan, n)
           room == Pad(As(v.data), grow, NA)
           names == Renamed(NamesOf(v), plan.fresh)
           data == IF value.data = <<>> THEN room ELSE Splice(room, plan.pos, As(value.data))
           called == IF names = <<>> THEN <<>> ELSE Pad(names, grow, Blank)
           out == WriteAtomic(v, plan, value)
<1>1. out = CopyAttrs(v, Named(V(IF rank = 0 THEN "Dbl" ELSE KindOfRank(rank), data), called), grow > n)
  BY DEF WriteAtomic
<1> HIDE DEF data, called, rank, grow
<1>2. /\ out.kind = IF rank = 0 THEN "Dbl" ELSE KindOfRank(rank)
      /\ out.data = data /\ out.names = called
      /\ out.dim = (IF grow > n THEN <<>> ELSE v.dim)
      /\ out.dimnames = (IF grow > n THEN <<>> ELSE v.dimnames)
  BY <1>1 DEF CopyAttrs, Named, V
<1> HIDE DEF out
<1>3. rank \in 0..4 /\ (rank = 0 => v.kind = "Null")
  <2>1. /\ Rank(v) \in 0..4 /\ Rank(value) \in 0..4 /\ (Rank(v) = 0 <=> v.kind = "Null")
    <3>1. v.kind \in Kinds /\ value.kind \in Kinds
      BY FormedParts
    <3>2. Rank(v) \in 0..5 /\ (Rank(v) = 5 <=> v.kind = "List") /\ (Rank(v) = 0 <=> v.kind = "Null")
      BY <3>1, Ranks
    <3>3. Rank(value) \in 0..5 /\ (Rank(value) = 5 <=> value.kind = "List")
      BY <3>1, Ranks
    <3> QED BY <3>2, <3>3
  <2>2. PICK a \in 0..4, b \in 0..4 : a = Rank(v) /\ b = Rank(value)
    BY <2>1
  <2>3. Max({a, b}) = IF a >= b THEN a ELSE b
    <3>1. a \in Nat /\ b \in Nat
      OBVIOUS
    <3> QED BY <3>1, MaxOfTwo
  <2> QED BY <2>1, <2>2, <2>3 DEF rank
<1>4. out.kind # "List" /\ (rank # 0 => Rank(out) = rank)
  <2>1. CASE rank = 0
    BY <1>2, <2>1
  <2>2. CASE rank # 0
    <3>1. PICK r \in 1..4 : r = rank
      BY <1>3, <2>2
    <3>2. out.kind = KindOfRank(r)
      BY <1>2, <2>2, <3>1
    <3> QED BY <3>1, <3>2, KindsOfRanks
  <2> QED BY <2>1, <2>2
<1>5. rank = 0 => n = 0
  <2> SUFFICES ASSUME rank = 0 PROVE n = 0
    OBVIOUS
  <2>1. v = NULL
    BY <1>3 DEF Formed
  <2>2. v.data = <<>>
    BY <2>1 DEF NULL, V
  <2> QED BY <2>2
<1>6. /\ plan.pos \in Seq(Nat) /\ plan.fresh \in Seq(Nat \X STRING) /\ grow \in Nat /\ n <= grow
      /\ \A i \in Nat : i <= n \/ i \notin ToSet(plan.pos)
           => \A k \in 1..Len(plan.fresh) : plan.fresh[k][1] # i
  BY PlanParts DEF grow
<1>7. v.data \in Seq(ToSet(v.data)) /\ n \in Nat /\ NamesOf(v) \in Seq(STRING) /\ Len(NamesOf(v)) <= n
      /\ DOMAIN v.data = 1..n
  BY FormedParts
<1>8. /\ Len(out.data) = grow /\ DOMAIN out.data = 1..grow
      /\ \A i \in (1..grow) \ ToSet(plan.pos) :
           out.data[i] = IF i <= n THEN Coerce(v.data[i], rank) ELSE NA
  <2>1. PICK s : s = As(v.data)
    OBVIOUS
  <2>2. s \in Seq({s[i] : i \in 1..n}) /\ Len(s) = n /\ \A i \in 1..n : s[i] = Coerce(v.data[i], rank)
    BY <1>7, <2>1
  <2>3. PICK d : d = out.data
    OBVIOUS
  <2>4. d = Pad(s, grow, NA) \/ d = Splice(Pad(s, grow, NA), plan.pos, As(value.data))
    BY <1>2, <2>1, <2>3 DEF data
  <2>5. /\ Len(d) = grow /\ DOMAIN d = 1..grow
        /\ \A i \in (1..grow) \ ToSet(plan.pos) : d[i] = IF i <= Len(s) THEN s[i] ELSE NA
    <3>1. Len(s) <= grow
      BY <1>6, <2>2
    <3>2. PICK src : src = As(value.data)
      OBVIOUS
    <3>3. PICK E : s \in Seq(E) /\ NA \in E
      <4>1. s \in Seq({s[i] : i \in 1..n} \cup {NA})
        BY <2>2, SeqMonotonic
      <4> QED BY <4>1
    <3>4. plan.pos \in Seq(Nat) /\ grow \in Nat
      BY <1>6
    <3>5. CASE d = Pad(s, grow, NA)
      <4>1. /\ Len(Pad(s, grow, NA)) = grow /\ DOMAIN Pad(s, grow, NA) = 1..grow
            /\ \A i \in 1..grow : (i <= Len(s) => Pad(s, grow, NA)[i] = s[i])
                                   /\ (i > Len(s) => Pad(s, grow, NA)[i] = NA)
        BY <3>1, <3>3, <3>4, Stretched
      <4>2. ASSUME NEW i \in (1..grow) \ ToSet(plan.pos)
            PROVE  Pad(s, grow, NA)[i] = IF i <= Len(s) THEN s[i] ELSE NA
        <5>1. CASE i <= Len(s)
          <6>1. Pad(s, grow, NA)[i] = s[i]
            BY <4>1, <5>1
          <6> QED BY ONLY <5>1, <6>1
        <5>2. CASE ~(i <= Len(s))
          <6>1. i > Len(s)
            BY <1>7, <2>2, <3>4, <5>2
          <6>2. Pad(s, grow, NA)[i] = NA
            BY <4>1, <6>1
          <6> QED BY ONLY <5>2, <6>2
        <5> QED BY <5>1, <5>2
      <4> QED BY <3>5, <4>1, <4>2
    <3>6. CASE d = Splice(Pad(s, grow, NA), plan.pos, src)
      <4>1. /\ Len(Splice(Pad(s, grow, NA), plan.pos, src)) = grow
            /\ DOMAIN Splice(Pad(s, grow, NA), plan.pos, src) = 1..grow
            /\ \A i \in (1..grow) \ ToSet(plan.pos) :
                 /\ i <= Len(s) => Splice(Pad(s, grow, NA), plan.pos, src)[i] = s[i]
                 /\ i > Len(s) => Splice(Pad(s, grow, NA), plan.pos, src)[i] = NA
        BY <3>1, <3>3, <3>4, SplicedInto
      <4> QED BY <1>7, <2>2, <3>4, <3>6, <4>1
    <3> QED BY <2>4, <3>2, <3>5, <3>6
  <2> QED BY <1>7, <2>2, <2>3, <2>5
<1>9. ASSUME NEW i \in 1..grow, i <= n \/ i \notin ToSet(plan.pos) PROVE NameOf(out, i) = NameOf(v, i)
  <2> DEFINE S == STRING \cup {Blank}
             fresh == {j \in Nat : \E k \in 1..Len(plan.fresh) : plan.fresh[k][1] = j}
  <2>1. NamesOf(v) \in Seq(S) /\ plan.fresh \in Seq(Nat \X S) /\ Blank \in S
    <3>1. STRING \subseteq S /\ Nat \X STRING \subseteq Nat \X S
      OBVIOUS
    <3> QED BY <1>6, <1>7, <3>1, SeqMonotonic
  <2> HIDE DEF S
  <2>2. /\ names \in Seq(S) /\ Len(names) >= Len(NamesOf(v))
        /\ \A j \in 1..Len(names) : (\A k \in 1..Len(plan.fresh) : plan.fresh[k][1] # j)
             => names[j] = IF j <= Len(NamesOf(v)) THEN NamesOf(v)[j] ELSE Blank
    BY <2>1, Renames
  <2> HIDE DEF names
  <2>3. PICK o : o = NamesOf(v)
    OBVIOUS
  <2>4. o \in Seq(S) /\ Len(o) \in Nat
    BY <2>1, <2>3
  <2>5. called \in Seq(S) /\ Len(called) >= Len(o)
        /\ \A j \in 1..Len(called) : j \notin fresh => called[j] = IF j <= Len(o) THEN o[j] ELSE Blank
    <3>1. CASE names = <<>>
      <4>1. called = <<>> /\ Len(names) = 0
        BY <3>1 DEF called
      <4>2. Len(o) = 0 /\ Len(called) = 0 /\ called \in Seq(S)
        BY <2>2, <2>3, <2>4, <4>1
      <4> QED BY <4>2
    <3>2. CASE names # <<>>
      <4>1. PICK c : c = Pad(names, grow, Blank)
        OBVIOUS
      <4>2. /\ c \in Seq(S) /\ Len(c) >= Len(names)
            /\ \A j \in 1..Len(c) : (j <= Len(names) => c[j] = names[j]) /\ (j > Len(names) => c[j] = Blank)
        <5>1. grow \in Int /\ Len(names) \in Nat
          BY <1>6, <2>2
        <5>2. /\ Pad(names, grow, Blank) \in Seq(S)
              /\ grow > Len(names) => Len(Pad(names, grow, Blank)) = grow
              /\ grow <= Len(names) => Len(Pad(names, grow, Blank)) = Len(names)
          BY <2>1, <2>2, <5>1, Padded
        <5>3. ASSUME NEW j \in 1..Len(Pad(names, grow, Blank))
              PROVE  /\ j <= Len(names) => Pad(names, grow, Blank)[j] = names[j]
                     /\ j > Len(names) => Pad(names, grow, Blank)[j] = Blank
          BY <2>1, <2>2, <5>1, PaddedAt
        <5> QED BY <4>1, <5>1, <5>2, <5>3
      <4>3. c \in Seq(S)
        BY <4>2
      <4>4. Len(c) >= Len(names) /\ Len(names) \in Nat /\ Len(c) \in Nat
        BY <2>2, <4>2, <4>3, <1>6
      <4>5. ASSUME NEW j \in 1..Len(c), j \notin fresh
            PROVE  c[j] = IF j <= Len(o) THEN o[j] ELSE Blank
        <5>1. \A k \in 1..Len(plan.fresh) : plan.fresh[k][1] # j
          BY <4>5
        <5>2. CASE j <= Len(names)
          <6>1. j \in 1..Len(names)
            BY <4>4, <5>2
          <6> QED BY <2>2, <2>3, <4>2, <5>1, <5>2, <6>1
        <5>3. CASE ~(j <= Len(names))
          BY <2>2, <2>3, <2>4, <4>2, <4>4, <5>3
        <5> QED BY <5>2, <5>3
      <4>6. called = c
        BY <3>2, <4>1 DEF called
      <4> HIDE DEF fresh
      <4> QED BY <2>2, <2>3, <2>4, <4>3, <4>4, <4>5, <4>6
    <3> QED BY <3>1, <3>2
  <2>6. i \notin fresh /\ i \in Nat \ {0}
    BY <1>6, <1>9
  <2>7. out.dim = <<>> \/ (out.dim = v.dim /\ out.dimnames = v.dimnames)
    BY <1>2
  <2> HIDE DEF fresh
  <2>8. /\ out.names \in Seq(S) /\ Len(out.names) >= Len(NamesOf(v))
        /\ \A j \in 1..Len(out.names) : j \notin fresh
             => out.names[j] = IF j <= Len(NamesOf(v)) THEN NamesOf(v)[j] ELSE Blank
    BY <1>2, <2>3, <2>5
  <2> QED BY <2>1, <2>6, <2>7, <2>8, NamesStay
<1>10. Len(out.data) = n => out.dim = v.dim /\ out.dimnames = v.dimnames
  BY <1>2, <1>7, <1>8
<1>11. ASSUME NEW i \in (1..Len(out.data)) \ ToSet(plan.pos)
       PROVE  out.data[i] = IF i <= n THEN Coerce(v.data[i], Rank(out)) ELSE NA
  <2>1. i \in 1..grow /\ i >= 1
    BY <1>6, <1>8
  <2>2. i <= n => rank # 0
    BY <1>5, <2>1
  <2> QED BY <1>4, <1>8, <2>1, <2>2
<1>12. Around(v, plan, out)
  <2> HIDE DEF n
  <2> QED BY <1>4, <1>8, <1>9, <1>10, <1>11 DEF Around, grow, n
<1> QED BY <1>12 DEF out

LEMMA ElementsOf ==
    ASSUME NEW v, Formed(v)
    PROVE  Elements(v) \in Seq({Elements(v)[i] : i \in 1..Len(v.data)}) /\ Len(Elements(v)) = Len(v.data)
<1>1. v.data \in Seq(ToSet(v.data)) /\ Len(v.data) \in Nat /\ DOMAIN v.data = 1..Len(v.data)
  BY FormedParts
<1>2. CASE v.kind = "List"
  <2>1. PICK d \in Seq(ToSet(v.data)) : d = v.data
    BY <1>1
  <2>2. Elements(v) = d
    BY <1>2, <2>1 DEF Elements
  <2>3. d \in Seq({d[i] : i \in 1..Len(d)})
    OBVIOUS
  <2> QED BY <2>1, <2>2, <2>3
<1>3. CASE v.kind # "List"
  <2>1. Elements(v) = [i \in 1..Len(v.data) |-> Box(V(v.kind, <<v.data[i]>>))]
    BY <1>1, <1>3 DEF Elements
  <2>2. PICK n \in Nat : n = Len(v.data)
    BY <1>1
  <2>3. PICK d : d = Elements(v)
    OBVIOUS
  <2>4. d = [i \in 1..n |-> d[i]]
    BY <2>1, <2>2, <2>3
  <2>5. d \in Seq({d[i] : i \in 1..n}) /\ Len(d) = n
    BY <2>4
  <2> QED BY <2>2, <2>3, <2>5
<1> QED BY <1>2, <1>3

LEMMA ListAround ==
    ASSUME NEW v, Formed(v), NEW plan, PlanFor(v, plan), NEW value, NEW single
    PROVE  Around(v, plan, WriteList(v, plan, value, single))
<1> DEFINE n == Len(v.data)
           src == IF single THEN <<Box(value)>> ELSE Elements(value)
           grow == Reach(plan, n)
           items == Splice(Pad(Elements(v), grow, Box(NULL)), plan.pos, src)
           padded == Pad(NamesOf(v), Len(NamesOf(v)) + Len(items) - n, Blank)
           called == Renamed(padded, plan.fresh)
           out == WriteList(v, plan, value, single)
<1>1. out = CopyAttrs(v, Named(V("List", items), called), Len(items) > n)
  BY DEF WriteList
<1> HIDE DEF items, called, grow, src
<1>2. /\ out.kind = "List" /\ out.data = items /\ out.names = called
      /\ out.dim = (IF Len(items) > n THEN <<>> ELSE v.dim)
      /\ out.dimnames = (IF Len(items) > n THEN <<>> ELSE v.dimnames)
  BY <1>1 DEF CopyAttrs, Named, V
<1> HIDE DEF out
<1>3. /\ plan.pos \in Seq(Nat) /\ plan.fresh \in Seq(Nat \X STRING) /\ grow \in Nat /\ n <= grow
      /\ \A i \in Nat : i <= n \/ i \notin ToSet(plan.pos)
           => \A k \in 1..Len(plan.fresh) : plan.fresh[k][1] # i
  BY PlanParts DEF grow
<1>4. n \in Nat /\ NamesOf(v) \in Seq(STRING) /\ Len(NamesOf(v)) <= n
  BY FormedParts
<1>5. /\ Len(items) = grow /\ DOMAIN items = 1..grow
      /\ \A i \in (1..grow) \ ToSet(plan.pos) : items[i] = IF i <= n THEN Elements(v)[i] ELSE Box(NULL)
  <2>1. PICK s : s = Elements(v)
    OBVIOUS
  <2>2. s \in Seq({s[i] : i \in 1..n}) /\ Len(s) = n
    BY <2>1, ElementsOf
  <2>3. PICK nothing : nothing = Box(NULL)
    OBVIOUS
  <2>4. PICK E : s \in Seq(E) /\ nothing \in E
    <3>1. s \in Seq({s[i] : i \in 1..n} \cup {nothing})
      BY <2>2, SeqMonotonic
    <3> QED BY <3>1
  <2>5. Len(s) <= grow
    BY <1>3, <2>2
  <2>6. /\ Len(Splice(Pad(s, grow, nothing), plan.pos, src)) = grow
        /\ DOMAIN Splice(Pad(s, grow, nothing), plan.pos, src) = 1..grow
        /\ \A i \in (1..grow) \ ToSet(plan.pos) :
             /\ i <= Len(s) => Splice(Pad(s, grow, nothing), plan.pos, src)[i] = s[i]
             /\ i > Len(s) => Splice(Pad(s, grow, nothing), plan.pos, src)[i] = nothing
    BY <1>3, <2>4, <2>5, SplicedInto
  <2>7. items = Splice(Pad(s, grow, nothing), plan.pos, src)
    BY <2>1, <2>3 DEF items
  <2>8. ASSUME NEW i \in (1..grow) \ ToSet(plan.pos)
        PROVE  items[i] = IF i <= n THEN s[i] ELSE nothing
    BY <1>3, <1>4, <2>2, <2>6, <2>7
  <2> QED BY <2>1, <2>3, <2>6, <2>7, <2>8
<1>6. ASSUME NEW i \in 1..grow, i <= n \/ i \notin ToSet(plan.pos) PROVE NameOf(out, i) = NameOf(v, i)
  <2> DEFINE S == STRING \cup {Blank}
             fresh == {j \in Nat : \E k \in 1..Len(plan.fresh) : plan.fresh[k][1] = j}
  <2>1. NamesOf(v) \in Seq(S) /\ plan.fresh \in Seq(Nat \X S) /\ Blank \in S
    <3>1. STRING \subseteq S /\ Nat \X STRING \subseteq Nat \X S
      OBVIOUS
    <3> QED BY <1>3, <1>4, <3>1, SeqMonotonic
  <2> HIDE DEF S
  <2>2. PICK o \in Seq(S), more \in Nat : o = NamesOf(v) /\ more = Len(o) + Len(items) - n /\ more >= Len(o)
    <3>1. PICK o \in Seq(S) : o = NamesOf(v)
      BY <2>1
    <3>2. Len(o) \in Nat /\ Len(o) + grow - n \in Nat /\ Len(o) + grow - n >= Len(o)
      BY <1>3, <1>4, SMTT(30)
    <3> QED BY <1>5, <3>1, <3>2
  <2>3. PICK p : p = Pad(o, more, Blank)
    OBVIOUS
  <2>4. /\ p \in Seq(S) /\ Len(p) = more
        /\ \A j \in 1..more : (j <= Len(o) => p[j] = o[j]) /\ (j > Len(o) => p[j] = Blank)
    <3>1. /\ Pad(o, more, Blank) \in Seq(S) /\ Len(Pad(o, more, Blank)) = more
          /\ \A j \in 1..more : (j <= Len(o) => Pad(o, more, Blank)[j] = o[j])
                                /\ (j > Len(o) => Pad(o, more, Blank)[j] = Blank)
      <4>1. Len(o) <= more
        BY <2>2
      <4> QED BY <2>1, <4>1, Stretched
    <3> QED BY <2>3, <3>1
  <2>5. called = Renamed(p, plan.fresh)
    BY <2>2, <2>3 DEF called
  <2>6. /\ called \in Seq(S) /\ Len(called) >= Len(p)
        /\ \A j \in 1..Len(called) : (\A k \in 1..Len(plan.fresh) : plan.fresh[k][1] # j)
             => called[j] = IF j <= Len(p) THEN p[j] ELSE Blank
    <3>1. /\ Renamed(p, plan.fresh) \in Seq(S) /\ Len(Renamed(p, plan.fresh)) >= Len(p)
          /\ \A j \in 1..Len(Renamed(p, plan.fresh)) : (\A k \in 1..Len(plan.fresh) : plan.fresh[k][1] # j)
               => Renamed(p, plan.fresh)[j] = IF j <= Len(p) THEN p[j] ELSE Blank
      BY <2>1, <2>4, Renames
    <3> QED BY <2>5, <3>1
  <2>7. ASSUME NEW j \in 1..Len(called), j \notin fresh
        PROVE  called[j] = IF j <= Len(o) THEN o[j] ELSE Blank
    <3>1. called[j] = IF j <= Len(p) THEN p[j] ELSE Blank
      <4>1. \A k \in 1..Len(plan.fresh) : plan.fresh[k][1] # j
        BY <2>7
      <4> QED BY <2>6, <4>1
    <3>2. j \in Nat \ {0} /\ Len(o) \in Nat /\ Len(p) >= Len(o)
      BY <2>2, <2>4, <2>6
    <3>3. CASE j <= Len(o)
      <4>1. j <= Len(p) /\ j \in 1..more
        BY <2>2, <2>4, <3>2, <3>3
      <4> QED BY <2>4, <3>1, <3>3, <4>1
    <3>4. CASE ~(j <= Len(o))
      <4>1. j <= Len(p) => p[j] = Blank
        <5> SUFFICES ASSUME j <= Len(p) PROVE p[j] = Blank
          OBVIOUS
        <5>1. j \in 1..more /\ j > Len(o)
          BY <2>2, <2>4, <3>2, <3>4
        <5> QED BY <2>4, <5>1
      <4> QED BY <3>1, <3>4, <4>1
    <3> QED BY <3>3, <3>4
  <2>8. i \notin fresh /\ i \in Nat \ {0}
    BY <1>3, <1>6, SMTT(30)
  <2>9. out.dim = <<>> \/ (out.dim = v.dim /\ out.dimnames = v.dimnames)
    BY <1>2
  <2> HIDE DEF fresh
  <2>10. /\ out.names \in Seq(S) /\ Len(out.names) >= Len(NamesOf(v))
         /\ \A j \in 1..Len(out.names) : j \notin fresh
              => out.names[j] = IF j <= Len(NamesOf(v)) THEN NamesOf(v)[j] ELSE Blank
    <3>1. Len(called) >= Len(o)
      BY <2>2, <2>4, <2>6
    <3> QED BY <1>2, <2>2, <2>6, <2>7, <3>1
  <2> QED BY <2>1, <2>8, <2>9, <2>10, NamesStay
<1>7. Len(out.data) = n => out.dim = v.dim /\ out.dimnames = v.dimnames
  BY <1>2, <1>4, <1>5
<1>8. Around(v, plan, out)
  <2> HIDE DEF n
  <2> QED BY <1>2, <1>5, <1>6, <1>7 DEF Around, grow, n
<1> QED BY <1>8 DEF out

\* A rebuilt vector is the old one except where the plan says otherwise: for every
\* vector, plan and value, when nothing is taken out of a list.
THEOREM TheRestIsRebuilt ==
    ASSUME NEW v, Formed(v), NEW plan, PlanFor(v, plan), NEW value, Formed(value), NEW single,
           WritesList(v, value, single) => value.kind # "Null"
    PROVE  Around(v, plan, Rebuild(v, plan, value, single))
<1>1. CASE ~WritesList(v, value, single)
  <2>1. v.kind # "List" /\ value.kind # "List"
    BY <1>1 DEF WritesList
  <2> QED BY <1>1, <2>1, AtomicAround DEF Rebuild
<1>2. CASE WritesList(v, value, single)
  BY <1>2, ListAround DEF Rebuild
<1> QED BY <1>1, <1>2

-----------------------------------------------------------------------------
(* A write in place *)

LEMMA WithData ==
    ASSUME NEW v, Formed(v), NEW d
    PROVE  [v EXCEPT !.data = d] = [kind |-> v.kind, data |-> d, names |-> v.names, dim |-> v.dim,
                                    dimnames |-> v.dimnames, levels |-> v.levels]
<1>1. PICK k, b, n, m, a, l :
         /\ v = [kind |-> k, data |-> b, names |-> n, dim |-> m, dimnames |-> a, levels |-> l]
         /\ k = v.kind /\ b = v.data /\ n = v.names /\ m = v.dim /\ a = v.dimnames /\ l = v.levels
  BY FormedParts
<1>2. [v EXCEPT !.data = d] = [kind |-> k, data |-> d, names |-> n, dim |-> m, dimnames |-> a, levels |-> l]
  BY ONLY <1>1
<1> QED BY <1>1, <1>2

\* What a write in place leaves and what a rebuild makes, field by field.
LEMMA InPlaceParts ==
    ASSUME NEW v, Formed(v), NEW plan, NEW value
    PROVE  LET here == WriteInPlace(v, plan, value)
           IN  here = [kind |-> v.kind, data |-> here.data, names |-> v.names, dim |-> v.dim,
                       dimnames |-> v.dimnames, levels |-> v.levels]
<1>1. PICK d : WriteInPlace(v, plan, value) = [v EXCEPT !.data = d]
  BY DEF WriteInPlace
<1>2. PICK h : h = WriteInPlace(v, plan, value)
  OBVIOUS
<1>3. h = [kind |-> v.kind, data |-> d, names |-> v.names, dim |-> v.dim,
           dimnames |-> v.dimnames, levels |-> v.levels]
  BY <1>1, <1>2, WithData
<1>4. h.data = d
  BY <1>3
<1>5. h = [kind |-> v.kind, data |-> h.data, names |-> v.names, dim |-> v.dim,
           dimnames |-> v.dimnames, levels |-> v.levels]
  BY <1>3, <1>4
<1> QED BY <1>2, <1>5

LEMMA Dressed ==
    ASSUME NEW v, NEW kind, NEW d, NEW names, NEW grew
    PROVE  CopyAttrs(v, Named(V(kind, d), names), grew) =
             [kind |-> kind, data |-> d, names |-> names, dim |-> IF grew THEN <<>> ELSE v.dim,
              dimnames |-> IF grew THEN <<>> ELSE v.dimnames, levels |-> <<>>]
<1>1. PICK none : none = <<>>
  OBVIOUS
<1>2. V(kind, d) = [kind |-> kind, data |-> d, names |-> none, dim |-> none, dimnames |-> none,
                    levels |-> none]
  BY <1>1 DEF V
<1>3. PICK r : r = Named(V(kind, d), names)
  OBVIOUS
<1>4. r = [kind |-> kind, data |-> d, names |-> names, dim |-> none, dimnames |-> none, levels |-> none]
  BY <1>2, <1>3 DEF Named
<1>5. PICK m, a : m = (IF grew THEN <<>> ELSE v.dim) /\ a = (IF grew THEN <<>> ELSE v.dimnames)
  OBVIOUS
<1>6. CopyAttrs(v, r, grew) = [r EXCEPT !.dim = m, !.dimnames = a]
  BY <1>5 DEF CopyAttrs
<1>7. [r EXCEPT !.dim = m] =
        [kind |-> kind, data |-> d, names |-> names, dim |-> m, dimnames |-> none, levels |-> none]
  BY ONLY <1>4
<1>8. PICK q : q = [r EXCEPT !.dim = m]
  OBVIOUS
<1>9. q = [kind |-> kind, data |-> d, names |-> names, dim |-> m, dimnames |-> none, levels |-> none]
  BY ONLY <1>7, <1>8
<1>10. [q EXCEPT !.dimnames = a] =
         [kind |-> kind, data |-> d, names |-> names, dim |-> m, dimnames |-> a, levels |-> none]
  BY ONLY <1>9
<1>11. CopyAttrs(v, r, grew) = [q EXCEPT !.dimnames = a]
  BY ONLY <1>6, <1>8
<1> QED BY <1>1, <1>3, <1>5, <1>10, <1>11

LEMMA AtomicParts ==
    ASSUME NEW v, NEW plan, NEW value
    PROVE  LET out == WriteAtomic(v, plan, value)
               rank == Max({Rank(v), Rank(value)})
               grew == Reach(plan, Len(v.data)) > Len(v.data)
           IN  out = [kind |-> IF rank = 0 THEN "Dbl" ELSE KindOfRank(rank), data |-> out.data,
                      names |-> out.names, dim |-> IF grew THEN <<>> ELSE v.dim,
                      dimnames |-> IF grew THEN <<>> ELSE v.dimnames, levels |-> <<>>]
<1> DEFINE rank == Max({Rank(v), Rank(value)})
           grew == Reach(plan, Len(v.data)) > Len(v.data)
           kind == IF rank = 0 THEN "Dbl" ELSE KindOfRank(rank)
<1>1. PICK d, names : WriteAtomic(v, plan, value) = CopyAttrs(v, Named(V(kind, d), names), grew)
  BY DEF WriteAtomic
<1> HIDE DEF rank, grew, kind
<1>2. CopyAttrs(v, Named(V(kind, d), names), grew) =
        [kind |-> kind, data |-> d, names |-> names, dim |-> IF grew THEN <<>> ELSE v.dim,
         dimnames |-> IF grew THEN <<>> ELSE v.dimnames, levels |-> <<>>]
  BY Dressed
<1>3. PICK out : out = WriteAtomic(v, plan, value)
  OBVIOUS
<1>4. out = [kind |-> kind, data |-> out.data, names |-> out.names, dim |-> IF grew THEN <<>> ELSE v.dim,
             dimnames |-> IF grew THEN <<>> ELSE v.dimnames, levels |-> <<>>]
  <2>1. out.data = d /\ out.names = names
    BY <1>1, <1>2, <1>3
  <2> QED BY <1>1, <1>2, <1>3, <2>1
<1> QED BY <1>3, <1>4 DEF kind, rank, grew

LEMMA ListParts ==
    ASSUME NEW v, Formed(v), NEW plan, PlanFor(v, plan), NEW value, NEW single
    PROVE  LET out == WriteList(v, plan, value, single)
               grew == Reach(plan, Len(v.data)) > Len(v.data)
           IN  out = [kind |-> "List", data |-> out.data,
                      names |-> out.names, dim |-> IF grew THEN <<>> ELSE v.dim,
                      dimnames |-> IF grew THEN <<>> ELSE v.dimnames, levels |-> <<>>]
<1> DEFINE grew == Reach(plan, Len(v.data)) > Len(v.data)
<1>1. PICK d, names : WriteList(v, plan, value, single) = CopyAttrs(v, Named(V("List", d), names), Len(d) > Len(v.data))
  BY DEF WriteList
<1>2. CopyAttrs(v, Named(V("List", d), names), Len(d) > Len(v.data)) =
        [kind |-> "List", data |-> d, names |-> names, dim |-> IF Len(d) > Len(v.data) THEN <<>> ELSE v.dim,
         dimnames |-> IF Len(d) > Len(v.data) THEN <<>> ELSE v.dimnames, levels |-> <<>>]
  <2>1. PICK kind, longer : kind = "List" /\ longer = (Len(d) > Len(v.data))
    OBVIOUS
  <2>2. CopyAttrs(v, Named(V(kind, d), names), longer) =
          [kind |-> kind, data |-> d, names |-> names, dim |-> IF longer THEN <<>> ELSE v.dim,
           dimnames |-> IF longer THEN <<>> ELSE v.dimnames, levels |-> <<>>]
    BY Dressed
  <2> QED BY <2>1, <2>2
<1>3. PICK out : out = WriteList(v, plan, value, single)
  OBVIOUS
<1>4. out.data = d /\ out.names = names
  BY <1>1, <1>2, <1>3
<1>5. Len(d) = Reach(plan, Len(v.data))
  BY <1>3, <1>4, ListAround DEF Around
<1>6. out = [kind |-> "List", data |-> out.data, names |-> out.names, dim |-> IF grew THEN <<>> ELSE v.dim,
             dimnames |-> IF grew THEN <<>> ELSE v.dimnames, levels |-> <<>>]
  BY <1>1, <1>2, <1>3, <1>4, <1>5
<1> QED BY <1>3, <1>6

LEMMA SameNames ==
    ASSUME NEW v, NEW out, out.names = NamesOf(v), out.dim = v.dim, out.dimnames = v.dimnames
    PROVE  NamesOf(out) = NamesOf(v)
<1>1. CASE NamesOf(v) # << >>
  BY <1>1 DEF NamesOf
<1>2. CASE NamesOf(v) = << >>
  <2>1. v.names = << >>
    BY <1>2 DEF NamesOf
  <2> QED BY <1>2, <2>1 DEF NamesOf
<1> QED BY <1>1, <1>2

\* The same elements, type and dimensions are the same vector but for the names.
LEMMA ButForNames ==
    ASSUME NEW k, NEW d, NEW m, NEW a, NEW l, NEW n, NEW o, NEW here, NEW anew,
           here = [kind |-> k, data |-> d, names |-> n, dim |-> m, dimnames |-> a, levels |-> l],
           anew = [kind |-> k, data |-> d, names |-> o, dim |-> m, dimnames |-> a, levels |-> l]
    PROVE  [here EXCEPT !.names = <<>>] = [anew EXCEPT !.names = <<>>]
<1>1. PICK none : none = <<>>
  OBVIOUS
<1>2. [here EXCEPT !.names = none] =
        [kind |-> k, data |-> d, names |-> none, dim |-> m, dimnames |-> a, levels |-> l]
  OBVIOUS
<1>3. [anew EXCEPT !.names = none] =
        [kind |-> k, data |-> d, names |-> none, dim |-> m, dimnames |-> a, levels |-> l]
  OBVIOUS
<1> QED BY ONLY <1>1, <1>2, <1>3

Agree(v, here, anew) ==
    /\ [here EXCEPT !.names = <<>>] = [anew EXCEPT !.names = <<>>]
    /\ NamesOf(here) = NamesOf(anew) \/ (here.kind = "List" /\ Len(here.data) > Len(v.data))

\* The shape a vector that is written in place keeps.
LEMMA KeepsItsShape ==
    ASSUME NEW v, Formed(v), NEW plan, PlanFor(v, plan), NEW value, NEW single,
           FitsInPlace(v, plan, value, single)
    PROVE  LET grew == Reach(plan, Len(v.data)) > Len(v.data)
           IN  /\ v.dim = IF grew THEN <<>> ELSE v.dim
               /\ v.dimnames = IF grew THEN <<>> ELSE v.dimnames
               /\ grew => NamesOf(v) = <<>>
               /\ ~grew => Reach(plan, Len(v.data)) = Len(v.data)
<1>1. PICK n \in Nat, r \in Nat : n = Len(v.data) /\ r = Reach(plan, Len(v.data)) /\ n <= r
  BY FormedParts, PlanParts
<1>2. r = n \/ (v.names = <<>> /\ v.dim = <<>> /\ v.dimnames = <<>>)
  BY <1>1 DEF FitsInPlace, Formed
<1>3. v.names = <<>> /\ v.dim = <<>> => NamesOf(v) = <<>>
  <2> SUFFICES ASSUME v.names = <<>>, v.dim = <<>> PROVE NamesOf(v) = <<>>
    OBVIOUS
  <2>1. Len(v.dim) = 0
    OBVIOUS
  <2> QED BY <2>1 DEF NamesOf
<1>4. r > n => v.names = <<>> /\ v.dim = <<>> /\ v.dimnames = <<>>
  BY <1>2
<1>5. ~(r > n) => r = n
  BY <1>1
<1> QED BY <1>1, <1>3, <1>4, <1>5

LEMMA AtomicInPlace ==
    ASSUME NEW v, Formed(v), NEW plan, PlanFor(v, plan), NEW value, Formed(value), NEW single,
           FitsInPlace(v, plan, value, single), v.kind # "List", Atomic(v), Rank(value) <= Rank(v),
           v.levels = <<>>
    PROVE  Agree(v, WriteInPlace(v, plan, value), WriteAtomic(v, plan, value))
<1> DEFINE n == Len(v.data)
           rank == Max({Rank(v), Rank(value)})
           As(s) == [i \in DOMAIN s |-> Coerce(s[i], rank)]
           grow == Reach(plan, n)
           room == Pad(As(v.data), grow, NA)
           names == Renamed(NamesOf(v), plan.fresh)
           here == WriteInPlace(v, plan, value)
           anew == WriteAtomic(v, plan, value)
<1>1. /\ v.kind \in Kinds /\ v.data \in Seq(ToSet(v.data)) /\ n \in Nat /\ DOMAIN v.data = 1..n
      /\ NamesOf(v) \in Seq(STRING) /\ Len(NamesOf(v)) <= n
      /\ value.kind \in Kinds /\ value.data \in Seq(ToSet(value.data)) /\ DOMAIN value.data = 1..Len(value.data)
  BY FormedParts
<1>2. rank = Rank(v) /\ rank \in 1..4 /\ rank # 0 /\ KindOfRank(rank) = v.kind
  <2>1. PICK a \in Nat, b \in Nat : a = Rank(v) /\ b = Rank(value) /\ b <= a
    BY <1>1, Ranks
  <2>2. Max({a, b}) = a
    BY <2>1, MaxOfTwo
  <2>3. Rank(v) \in 1..4 /\ KindOfRank(Rank(v)) = v.kind
    BY <1>1, Ranks
  <2> QED BY <2>1, <2>2, <2>3
<1> HIDE DEF rank
<1>3. As(v.data) = v.data
  <2>1. PICK d \in Seq(ToSet(v.data)) : d = v.data
    BY <1>1
  <2>2. \A i \in 1..n : Coerce(d[i], rank) = d[i]
    BY <1>2, <2>1, OfItsType
  <2>3. [i \in 1..n |-> Coerce(d[i], rank)] = [i \in 1..n |-> d[i]]
    BY <2>2
  <2>4. d = [i \in 1..n |-> d[i]]
    BY <2>1
  <2> QED BY <1>1, <2>1, <2>3, <2>4
<1>4. As(value.data) = <<>> <=> value.data = <<>>
  <2>1. PICK d \in Seq(ToSet(value.data)) : d = value.data
    BY <1>1
  <2>2. PICK s : s = As(d)
    OBVIOUS
  <2>3. s = [i \in 1..Len(d) |-> s[i]] /\ Len(d) \in Nat
    BY <2>2
  <2>4. Len(s) = Len(d)
    BY <2>3
  <2>5. s \in Seq({s[i] : i \in 1..Len(d)})
    BY <2>3
  <2>6. s = <<>> <=> d = <<>>
    <3>1. s = <<>> => d = <<>>
      <4> SUFFICES ASSUME s = <<>> PROVE d = <<>>
        OBVIOUS
      <4>1. Len(s) = 0
        BY ONLY s = <<>>
      <4>2. Len(d) = 0
        BY <2>4, <4>1
      <4> QED BY <4>2, EmptySeq
    <3>2. d = <<>> => s = <<>>
      <4> SUFFICES ASSUME d = <<>> PROVE s = <<>>
        OBVIOUS
      <4>1. Len(d) = 0
        BY ONLY d = <<>>
      <4>2. Len(s) = 0
        BY <2>4, <4>1
      <4> QED BY <2>5, <4>2, EmptySeq
    <3> QED BY <3>1, <3>2
  <2> QED BY <2>1, <2>2, <2>6
<1>5. anew = [kind |-> v.kind, data |-> anew.data, names |-> anew.names, dim |-> v.dim,
              dimnames |-> v.dimnames, levels |-> v.levels]
  <2>1. anew = [kind |-> IF rank = 0 THEN "Dbl" ELSE KindOfRank(rank), data |-> anew.data,
                names |-> anew.names, dim |-> IF grow > n THEN <<>> ELSE v.dim,
                dimnames |-> IF grow > n THEN <<>> ELSE v.dimnames, levels |-> <<>>]
    BY AtomicParts DEF rank
  <2>2. v.dim = (IF grow > n THEN <<>> ELSE v.dim) /\ v.dimnames = (IF grow > n THEN <<>> ELSE v.dimnames)
    BY KeepsItsShape
  <2> HIDE DEF anew, grow, n
  <2> QED BY <1>2, <2>1, <2>2
<1>6. here = [kind |-> v.kind, data |-> here.data, names |-> v.names, dim |-> v.dim,
              dimnames |-> v.dimnames, levels |-> v.levels]
  BY InPlaceParts
<1>7. anew.data = IF value.data = <<>> THEN room ELSE Splice(room, plan.pos, As(value.data))
  BY DEF WriteAtomic, CopyAttrs, Named, V, rank
<1>8. here.data = IF As(value.data) = <<>> THEN room ELSE Splice(room, plan.pos, As(value.data))
  <2>1. Pad(v.data, grow, NA) = room
    BY <1>3
  <2>2. WriteInPlace(v, plan, value) =
          [v EXCEPT !.data = IF As(value.data) = <<>> THEN Pad(v.data, grow, NA)
                             ELSE Splice(Pad(v.data, grow, NA), plan.pos, As(value.data))]
    BY <1>2 DEF WriteInPlace
  <2>3. PICK d : d = IF As(value.data) = <<>> THEN Pad(v.data, grow, NA)
                     ELSE Splice(Pad(v.data, grow, NA), plan.pos, As(value.data))
    OBVIOUS
  <2>4. WriteInPlace(v, plan, value) = [v EXCEPT !.data = d]
    BY <2>2, <2>3
  <2>5. here.data = d
    BY <2>4, WithData
  <2> QED BY <2>1, <2>3, <2>5
<1>9. here.data = anew.data
  BY <1>4, <1>7, <1>8
<1>10. NamesOf(here) = NamesOf(anew)
  <2>1. plan.fresh = <<>>
    BY DEF FitsInPlace
  <2>2. names = NamesOf(v)
    <3> DEFINE S == STRING \cup {Blank}
    <3>1. NamesOf(v) \in Seq(S) /\ plan.fresh \in Seq(Nat \X S) /\ Blank \in S
      <4>1. STRING \subseteq S
        OBVIOUS
      <4> QED BY <1>1, <2>1, <4>1, SeqMonotonic
    <3> HIDE DEF S
    <3> QED BY <2>1, <3>1, Renames
  <2>3. anew.names = IF names = <<>> THEN <<>> ELSE Pad(names, grow, Blank)
    BY DEF WriteAtomic, CopyAttrs, Named, V
  <2>4. anew.names = NamesOf(v)
    <3>1. CASE NamesOf(v) = <<>>
      BY <2>2, <2>3, <3>1
    <3>2. CASE NamesOf(v) # <<>>
      <4>1. grow = n
        BY <3>2, KeepsItsShape
      <4>2. Len(NamesOf(v)) = n
        <5>1. PICK o \in Seq(STRING) : o = NamesOf(v)
          BY <1>1
        <5>2. Len(o) # 0
          BY <3>2, <5>1, EmptySeq
        <5>3. Len(o) \in {0, n}
          BY <5>1 DEF Formed
        <5> QED BY <5>1, <5>2, <5>3
      <4>3. Pad(NamesOf(v), grow, Blank) = NamesOf(v)
        <5> DEFINE S == STRING \cup {Blank}
        <5>1. NamesOf(v) \in Seq(S) /\ Blank \in S
          <6>1. STRING \subseteq S
            OBVIOUS
          <6> QED BY <1>1, <6>1, SeqMonotonic
        <5> HIDE DEF S
        <5>2. PICK o \in Seq(S), k \in Int : o = NamesOf(v) /\ k = grow /\ k <= Len(o)
          BY <1>1, <4>1, <4>2, <5>1
        <5>3. Pad(o, k, Blank) = o
          BY <5>1, <5>2, Padded
        <5> QED BY <5>2, <5>3
      <4> QED BY <2>2, <2>3, <3>2, <4>3
    <3> QED BY <3>1, <3>2
  <2>5. anew.dim = v.dim /\ anew.dimnames = v.dimnames
    <3> HIDE DEF anew
    <3> QED BY <1>5
  <2>6. here.names = v.names /\ here.dim = v.dim /\ here.dimnames = v.dimnames
    <3> HIDE DEF here
    <3> QED BY <1>6
  <2>7. NamesOf(here) = NamesOf(v)
    BY <2>6 DEF NamesOf
  <2>8. NamesOf(anew) = NamesOf(v)
    BY <2>4, <2>5, SameNames
  <2> QED BY <2>7, <2>8
<1> HIDE DEF here, anew
<1>11. [here EXCEPT !.names = <<>>] = [anew EXCEPT !.names = <<>>]
  BY <1>5, <1>6, <1>9, ButForNames
<1> QED BY <1>10, <1>11 DEF Agree, here, anew

LEMMA ListInPlace ==
    ASSUME NEW v, Formed(v), NEW plan, PlanFor(v, plan), NEW value, NEW single,
           FitsInPlace(v, plan, value, single), v.kind = "List", v.levels = <<>>
    PROVE  Agree(v, WriteInPlace(v, plan, value), WriteList(v, plan, value, single))
<1> DEFINE n == Len(v.data)
           grow == Reach(plan, n)
           items == Splice(Pad(v.data, grow, Box(NULL)), plan.pos, <<Box(value)>>)
           here == WriteInPlace(v, plan, value)
           anew == WriteList(v, plan, value, single)
<1>1. n \in Nat /\ grow \in Nat /\ n <= grow /\ NamesOf(v) \in Seq(STRING)
  BY FormedParts, PlanParts
<1>2. single /\ Elements(v) = v.data /\ plan.fresh = <<>>
  BY DEF FitsInPlace, Atomic, Elements
<1>3. anew.data = items
        /\ anew.names = Renamed(Pad(NamesOf(v), Len(NamesOf(v)) + Len(items) - n, Blank), plan.fresh)
  BY <1>2 DEF WriteList, CopyAttrs, Named, V
<1>4. here.data = items
  <2>1. PICK d : d = items
    OBVIOUS
  <2>2. PICK b : b = Box(value)
    OBVIOUS
  <2>3. <<b>> # <<>>
    BY ONLY TRUE
  <2>4. WriteInPlace(v, plan, value) = [v EXCEPT !.data = d]
    BY <2>1, <2>2, <2>3 DEF WriteInPlace
  <2>5. here.data = d
    BY <2>4, WithData
  <2> QED BY <2>1, <2>5
<1> HIDE DEF items
<1>5. here = [kind |-> v.kind, data |-> here.data, names |-> v.names, dim |-> v.dim,
              dimnames |-> v.dimnames, levels |-> v.levels]
  BY InPlaceParts
<1>6. anew = [kind |-> v.kind, data |-> anew.data, names |-> anew.names, dim |-> v.dim,
              dimnames |-> v.dimnames, levels |-> v.levels]
  <2>1. anew = [kind |-> "List", data |-> anew.data, names |-> anew.names,
                dim |-> IF grow > n THEN <<>> ELSE v.dim,
                dimnames |-> IF grow > n THEN <<>> ELSE v.dimnames, levels |-> <<>>]
    BY ListParts
  <2>2. v.dim = (IF grow > n THEN <<>> ELSE v.dim) /\ v.dimnames = (IF grow > n THEN <<>> ELSE v.dimnames)
    BY KeepsItsShape
  <2> HIDE DEF anew, grow, n
  <2> QED BY <2>1, <2>2
<1>7. Len(items) = grow
  <2>1. Len(anew.data) = grow
    BY ListAround DEF Around
  <2> QED BY <1>3, <2>1
<1>8. NamesOf(here) = NamesOf(anew) \/ (here.kind = "List" /\ Len(here.data) > n)
  <2>1. CASE grow > n
    <3>1. here.kind = "List"
      <4> HIDE DEF here
      <4> QED BY <1>5
    <3> QED BY <1>4, <1>7, <2>1, <3>1
  <2>2. CASE ~(grow > n)
    <3> DEFINE S == STRING \cup {Blank}
    <3>1. NamesOf(v) \in Seq(S) /\ Blank \in S
      <4>1. STRING \subseteq S
        OBVIOUS
      <4> QED BY <1>1, <4>1, SeqMonotonic
    <3> HIDE DEF S
    <3>2. PICK o \in Seq(S) : o = NamesOf(v)
      BY <3>1
    <3>3. PICK k \in Int : k = Len(o) + Len(items) - n /\ k <= Len(o)
      BY <1>1, <1>7, <2>2
    <3>4. Pad(o, k, Blank) = o
      <4>1. o \in Seq(S) /\ k \in Int /\ k <= Len(o) /\ Blank \in S
        BY <3>1, <3>3
      <4> QED BY ONLY <4>1, Padded
    <3>5. plan.fresh \in Seq(Nat \X S)
      BY <1>2
    <3>6. Renamed(o, plan.fresh) = o
      BY <1>2, <3>1, <3>5, Renames
    <3>7. anew.names = NamesOf(v)
      BY <1>3, <3>2, <3>3, <3>4, <3>6
    <3>8. anew.dim = v.dim /\ anew.dimnames = v.dimnames
      <4> HIDE DEF anew
      <4> QED BY <1>6
    <3>9. here.names = v.names /\ here.dim = v.dim /\ here.dimnames = v.dimnames
      <4> HIDE DEF here
      <4> QED BY <1>5
    <3>10. NamesOf(here) = NamesOf(v)
      BY <3>9 DEF NamesOf
    <3>11. NamesOf(anew) = NamesOf(v)
      BY <3>7, <3>8, SameNames
    <3> QED BY <3>10, <3>11
  <2> QED BY <2>1, <2>2
<1>9. here.data = anew.data
  BY <1>3, <1>4
<1> HIDE DEF here, anew
<1>10. [here EXCEPT !.names = <<>>] = [anew EXCEPT !.names = <<>>]
  BY <1>5, <1>6, <1>9, ButForNames
<1> QED BY <1>8, <1>10 DEF Agree, here, anew

\* A write that may go into the vector where it is gives what the rebuild gives, for
\* every vector without levels, plan and value: type, elements, dimensions, and names
\* unless a list is stretched.
THEOREM InPlaceGivesTheRebuild ==
    ASSUME NEW v, Formed(v), v.levels = <<>>, NEW plan, PlanFor(v, plan), NEW value, Formed(value),
           NEW single, FitsInPlace(v, plan, value, single)
    PROVE  Agree(v, WriteInPlace(v, plan, value), Rebuild(v, plan, value, single))
<1>1. CASE v.kind = "List"
  <2>1. WritesList(v, value, single) /\ value.kind # "Null"
    BY <1>1 DEF FitsInPlace, WritesList, Atomic
  <2> QED BY <1>1, <2>1, ListInPlace DEF Rebuild
<1>2. CASE v.kind # "List"
  <2>1. ~WritesList(v, value, single) /\ Atomic(v) /\ Rank(value) <= Rank(v)
    BY <1>2 DEF FitsInPlace
  <2> QED BY <1>2, <2>1, AtomicInPlace DEF Rebuild
<1> QED BY <1>1, <1>2

\* A bare vector is its own target.
LEMMA BareGoal ==
    ASSUME NEW v, Formed(v), Bare(v), NEW w
    PROVE  Goal(v, w) = v
<1>1. Goal(v, w) = [v EXCEPT !.levels = v.levels]
  BY DEF Goal, Bare
<1>2. PICK k, b, n, m, a, l :
         v = [kind |-> k, data |-> b, names |-> n, dim |-> m, dimnames |-> a, levels |-> l]
  BY FormedParts
<1>3. [v EXCEPT !.levels = v.levels] = v
  BY ONLY <1>2
<1> QED BY <1>1, <1>3

-----------------------------------------------------------------------------
(* What a write of the program leaves alone *)

\* OthersStay of one write: what it makes of v is v but where the plan says otherwise.
Kept(v, plan, out) ==
    LET sel == ToSet(plan.pos)
    IN  /\ Len(out.data) >= Len(v.data)
        /\ Len(out.data) = Len(v.data) => out.dim = v.dim /\ out.dimnames = v.dimnames
        /\ \A i \in DOMAIN out.data :
             IF i <= Len(v.data)
             THEN /\ i \notin sel => out.data[i] = IF out.kind = "List" THEN Elements(v)[i]
                                                   ELSE Coerce(v.data[i], Rank(out))
                  /\ NameOf(out, i) = NameOf(v, i)
             ELSE i \notin sel => /\ out.data[i] = IF out.kind = "List" THEN Box(NULL) ELSE NA
                                  /\ NameOf(out, i) = Blank

\* The target of a write is a vector like the one it is made from, and takes the same plans.
LEMMA GoalParts ==
    ASSUME NEW v, Formed(v), NEW w, NEW plan, PlanFor(v, plan)
    PROVE  LET g == Goal(v, w)
           IN  /\ Formed(g) /\ PlanFor(g, plan) /\ g.levels = <<>>
               /\ g.data = v.data /\ g.dim = v.dim /\ g.dimnames = v.dimnames /\ NamesOf(g) = NamesOf(v)
               /\ g.kind = v.kind \/ Len(v.data) = 0
<1>1. CASE w.single /\ v.kind = "Null" /\ w.value.kind # "Null"
  <2>1. PICK g : g = Goal(v, w)
    OBVIOUS
  <2>2. v = NULL
    BY <1>1 DEF Formed
  <2>3. g = List(<<>>)
    BY <1>1, <2>1 DEF Goal
  <2>4. [i \in DOMAIN <<>> |-> Box(<<>>[i])] = <<>>
    OBVIOUS
  <2>5. g = [kind |-> "List", data |-> <<>>, names |-> <<>>, dim |-> <<>>, dimnames |-> <<>>, levels |-> <<>>]
    BY <2>3, <2>4 DEF List, V
  <2>6. v = [kind |-> "Null", data |-> <<>>, names |-> <<>>, dim |-> <<>>, dimnames |-> <<>>, levels |-> <<>>]
    BY <2>2 DEF NULL, V
  <2>7. g.data = v.data /\ g.dim = v.dim /\ g.dimnames = v.dimnames /\ g.levels = <<>> /\ Len(v.data) = 0
        /\ NamesOf(g) = NamesOf(v) /\ NamesOf(g) = <<>>
    BY <2>5, <2>6 DEF NamesOf
  <2>8. Formed(g)
    <3>1. ToSet(g.data) = {}
      BY <2>5 DEF ToSet
    <3>2. g \in [kind : Kinds, data : Seq(ToSet(g.data)), names : Seq(STRING), dim : Seq(Nat),
                 dimnames : Seq(Seq(STRING)), levels : Seq(STRING)]
      <4>1. PICK none : none = <<>>
        OBVIOUS
      <4>2. none \in Seq(ToSet(g.data)) /\ none \in Seq(STRING) /\ none \in Seq(Nat) /\ none \in Seq(Seq(STRING))
        BY <4>1
      <4>3. g = [kind |-> "List", data |-> none, names |-> none, dim |-> none, dimnames |-> none, levels |-> none]
        BY <2>5, <4>1
      <4>4. "List" \in Kinds
        BY DEF Kinds
      <4> QED BY <4>2, <4>3, <4>4
    <3>3. g.kind = "List" /\ g.dim = <<>> /\ g.dimnames = <<>> /\ Len(NamesOf(g)) = 0 /\ g.levels = <<>>
      BY <2>5, <2>7
    <3> QED BY <3>1, <3>2, <3>3 DEF Formed, Atomic, IsFactor
  <2>9. PlanFor(g, plan)
    BY <2>7 DEF PlanFor
  <2> QED BY <2>1, <2>7, <2>8, <2>9
<1>2. CASE ~(w.single /\ v.kind = "Null" /\ w.value.kind # "Null")
  <2>1. PICK k, b, n, m, a, l :
           /\ v = [kind |-> k, data |-> b, names |-> n, dim |-> m, dimnames |-> a, levels |-> l]
           /\ k = v.kind /\ b = v.data /\ n = v.names /\ m = v.dim /\ a = v.dimnames /\ l = v.levels
    BY FormedParts
  <2>2. PICK g, none : g = Goal(v, w) /\ none = <<>>
    OBVIOUS
  <2>3. g = [v EXCEPT !.levels = none]
    BY <1>2, <2>2 DEF Goal
  <2>4. g = [kind |-> k, data |-> b, names |-> n, dim |-> m, dimnames |-> a, levels |-> none]
    BY ONLY <2>1, <2>3
  <2>5. g.kind = v.kind /\ g.data = v.data /\ g.names = v.names /\ g.dim = v.dim /\ g.dimnames = v.dimnames
        /\ g.levels = <<>>
    BY <2>1, <2>2, <2>4
  <2>6. NamesOf(g) = NamesOf(v)
    BY <2>5 DEF NamesOf
  <2>7. PlanFor(g, plan)
    BY <2>5 DEF PlanFor
  <2>8. Formed(g)
    <3>1. g \in [kind : Kinds, data : Seq(ToSet(g.data)), names : Seq(STRING), dim : Seq(Nat),
                 dimnames : Seq(Seq(STRING)), levels : Seq(STRING)]
      <4>1. v.kind \in Kinds /\ v.data \in Seq(ToSet(v.data)) /\ v.names \in Seq(STRING) /\ v.dim \in Seq(Nat)
            /\ v.dimnames \in Seq(Seq(STRING))
        BY DEF Formed
      <4>2. none \in Seq(STRING)
        BY <2>2
      <4>3. PICK D, N, M, A, L : D = Seq(ToSet(g.data)) /\ N = Seq(STRING) /\ M = Seq(Nat) /\ A = Seq(Seq(STRING))
                                 /\ L = Seq(STRING)
        OBVIOUS
      <4>4. k \in Kinds /\ b \in D /\ n \in N /\ m \in M /\ a \in A /\ none \in L
        BY <2>1, <2>5, <4>1, <4>2, <4>3
      <4>5. g \in [kind : Kinds, data : D, names : N, dim : M, dimnames : A, levels : L]
        BY ONLY <2>4, <4>4
      <4> QED BY <4>3, <4>5
    <3>2. g.kind = "Null" => g = NULL
      <4> SUFFICES ASSUME g.kind = "Null" PROVE g = NULL
        OBVIOUS
      <4>1. v = NULL
        BY <2>5 DEF Formed
      <4>2. v = [kind |-> "Null", data |-> none, names |-> none, dim |-> none, dimnames |-> none, levels |-> none]
        BY <2>2, <4>1 DEF NULL, V
      <4>3. g = v
        BY ONLY <2>3, <4>2
      <4> QED BY <4>1, <4>3
    <3>3. Tag(g) = Tag(v) /\ Atomic(g) = Atomic(v)
      BY <2>5 DEF Tag, Rank, Atomic
    <3>4. ~IsFactor(g)
      BY <2>5 DEF IsFactor
    <3>5. /\ Atomic(g) => \A e \in ToSet(g.data) : e = NA \/ e = <<Tag(g), e[2]>>
          /\ g.kind = "List" => \A e \in ToSet(g.data) : e[1] = "vec"
          /\ g.dim # <<>> => Product(g.dim) = Len(g.data)
          /\ g.dim = <<>> => g.dimnames = <<>>
          /\ Len(NamesOf(g)) \in {0, Len(g.data)} \/ (g.kind = "List" /\ Len(NamesOf(g)) < Len(g.data))
      BY <2>5, <2>6, <3>3 DEF Formed
    <3> QED BY <3>1, <3>2, <3>4, <3>5 DEF Formed
  <2> QED BY <2>2, <2>5, <2>6, <2>7, <2>8
<1> QED BY <1>1, <1>2

\* No name is kept for an element there is not.
LEMMA NoNamePast ==
    ASSUME NEW v, Formed(v), NEW i \in Nat, i > Len(v.data)
    PROVE  NameOf(v, i) = Blank
<1>1. PICK o \in Seq(STRING), n \in Nat : o = NamesOf(v) /\ n = Len(v.data) /\ Len(o) <= n
  BY FormedParts
<1>2. i \notin DOMAIN o
  BY <1>1
<1> QED BY <1>1, <1>2 DEF NameOf

LEMMA AroundIsKept ==
    ASSUME NEW v, Formed(v), NEW plan, PlanFor(v, plan), NEW w, NEW out, Around(Goal(v, w), plan, out)
    PROVE  Kept(v, plan, out)
<1>1. PICK g : g = Goal(v, w)
  OBVIOUS
<1>2. PICK n \in Nat : n = Len(v.data)
  BY FormedParts
<1>3. /\ g.data = v.data /\ g.dim = v.dim /\ g.dimnames = v.dimnames /\ NamesOf(g) = NamesOf(v)
      /\ g.kind = v.kind \/ n = 0
  BY <1>1, <1>2, GoalParts
<1>4. PICK m \in Nat : m = Reach(plan, n) /\ n <= m
  BY <1>2, PlanParts
<1>5. n > 0 => Elements(g) = Elements(v)
  <2> SUFFICES ASSUME n > 0 PROVE Elements(g) = Elements(v)
    OBVIOUS
  <2>1. PICK k, d : k = v.kind /\ d = v.data
    OBVIOUS
  <2>2. g.kind = k /\ g.data = d
    BY <1>3, <2>1
  <2>3. Elements(v) = IF k = "List" THEN d ELSE [i \in DOMAIN d |-> Box(V(k, <<d[i]>>))]
    BY <2>1 DEF Elements
  <2>4. Elements(g) = IF k = "List" THEN d ELSE [i \in DOMAIN d |-> Box(V(k, <<d[i]>>))]
    BY <2>2 DEF Elements
  <2> QED BY <2>3, <2>4
<1>6. \A i : NameOf(g, i) = NameOf(v, i)
  BY <1>3 DEF NameOf
<1>7. /\ Len(out.data) = m /\ DOMAIN out.data = 1..m
      /\ Len(out.data) = n => out.dim = v.dim /\ out.dimnames = v.dimnames
      /\ \A i \in (1..m) \ ToSet(plan.pos) :
           out.data[i] = IF out.kind = "List" THEN IF i <= n THEN Elements(g)[i] ELSE Box(NULL)
                         ELSE IF i <= n THEN Coerce(v.data[i], Rank(out)) ELSE NA
      /\ \A i \in 1..m : i <= n \/ i \notin ToSet(plan.pos) => NameOf(out, i) = NameOf(v, i)
  BY <1>1, <1>2, <1>3, <1>4, <1>6 DEF Around
<1>8. ASSUME NEW i \in 1..m
      PROVE  IF i <= n
             THEN /\ i \notin ToSet(plan.pos) => out.data[i] = IF out.kind = "List" THEN Elements(v)[i]
                                                               ELSE Coerce(v.data[i], Rank(out))
                  /\ NameOf(out, i) = NameOf(v, i)
             ELSE i \notin ToSet(plan.pos) => /\ out.data[i] = IF out.kind = "List" THEN Box(NULL) ELSE NA
                                              /\ NameOf(out, i) = Blank
  <2>1. CASE i <= n
    <3>1. n > 0
      BY <1>2, <2>1
    <3> QED BY <1>5, <1>7, <2>1, <3>1
  <2>2. CASE ~(i <= n)
    <3>1. NameOf(v, i) = Blank
      <4>1. i \in Nat /\ i > n
        BY <1>2, <2>2
      <4> QED BY <1>2, <4>1, NoNamePast
    <3> QED BY <1>7, <2>2, <3>1
  <2> QED BY <2>1, <2>2
<1> QED BY <1>2, <1>4, <1>7, <1>8 DEF Kept

\* Levels are not looked at.
LEMMA AlikeAround ==
    ASSUME NEW v, NEW plan, NEW out, NEW l, NEW kind, NEW d, NEW names, NEW dim, NEW labels, NEW levels,
           out = [kind |-> kind, data |-> d, names |-> names, dim |-> dim, dimnames |-> labels,
                  levels |-> levels],
           Around(v, plan, out)
    PROVE  Around(v, plan, [out EXCEPT !.levels = l])
<1>1. PICK o : o = [out EXCEPT !.levels = l]
  OBVIOUS
<1>2. o = [kind |-> kind, data |-> d, names |-> names, dim |-> dim, dimnames |-> labels, levels |-> l]
  BY ONLY <1>1, out = [kind |-> kind, data |-> d, names |-> names, dim |-> dim, dimnames |-> labels,
                       levels |-> levels]
<1>3. o.kind = out.kind /\ o.data = out.data /\ o.names = out.names /\ o.dim = out.dim
      /\ o.dimnames = out.dimnames
  BY <1>2
<1>4. NamesOf(o) = NamesOf(out) /\ Rank(o) = Rank(out)
  BY <1>3 DEF NamesOf, Rank
<1>5. \A i : NameOf(o, i) = NameOf(out, i)
  BY <1>4 DEF NameOf
<1>6. Around(v, plan, o)
  BY <1>3, <1>4, <1>5 DEF Around
<1> QED BY <1>1, <1>6

LEMMA RebuiltParts ==
    ASSUME NEW v, Formed(v), NEW plan, PlanFor(v, plan), NEW value, NEW single,
           WritesList(v, value, single) => value.kind # "Null"
    PROVE  \E k, d, n, m, a, l : Rebuild(v, plan, value, single) =
             [kind |-> k, data |-> d, names |-> n, dim |-> m, dimnames |-> a, levels |-> l]
<1>1. CASE ~WritesList(v, value, single)
  <2>1. Rebuild(v, plan, value, single) = WriteAtomic(v, plan, value)
    BY <1>1 DEF Rebuild
  <2>2. \E k, d, n, m, a, l : WriteAtomic(v, plan, value) =
             [kind |-> k, data |-> d, names |-> n, dim |-> m, dimnames |-> a, levels |-> l]
    <3>1. PICK out, none : out = WriteAtomic(v, plan, value) /\ none = <<>>
      OBVIOUS
    <3>2. PICK k, m, a : out = [kind |-> k, data |-> out.data, names |-> out.names, dim |-> m,
                                dimnames |-> a, levels |-> none]
      <4> DEFINE rank == Max({Rank(v), Rank(value)})
                 grew == Reach(plan, Len(v.data)) > Len(v.data)
      <4>1. PICK k, m, a : /\ k = (IF rank = 0 THEN "Dbl" ELSE KindOfRank(rank))
                           /\ m = (IF grew THEN <<>> ELSE v.dim)
                           /\ a = (IF grew THEN <<>> ELSE v.dimnames)
        OBVIOUS
      <4>2. out = [kind |-> k, data |-> out.data, names |-> out.names, dim |-> m,
                   dimnames |-> a, levels |-> none]
        BY <3>1, <4>1, AtomicParts
      <4> QED BY ONLY <4>2
    <3> QED BY ONLY <3>1, <3>2
  <2> QED BY <2>1, <2>2
<1>2. CASE WritesList(v, value, single)
  <2>1. Rebuild(v, plan, value, single) = WriteList(v, plan, value, single)
    BY <1>2 DEF Rebuild
  <2>2. \E k, d, n, m, a, l : WriteList(v, plan, value, single) =
             [kind |-> k, data |-> d, names |-> n, dim |-> m, dimnames |-> a, levels |-> l]
    BY ListParts
  <2> QED BY <2>1, <2>2
<1> QED BY <1>1, <1>2

LEMMA InPlaceAround ==
    ASSUME NEW v, Formed(v), v.levels = <<>>, NEW plan, PlanFor(v, plan), NEW value, Formed(value),
           NEW single, FitsInPlace(v, plan, value, single)
    PROVE  Around(v, plan, WriteInPlace(v, plan, value))
<1>1. PICK h : h = WriteInPlace(v, plan, value)
  OBVIOUS
<1>2. PICK anew : anew = Rebuild(v, plan, value, single)
  OBVIOUS
<1>3. WritesList(v, value, single) => value.kind # "Null"
  BY DEF FitsInPlace
<1>4. Around(v, plan, anew)
  BY <1>2, <1>3, TheRestIsRebuilt
<1>5. PICK none : none = <<>>
  OBVIOUS
<1>6. [h EXCEPT !.names = none] = [anew EXCEPT !.names = none]
  BY <1>1, <1>2, <1>5, InPlaceGivesTheRebuild DEF Agree
<1>7. PICK k, d, n, m, a, l :
         anew = [kind |-> k, data |-> d, names |-> n, dim |-> m, dimnames |-> a, levels |-> l]
  BY <1>2, <1>3, RebuiltParts
<1>8. PICK d1 : h = [kind |-> v.kind, data |-> d1, names |-> v.names, dim |-> v.dim,
                     dimnames |-> v.dimnames, levels |-> v.levels]
  BY <1>1, InPlaceParts
<1>9. h.kind = anew.kind /\ h.data = anew.data
  <2>1. [anew EXCEPT !.names = none] =
          [kind |-> k, data |-> d, names |-> none, dim |-> m, dimnames |-> a, levels |-> l]
    BY ONLY <1>7
  <2>2. [h EXCEPT !.names = none] =
          [kind |-> v.kind, data |-> d1, names |-> none, dim |-> v.dim, dimnames |-> v.dimnames,
           levels |-> v.levels]
    BY ONLY <1>8
  <2>3. v.kind = k /\ d1 = d
    BY ONLY <1>6, <2>1, <2>2
  <2> QED BY ONLY <1>7, <1>8, <2>3
<1>10. h.dim = v.dim /\ h.dimnames = v.dimnames /\ h.names = v.names
  BY ONLY <1>8
<1>11. Rank(h) = Rank(anew)
  BY <1>9 DEF Rank
<1>12. NamesOf(h) = NamesOf(v)
  BY <1>10 DEF NamesOf
<1>13. \A i : NameOf(h, i) = NameOf(v, i)
  BY <1>12 DEF NameOf
<1>14. Around(v, plan, h)
  BY <1>4, <1>9, <1>10, <1>11, <1>13 DEF Around
<1> QED BY <1>1, <1>14

\* NULL assigned to nothing leaves the vector.
LEMMA UntouchedIsKept ==
    ASSUME NEW v, Formed(v), NEW plan, PlanFor(v, plan), NEW w
    PROVE  Kept(v, plan, Goal(v, w))
<1>1. PICK g : g = Goal(v, w)
  OBVIOUS
<1>2. PICK n \in Nat : n = Len(v.data) /\ DOMAIN v.data = 1..n
  BY FormedParts
<1>3. /\ g.data = v.data /\ g.dim = v.dim /\ g.dimnames = v.dimnames /\ NamesOf(g) = NamesOf(v)
      /\ g.kind = v.kind \/ n = 0
  BY <1>1, <1>2, GoalParts
<1>4. \A i : NameOf(g, i) = NameOf(v, i)
  BY <1>3 DEF NameOf
<1>5. ASSUME NEW i \in 1..n
      PROVE  g.data[i] = IF g.kind = "List" THEN Elements(v)[i] ELSE Coerce(v.data[i], Rank(g))
  <2>1. g.kind = v.kind
    BY <1>3
  <2>2. CASE v.kind = "List"
    <3>1. Elements(v) = v.data
      BY <2>2 DEF Elements
    <3> QED BY <1>3, <2>1, <2>2, <3>1
  <2>3. CASE v.kind # "List"
    <3>1. v.kind # "Null"
      <4>1. v.kind = "Null" => v.data = <<>>
        BY DEF Formed, NULL, V
      <4>2. v.data # <<>>
        <5> SUFFICES ASSUME v.data = <<>> PROVE FALSE
          OBVIOUS
        <5>1. Len(v.data) = 0
          OBVIOUS
        <5> QED BY <1>2, <5>1
      <4> QED BY <4>1, <4>2
    <3>2. Atomic(v)
      BY <2>3, <3>1, FormedParts DEF Kinds, Atomic
    <3>3. Coerce(v.data[i], Rank(v)) = v.data[i]
      BY <1>2, <3>2, OfItsType
    <3>4. Rank(g) = Rank(v)
      BY <2>1 DEF Rank
    <3> QED BY <1>3, <2>1, <2>3, <3>3, <3>4
  <2> QED BY <2>2, <2>3
<1>6. Kept(v, plan, g)
  BY <1>2, <1>3, <1>4, <1>5 DEF Kept
<1> QED BY <1>1, <1>6

-----------------------------------------------------------------------------
(* What a write selects *)

\* The k-th position is the last to name its place.
LastThere(plan, k) == \A j \in 1..Len(plan.pos) : j > k => plan.pos[j] # plan.pos[k]
\* The element of a value that goes to the k-th position, over and over.
Turn(value, k) == ((k - 1) % Len(value.data)) + 1

LEMMA AtomicWritten ==
    ASSUME NEW v, Formed(v), NEW plan, PlanFor(v, plan), NEW value, Formed(value),
           v.kind # "List", value.kind # "List", value.data # <<>>,
           NEW k \in 1..Len(plan.pos), LastThere(plan, k)
    PROVE  LET out == WriteAtomic(v, plan, value)
           IN  out.data[plan.pos[k]] = Coerce(value.data[Turn(value, k)], Rank(out))
<1> DEFINE n == Len(v.data)
           rank == Max({Rank(v), Rank(value)})
           As(s) == [i \in DOMAIN s |-> Coerce(s[i], rank)]
           grow == Reach(plan, n)
           room == Pad(As(v.data), grow, NA)
           out == WriteAtomic(v, plan, value)
<1>1. out.data = Splice(room, plan.pos, As(value.data)) /\ out.kind = IF rank = 0 THEN "Dbl" ELSE KindOfRank(rank)
  BY DEF WriteAtomic, CopyAttrs, Named, V
<1>2. /\ n \in Nat /\ DOMAIN v.data = 1..n
      /\ value.kind \in Kinds /\ v.kind \in Kinds /\ value.data \in Seq(ToSet(value.data))
      /\ Len(value.data) \in Nat /\ DOMAIN value.data = 1..Len(value.data)
  BY FormedParts
<1>3. value.kind # "Null" /\ Len(value.data) \in Nat \ {0}
  <2>1. value.kind = "Null" => value.data = <<>>
    BY DEF Formed, NULL, V
  <2>2. PICK d \in Seq(ToSet(value.data)) : d = value.data
    BY <1>2
  <2>3. Len(d) # 0
    BY <2>2, EmptySeq
  <2> QED BY <1>2, <2>1, <2>2, <2>3
<1>4. rank \in 1..4 /\ Rank(out) = rank
  <2>1. PICK a \in 0..4, b \in 1..4 : a = Rank(v) /\ b = Rank(value)
    <3>1. Rank(v) \in 0..5 /\ Rank(v) # 5
      BY <1>2, Ranks
    <3>2. Rank(value) \in 0..5 /\ Rank(value) # 5 /\ Rank(value) # 0
      BY <1>2, <1>3, Ranks
    <3>3. Rank(v) \in 0..4 /\ Rank(value) \in 1..4
      BY <3>1, <3>2
    <3> QED BY <3>3
  <2>2. Max({a, b}) = IF a >= b THEN a ELSE b
    <3>1. a \in Nat /\ b \in Nat
      OBVIOUS
    <3> QED BY <3>1, MaxOfTwo
  <2>3. PICK r \in 1..4 : r = rank
    BY <2>1, <2>2
  <2>4. out.kind = KindOfRank(r)
    <3> HIDE DEF out, rank
    <3> QED BY <1>1, <2>3
  <2>5. Rank(out) = r
    <3> HIDE DEF out
    <3> QED BY <2>4, KindsOfRanks
  <2> QED BY <2>3, <2>5
<1> HIDE DEF rank
<1>5. PICK s, src : s = As(v.data) /\ src = As(value.data)
  OBVIOUS
<1>6. s \in Seq({s[i] : i \in 1..n}) /\ Len(s) = n
  BY <1>2, <1>5
<1>7. Len(src) = Len(value.data) /\ \A i \in 1..Len(value.data) : src[i] = Coerce(value.data[i], rank)
  BY <1>2, <1>5
<1>8. PICK E : s \in Seq(E) /\ NA \in E
  <2>1. s \in Seq({s[i] : i \in 1..n} \cup {NA})
    BY <1>6, SeqMonotonic
  <2> QED BY <2>1
<1>9. PICK there \in Seq(E) : there = Pad(s, grow, NA) /\ Len(there) = grow
  <2>1. grow \in Nat /\ n <= grow
    BY PlanParts
  <2> HIDE DEF grow
  <2>2. Pad(s, grow, NA) \in Seq(E) /\ Len(Pad(s, grow, NA)) = grow
    BY <1>6, <1>8, <2>1, Stretched
  <2> QED BY <2>2
<1>10. there \in Seq(E) /\ plan.pos \in Seq(Nat) /\ plan.pos[k] \in 1..Len(there)
  <2>1. \A j \in 1..Len(plan.pos) : plan.pos[j] \in 1..grow
    BY PlanParts
  <2> QED BY <1>9, <2>1, PlanParts
<1>11. Splice(there, plan.pos, src)[plan.pos[k]] = src[((k - 1) % Len(src)) + 1]
  <2>1. PICK pos \in Seq(Nat), dst \in Seq(E) : pos = plan.pos /\ dst = there
    BY <1>10
  <2>2. pos \in Seq(Nat) /\ dst \in Seq(E) /\ k \in 1..Len(pos) /\ pos[k] \in 1..Len(dst)
        /\ \A j \in 1..Len(pos) : j > k => pos[j] # pos[k]
    BY <1>10, <2>1 DEF LastThere
  <2>3. Splice(dst, pos, src)[pos[k]] = src[((k - 1) % Len(src)) + 1]
    BY ONLY <2>2, SplicedAt
  <2> QED BY <2>1, <2>3
<1>12. Turn(value, k) \in 1..Len(value.data)
  <2>1. PICK m \in Nat \ {0}, j \in Nat : m = Len(value.data) /\ j = k - 1
    <3>1. k - 1 \in Nat
      BY <1>10
    <3> QED BY <1>3, <3>1
  <2>2. (j % m) + 1 \in 1..m
    OBVIOUS
  <2> QED BY <2>1, <2>2 DEF Turn
<1>13. src[Turn(value, k)] = Coerce(value.data[Turn(value, k)], rank)
  BY <1>7, <1>12
<1>14. out.data = Splice(there, plan.pos, src)
  <2> HIDE DEF out
  <2> QED BY <1>1, <1>5, <1>9
<1>15. out.data[plan.pos[k]] = src[Turn(value, k)]
  BY <1>7, <1>11, <1>14 DEF Turn
<1> QED BY <1>4, <1>13, <1>15

LEMMA ListWritten ==
    ASSUME NEW v, Formed(v), NEW plan, PlanFor(v, plan), NEW value, Formed(value), NEW single,
           single \/ value.data # <<>>, NEW k \in 1..Len(plan.pos), LastThere(plan, k)
    PROVE  WriteList(v, plan, value, single).data[plan.pos[k]] =
             IF single THEN Box(value) ELSE Elements(value)[Turn(value, k)]
<1> DEFINE n == Len(v.data)
           grow == Reach(plan, n)
           src == IF single THEN <<Box(value)>> ELSE Elements(value)
           out == WriteList(v, plan, value, single)
<1>1. out.data = Splice(Pad(Elements(v), grow, Box(NULL)), plan.pos, src)
  BY DEF WriteList, CopyAttrs, Named, V
<1>2. n \in Nat
  BY FormedParts
<1>3. PICK s, nothing : s = Elements(v) /\ nothing = Box(NULL)
  OBVIOUS
<1>4. s \in Seq({s[i] : i \in 1..n}) /\ Len(s) = n
  BY <1>3, ElementsOf
<1>5. PICK E : s \in Seq(E) /\ nothing \in E
  <2>1. s \in Seq({s[i] : i \in 1..n} \cup {nothing})
    BY <1>4, SeqMonotonic
  <2> QED BY <2>1
<1>6. PICK there \in Seq(E) : there = Pad(s, grow, nothing) /\ Len(there) = grow
  <2>1. grow \in Nat /\ n <= grow
    BY PlanParts
  <2> HIDE DEF grow
  <2>2. Pad(s, grow, nothing) \in Seq(E) /\ Len(Pad(s, grow, nothing)) = grow
    BY <1>4, <1>5, <2>1, Stretched
  <2> QED BY <2>2
<1>7. there \in Seq(E) /\ plan.pos \in Seq(Nat) /\ plan.pos[k] \in 1..Len(there)
  <2>1. \A j \in 1..Len(plan.pos) : plan.pos[j] \in 1..grow
    BY PlanParts
  <2> QED BY <1>6, <2>1, PlanParts
<1> HIDE DEF src, out, grow
<1>8. Splice(there, plan.pos, src)[plan.pos[k]] = src[((k - 1) % Len(src)) + 1]
  <2>1. PICK pos \in Seq(Nat), dst \in Seq(E) : pos = plan.pos /\ dst = there
    BY <1>7
  <2>2. pos \in Seq(Nat) /\ dst \in Seq(E) /\ k \in 1..Len(pos) /\ pos[k] \in 1..Len(dst)
        /\ \A j \in 1..Len(pos) : j > k => pos[j] # pos[k]
    BY <1>7, <2>1 DEF LastThere
  <2>3. Splice(dst, pos, src)[pos[k]] = src[((k - 1) % Len(src)) + 1]
    BY ONLY <2>2, SplicedAt
  <2> QED BY <2>1, <2>3
<1>9. out.data[plan.pos[k]] = src[((k - 1) % Len(src)) + 1]
  BY <1>1, <1>3, <1>6, <1>8
<1>10. CASE single
  <2>1. PICK b : b = Box(value)
    OBVIOUS
  <2>2. src = <<b>>
    BY <1>10, <2>1 DEF src
  <2>3. Len(src) = 1 /\ src[1] = b
    BY ONLY <2>2
  <2>4. (k - 1) % 1 = 0
    <3>1. PICK j \in Nat : j = k - 1
      BY <1>7
    <3>2. j % 1 = 0
      OBVIOUS
    <3> QED BY <3>1, <3>2
  <2> QED BY <1>9, <1>10, <2>1, <2>3, <2>4 DEF out
<1>11. CASE ~single
  <2>1. src = Elements(value) /\ Len(src) = Len(value.data)
    BY <1>11, ElementsOf DEF src
  <2> QED BY <1>9, <1>11, <2>1 DEF out, Turn
<1> QED BY <1>10, <1>11

\* A rebuilt vector holds what is written where it is selected, over and over: for
\* every vector, plan and value, in the type of the result, the later of two elements
\* written to one place; a single subscript into a list takes the whole value.
THEOREM SelectedAreWritten ==
    ASSUME NEW v, Formed(v), NEW plan, PlanFor(v, plan), NEW value, Formed(value), NEW single,
           WritesList(v, value, single) => value.kind # "Null",
           value.data # <<>> \/ (single /\ WritesList(v, value, single)),
           NEW k \in 1..Len(plan.pos), LastThere(plan, k)
    PROVE  LET out == Rebuild(v, plan, value, single)
           IN  out.data[plan.pos[k]] =
                 IF ~WritesList(v, value, single) THEN Coerce(value.data[Turn(value, k)], Rank(out))
                 ELSE IF single THEN Box(value) ELSE Elements(value)[Turn(value, k)]
<1>1. CASE ~WritesList(v, value, single)
  <2>1. v.kind # "List" /\ value.kind # "List" /\ value.data # <<>>
    BY <1>1 DEF WritesList
  <2>2. Rebuild(v, plan, value, single) = WriteAtomic(v, plan, value)
    BY <1>1 DEF Rebuild
  <2>3. PICK out : out = WriteAtomic(v, plan, value)
    OBVIOUS
  <2>4. out.data[plan.pos[k]] = Coerce(value.data[Turn(value, k)], Rank(out))
    BY <2>1, <2>3, AtomicWritten
  <2> QED BY <1>1, <2>2, <2>3, <2>4
<1>2. CASE WritesList(v, value, single)
  <2>1. Rebuild(v, plan, value, single) = WriteList(v, plan, value, single)
    BY <1>2 DEF Rebuild
  <2>2. WriteList(v, plan, value, single).data[plan.pos[k]] =
             IF single THEN Box(value) ELSE Elements(value)[Turn(value, k)]
    BY <1>2, ListWritten
  <2> QED BY <1>2, <2>1, <2>2
<1> QED BY <1>1, <1>2

-----------------------------------------------------------------------------
(* Folds: the state after each element, and its type *)

\* The largest of some of the first numbers.
LEMMA MaxWithin ==
    ASSUME NEW n \in Nat, NEW S, S \subseteq 1..n, S # {}
    PROVE  Max(S) \in S /\ Max(S) \in 1..n /\ \A a \in S : a <= Max(S)
<1>1. \A a \in S : a <= n
  OBVIOUS
<1>2. S \subseteq Nat
  OBVIOUS
<1>3. Max(S) \in S /\ \A a \in S : a <= Max(S)
  BY <1>1, <1>2, MaxOf
<1> QED BY <1>3

\* The function a fold over the first n places runs through.
Folds(step, b, s, n, g) ==
    g = [S \in SUBSET (1..n) |-> IF S = {} THEN b ELSE step[g[S \ {Max(S)}]][s[Max(S)]]]

\* There is one, and it stays in its set of states.
LEMMA FoldsExist ==
    ASSUME NEW D, NEW E, NEW step, \A a \in D, e \in E : step[a][e] \in D,
           NEW b \in D, NEW n \in Nat, NEW s, \A i \in 1..n : s[i] \in E
    PROVE  \E g : Folds(step, b, s, n, g) /\ \A S \in SUBSET (1..n) : g[S] \in D
<1> DEFINE Typed(m, g) == Folds(step, b, s, m, g) /\ \A S \in SUBSET (1..m) : g[S] \in D
           T == {m \in Nat : m <= n => \E g : Typed(m, g)}
<1>1. 0 \in T
  <2> DEFINE g == [S \in SUBSET (1..0) |-> b]
  <2>1. \A S \in SUBSET (1..0) : S = {}
    OBVIOUS
  <2>2. Typed(0, g)
    BY <2>1 DEF Folds
  <2> QED BY <2>2
<1>2. ASSUME NEW m \in Nat, m \in T PROVE m + 1 \in T
  <2> SUFFICES ASSUME m + 1 <= n PROVE \E g : Typed(m + 1, g)
    OBVIOUS
  <2>1. PICK g : Typed(m, g)
    BY <1>2
  <2> DEFINE h == [S \in SUBSET (1..(m + 1)) |->
                      IF S = {} THEN b ELSE step[g[S \ {Max(S)}]][s[Max(S)]]]
  <2>2. ASSUME NEW S \in SUBSET (1..(m + 1)), S # {}
        PROVE  S \ {Max(S)} \in SUBSET (1..m) /\ s[Max(S)] \in E
    <3>1. Max(S) \in S /\ \A e \in S : e <= Max(S)
      <4>1. m + 1 \in Nat /\ S \subseteq 1..(m + 1)
        OBVIOUS
      <4> QED BY <2>2, <4>1, MaxWithin
    <3>2. ASSUME NEW e \in S, e # Max(S) PROVE e \in 1..m
      <4>1. PICK k : k = Max(S)
        OBVIOUS
      <4>2. e \in 1..(m + 1) /\ k \in 1..(m + 1) /\ e <= k /\ e # k
        BY <3>1, <3>2, <4>1
      <4> QED BY ONLY <4>2, m \in Nat
    <3>3. Max(S) \in 1..n
      <4>1. PICK k : k = Max(S)
        OBVIOUS
      <4>2. k \in 1..(m + 1) /\ m + 1 <= n
        BY <3>1, <4>1
      <4>3. k \in 1..n
        BY ONLY <4>2, m \in Nat, n \in Nat
      <4> QED BY <4>1, <4>3
    <3> QED BY <3>2, <3>3
  <2>3. ASSUME NEW S \in SUBSET (1..m) PROVE h[S] = g[S]
    <3>1. S \in SUBSET (1..(m + 1))
      BY <2>3
    <3>2. g[S] = IF S = {} THEN b ELSE step[g[S \ {Max(S)}]][s[Max(S)]]
      BY <2>1 DEF Folds
    <3> QED BY <3>1, <3>2
  <2>4. h = [S \in SUBSET (1..(m + 1)) |->
                IF S = {} THEN b ELSE step[h[S \ {Max(S)}]][s[Max(S)]]]
    <3>1. \A S \in SUBSET (1..(m + 1)) : S # {} => h[S \ {Max(S)}] = g[S \ {Max(S)}]
      BY <2>2, <2>3
    <3> QED BY <3>1
  <2>5. ASSUME NEW S \in SUBSET (1..(m + 1)) PROVE h[S] \in D
    <3>1. CASE S = {}
      BY <3>1
    <3>2. CASE S # {}
      <4>1. h[S] = step[g[S \ {Max(S)}]][s[Max(S)]]
        BY <3>2
      <4>2. g[S \ {Max(S)}] \in D /\ s[Max(S)] \in E
        BY <2>1, <2>2, <3>2
      <4> QED BY <4>1, <4>2
    <3> QED BY <3>1, <3>2
  <2> HIDE DEF h
  <2>6. Folds(step, b, s, m + 1, h)
    BY <2>4 DEF Folds
  <2> QED BY <2>5, <2>6
<1>3. Nat \subseteq T
  <2> HIDE DEF T
  <2> QED BY <1>1, <1>2, SetInduction
<1> QED BY <1>3

\* What such a function takes on the places up to the k-th: the states of the fold.
Run(step, b, s, r) ==
    /\ r[0] = b
    /\ \A k \in 1..Len(s) : r[k] = step[r[k - 1]][s[k]]

\* A function that folds step over s, as far as it is defined.
FoldsTo(D, E, step, b, s, f) ==
    /\ \A a \in D, e \in E : step[a][e] \in D
    /\ b \in D /\ s \in Seq(E) /\ f[{}] = b
    /\ \A S \in SUBSET (1..Len(s)) :
         S # {} /\ f[S \ {Max(S)}] \in D => f[S] = step[f[S \ {Max(S)}]][s[Max(S)]]

\* What is chosen for a fold is what its states run to.
LEMMA FoldRuns ==
    ASSUME NEW D, NEW E, NEW step, NEW b, NEW s, NEW f, FoldsTo(D, E, step, b, s, f)
    PROVE  \E r \in [0..Len(s) -> D] : Run(step, b, s, r) /\ f[1..Len(s)] = r[Len(s)]
<1> DEFINE n == Len(s)
           r == [k \in 0..n |-> f[1..k]]
           T == {k \in Nat : k <= n => f[1..k] \in D /\ (k > 0 => f[1..k] = step[f[1..(k - 1)]][s[k]])}
<1>1. /\ \A a \in D, e \in E : step[a][e] \in D
      /\ b \in D /\ s \in Seq(E) /\ f[{}] = b
      /\ \A S \in SUBSET (1..n) :
           S # {} /\ f[S \ {Max(S)}] \in D => f[S] = step[f[S \ {Max(S)}]][s[Max(S)]]
  BY DEF FoldsTo
<1>2. n \in Nat /\ \A k \in 1..n : s[k] \in E
  BY <1>1
<1>3. 0 \in T
  <2>1. 1..0 = {} /\ f[{}] \in D
    BY <1>1
  <2> QED BY <2>1
<1>4. ASSUME NEW k \in Nat, k \in T PROVE k + 1 \in T
  <2> SUFFICES ASSUME k + 1 <= n
               PROVE  f[1..(k + 1)] \in D /\ f[1..(k + 1)] = step[f[1..(k + 1 - 1)]][s[k + 1]]
    OBVIOUS
  <2>1. f[1..k] \in D
    BY <1>2, <1>4
  <2>2. 1..(k + 1) \in SUBSET (1..n) /\ 1..(k + 1) # {}
    <3>1. \A j \in 1..(k + 1) : j \in 1..n
      BY <1>2
    <3>2. 1 \in 1..(k + 1)
      OBVIOUS
    <3> QED BY <3>1, <3>2
  <2>3. Max(1..(k + 1)) = k + 1
    <3>1. k + 1 \in Nat /\ 1..(k + 1) \subseteq 1..(k + 1)
      OBVIOUS
    <3>2. Max(1..(k + 1)) \in 1..(k + 1) /\ \A y \in 1..(k + 1) : y <= Max(1..(k + 1))
      BY <2>2, <3>1, MaxWithin
    <3> QED BY <3>2
  <2>4. (1..(k + 1)) \ {k + 1} = 1..k
    OBVIOUS
  <2>5. f[1..(k + 1)] = step[f[1..k]][s[k + 1]]
    BY <1>1, <2>1, <2>2, <2>3, <2>4
  <2>6. s[k + 1] \in E
    BY <1>2
  <2>7. k + 1 - 1 = k
    OBVIOUS
  <2> QED BY <1>1, <2>1, <2>5, <2>6, <2>7
<1>5. Nat \subseteq T
  <2> HIDE DEF T
  <2> QED BY <1>3, <1>4, SetInduction
<1>6. \A k \in 0..n : f[1..k] \in D /\ (k > 0 => f[1..k] = step[f[1..(k - 1)]][s[k]])
  BY <1>2, <1>5
<1>7. r \in [0..n -> D]
  BY <1>6
<1>8. Run(step, b, s, r)
  <2>1. r[0] = b
    <3>1. 1..0 = {} /\ 0 \in 0..n /\ f[{}] = b
      BY <1>1, <1>2
    <3> QED BY <3>1
  <2>2. \A k \in 1..n : k \in 0..n /\ k - 1 \in 0..n /\ k > 0
    BY <1>2
  <2> QED BY <1>6, <2>1, <2>2 DEF Run
<1>9. f[1..n] = r[n]
  BY <1>2
<1> HIDE DEF r
<1> QED BY <1>7, <1>8, <1>9

-----------------------------------------------------------------------------
(* Products and linear positions *)

\* A product, from the first factor to the last.
LEMMA ProductRuns ==
    ASSUME NEW s \in Seq(Nat)
    PROVE  \E r \in [0..Len(s) -> Nat] :
             /\ r[0] = 1 /\ (\A k \in 1..Len(s) : r[k] = r[k - 1] * s[k])
             /\ Product(s) = r[Len(s)]
<1> DEFINE n == Len(s)
           Chosen(g) == g = [S \in SUBSET (DOMAIN s) |-> IF S = {} THEN 1 ELSE g[S \ {Max(S)}] * s[Max(S)]]
           step == [a \in Nat |-> [e \in Nat |-> a * e]]
<1>1. Product(s) = (CHOOSE g : Chosen(g))[DOMAIN s]
  <2>1. Product(s) = FoldLeft(LAMBDA a, b : a * b, 1, s)
    BY DEF Product
  <2>2. FoldLeft(LAMBDA a, b : a * b, 1, s)
          = MapThenFoldSet(LAMBDA a, b : b * a, 1, LAMBDA i : s[i], LAMBDA S : Max(S), DOMAIN s)
    BY DEF FoldLeft
  <2>3. MapThenFoldSet(LAMBDA a, b : b * a, 1, LAMBDA i : s[i], LAMBDA S : Max(S), DOMAIN s)
          = (CHOOSE g : Chosen(g))[DOMAIN s]
    BY DEF MapThenFoldSet
  <2> QED BY <2>1, <2>2, <2>3
<1>2. DOMAIN s = 1..n /\ n \in Nat /\ \A k \in 1..n : s[k] \in Nat
  OBVIOUS
<1>3. \A a \in Nat, e \in Nat : step[a][e] = a * e /\ step[a][e] \in Nat
  OBVIOUS
<1> HIDE DEF step
<1>4. \A S \in SUBSET (1..n) : S # {} => Max(S) \in 1..n
  BY <1>2, MaxWithin
<1>5. PICK g : Folds(step, 1, s, n, g) /\ \A S \in SUBSET (1..n) : g[S] \in Nat
  <2>1. \A a \in Nat, e \in Nat : step[a][e] \in Nat
    BY <1>3
  <2>2. 1 \in Nat /\ n \in Nat /\ \A i \in 1..n : s[i] \in Nat
    BY <1>2
  <2> HIDE DEF n
  <2> QED BY <2>1, <2>2, FoldsExist
<1>6. Chosen(g)
  <2>1. g = [S \in SUBSET (1..n) |-> IF S = {} THEN 1 ELSE step[g[S \ {Max(S)}]][s[Max(S)]]]
    BY <1>5 DEF Folds
  <2>2. \A S \in SUBSET (1..n) : S # {} => step[g[S \ {Max(S)}]][s[Max(S)]] = g[S \ {Max(S)}] * s[Max(S)]
    BY <1>2, <1>3, <1>4, <1>5
  <2> QED BY <1>2, <2>1, <2>2
<1>7. PICK f : f = (CHOOSE h : Chosen(h))
  OBVIOUS
<1>8. Chosen(f)
  BY <1>6, <1>7
<1>9. ASSUME NEW S \in SUBSET (1..n), S # {}, f[S \ {Max(S)}] \in Nat
      PROVE  f[S] = step[f[S \ {Max(S)}]][s[Max(S)]]
  <2>1. f[S] = f[S \ {Max(S)}] * s[Max(S)]
    BY <1>2, <1>8, <1>9
  <2>2. s[Max(S)] \in Nat
    BY <1>2, <1>4, <1>9
  <2> QED BY <1>3, <1>9, <2>1, <2>2
<1>10. f[{}] = 1
  BY <1>2, <1>8
<1>11. FoldsTo(Nat, Nat, step, 1, s, f)
  BY <1>3, <1>9, <1>10 DEF FoldsTo
<1>12. PICK r \in [0..n -> Nat] : Run(step, 1, s, r) /\ f[1..n] = r[n]
  BY <1>11, FoldRuns
<1>13. \A k \in 1..n : r[k] = r[k - 1] * s[k]
  <2>1. ASSUME NEW k \in 1..n PROVE r[k] = r[k - 1] * s[k]
    <3>1. k - 1 \in 0..n
      BY <1>2
    <3>2. r[k - 1] \in Nat /\ s[k] \in Nat
      BY <1>2, <3>1
    <3> QED BY <1>3, <1>12, <3>2 DEF Run
  <2> QED BY <2>1
<1>14. r[0] = 1
  BY <1>12 DEF Run
<1>15. Product(s) = r[n]
  BY <1>1, <1>2, <1>7, <1>12
<1> QED BY <1>13, <1>14, <1>15

\* The product of each of its beginnings.
LEMMA Products ==
    ASSUME NEW s, s \in Seq(Nat)
    PROVE  \E r \in [0..Len(s) -> Nat] :
             /\ r[0] = 1 /\ (\A k \in 1..Len(s) : r[k] = r[k - 1] * s[k])
             /\ (\A k \in 0..Len(s) : Product(SubSeq(s, 1, k)) = r[k])
             /\ Product(s) = r[Len(s)]
<1> DEFINE n == Len(s)
<1>1. n \in Nat /\ \A k \in 1..n : s[k] \in Nat
  OBVIOUS
<1>2. PICK r \in [0..n -> Nat] :
             /\ r[0] = 1 /\ (\A k \in 1..n : r[k] = r[k - 1] * s[k])
             /\ Product(s) = r[n]
  BY ProductRuns
<1>3. ASSUME NEW k \in 0..n PROVE Product(SubSeq(s, 1, k)) = r[k]
  <2> DEFINE p == SubSeq(s, 1, k)
  <2>1. p \in Seq(Nat) /\ Len(p) = k /\ \A j \in 1..k : p[j] = s[j]
    BY <1>1
  <2> HIDE DEF p
  <2>2. PICK q \in [0..k -> Nat] :
             /\ q[0] = 1 /\ (\A j \in 1..k : q[j] = q[j - 1] * p[j])
             /\ Product(p) = q[k]
    BY <2>1, ProductRuns
  <2> DEFINE T == {j \in Nat : j <= k => q[j] = r[j]}
  <2>3. 0 \in T
    BY <1>2, <2>2
  <2>4. ASSUME NEW j \in Nat, j \in T PROVE j + 1 \in T
    <3> SUFFICES ASSUME j + 1 <= k PROVE q[j + 1] = r[j + 1]
      OBVIOUS
    <3>1. j + 1 \in 1..k /\ j + 1 \in 1..n /\ j + 1 - 1 = j
      BY <1>1
    <3>2. q[j + 1] = q[j] * p[j + 1] /\ r[j + 1] = r[j] * s[j + 1]
      BY <1>2, <2>2, <3>1
    <3>3. q[j] = r[j]
      BY <2>4
    <3>4. p[j + 1] = s[j + 1]
      BY <2>1, <3>1
    <3> QED BY <3>2, <3>3, <3>4
  <2>5. Nat \subseteq T
    <3> HIDE DEF T
    <3> QED BY <2>3, <2>4, SetInduction
  <2> QED BY <2>2, <2>5 DEF p
<1> QED BY <1>2, <1>3

LEMMA Grows ==
    ASSUME NEW a \in Nat, NEW b \in Nat, NEW c \in Nat, a <= b
    PROVE  a * c <= b * c /\ a * c \in Nat /\ b * c \in Nat
OBVIOUS

\* Short products.
LEMMA ProductOfNone == Product(<<>>) = 1
<1>1. <<>> \in Seq(Nat) /\ Len(<<>>) = 0
  OBVIOUS
<1> QED BY <1>1, ProductRuns

LEMMA ProductOfOne ==
    ASSUME NEW a \in Nat
    PROVE  Product(<<a>>) = a
<1>1. <<a>> \in Seq(Nat) /\ Len(<<a>>) = 1 /\ <<a>>[1] = a
  OBVIOUS
<1>2. PICK s : s = <<a>>
  OBVIOUS
<1>3. PICK r \in [0..Len(s) -> Nat] :
             /\ r[0] = 1 /\ (\A k \in 1..Len(s) : r[k] = r[k - 1] * s[k])
             /\ Product(s) = r[Len(s)]
  BY <1>1, <1>2, ProductRuns
<1>4. r[1] = r[0] * a
  BY <1>1, <1>2, <1>3
<1> QED BY <1>1, <1>2, <1>3, <1>4

LEMMA ProductOfTwo ==
    ASSUME NEW a \in Nat, NEW b \in Nat
    PROVE  Product(<<a, b>>) = a * b
<1>1. <<a, b>> \in Seq(Nat) /\ Len(<<a, b>>) = 2 /\ <<a, b>>[1] = a /\ <<a, b>>[2] = b
  OBVIOUS
<1>2. PICK s : s = <<a, b>>
  OBVIOUS
<1>3. PICK r \in [0..Len(s) -> Nat] :
             /\ r[0] = 1 /\ (\A k \in 1..Len(s) : r[k] = r[k - 1] * s[k])
             /\ Product(s) = r[Len(s)]
  BY <1>1, <1>2, ProductRuns
<1>4. r[1] = r[0] * a /\ r[2] = r[1] * b
  BY <1>1, <1>2, <1>3
<1>5. r[1] = a
  BY <1>3, <1>4
<1> QED BY <1>1, <1>2, <1>3, <1>4, <1>5

\* A sum.
Total(s) == FoldLeft(+, 0, s)
\* A sum, from the first term to the last.
LEMMA SumRuns ==
    ASSUME NEW s \in Seq(Nat)
    PROVE  \E r \in [0..Len(s) -> Nat] :
             /\ r[0] = 0 /\ (\A k \in 1..Len(s) : r[k] = r[k - 1] + s[k])
             /\ Total(s) = r[Len(s)]
<1> DEFINE n == Len(s)
           Chosen(g) == g = [S \in SUBSET (DOMAIN s) |-> IF S = {} THEN 0 ELSE g[S \ {Max(S)}] + s[Max(S)]]
           step == [a \in Nat |-> [e \in Nat |-> a + e]]
<1>1. Total(s) = (CHOOSE g : Chosen(g))[DOMAIN s]
  <2>1. FoldLeft(+, 0, s)
          = MapThenFoldSet(LAMBDA a, b : b + a, 0, LAMBDA i : s[i], LAMBDA S : Max(S), DOMAIN s)
    BY DEF FoldLeft
  <2>2. MapThenFoldSet(LAMBDA a, b : b + a, 0, LAMBDA i : s[i], LAMBDA S : Max(S), DOMAIN s)
          = (CHOOSE g : Chosen(g))[DOMAIN s]
    BY DEF MapThenFoldSet
  <2> QED BY <2>1, <2>2 DEF Total
<1>2. DOMAIN s = 1..n /\ n \in Nat /\ \A k \in 1..n : s[k] \in Nat
  OBVIOUS
<1>3. \A a \in Nat, e \in Nat : step[a][e] = a + e /\ step[a][e] \in Nat
  OBVIOUS
<1> HIDE DEF step
<1>4. \A S \in SUBSET (1..n) : S # {} => Max(S) \in 1..n
  BY <1>2, MaxWithin
<1>5. PICK g : Folds(step, 0, s, n, g) /\ \A S \in SUBSET (1..n) : g[S] \in Nat
  <2>1. \A a \in Nat, e \in Nat : step[a][e] \in Nat
    BY <1>3
  <2>2. 0 \in Nat /\ n \in Nat /\ \A i \in 1..n : s[i] \in Nat
    BY <1>2
  <2> HIDE DEF n
  <2> QED BY <2>1, <2>2, FoldsExist
<1>6. Chosen(g)
  <2>1. g = [S \in SUBSET (1..n) |-> IF S = {} THEN 0 ELSE step[g[S \ {Max(S)}]][s[Max(S)]]]
    BY <1>5 DEF Folds
  <2>2. \A S \in SUBSET (1..n) : S # {} => step[g[S \ {Max(S)}]][s[Max(S)]] = g[S \ {Max(S)}] + s[Max(S)]
    BY <1>2, <1>3, <1>4, <1>5
  <2> QED BY <1>2, <2>1, <2>2
<1>7. PICK f : f = (CHOOSE h : Chosen(h))
  OBVIOUS
<1>8. Chosen(f)
  BY <1>6, <1>7
<1>9. ASSUME NEW S \in SUBSET (1..n), S # {}, f[S \ {Max(S)}] \in Nat
      PROVE  f[S] = step[f[S \ {Max(S)}]][s[Max(S)]]
  <2>1. f[S] = f[S \ {Max(S)}] + s[Max(S)]
    BY <1>2, <1>8, <1>9
  <2>2. s[Max(S)] \in Nat
    BY <1>2, <1>4, <1>9
  <2> QED BY <1>3, <1>9, <2>1, <2>2
<1>10. f[{}] = 0
  BY <1>2, <1>8
<1>11. FoldsTo(Nat, Nat, step, 0, s, f)
  BY <1>3, <1>9, <1>10 DEF FoldsTo
<1>12. PICK r \in [0..n -> Nat] : Run(step, 0, s, r) /\ f[1..n] = r[n]
  BY <1>11, FoldRuns
<1>13. \A k \in 1..n : r[k] = r[k - 1] + s[k]
  <2>1. ASSUME NEW k \in 1..n PROVE r[k] = r[k - 1] + s[k]
    <3>1. k - 1 \in 0..n
      BY <1>2
    <3>2. r[k - 1] \in Nat /\ s[k] \in Nat
      BY <1>2, <3>1
    <3> QED BY <1>3, <1>12, <3>2 DEF Run
  <2> QED BY <2>1
<1>14. r[0] = 0
  BY <1>12 DEF Run
<1>15. Total(s) = r[n]
  BY <1>1, <1>2, <1>7, <1>12
<1> QED BY <1>13, <1>14, <1>15

\* A position within every dimension is one of the cells.
LEMMA LinearWithin ==
    ASSUME NEW dims, dims \in Seq(Nat), NEW at, at \in Seq(Nat), Len(at) = Len(dims),
           \A k \in 1..Len(dims) : at[k] <= dims[k]
    PROVE  /\ Linear(dims, at) \in 0..Product(dims)
           /\ (\A k \in 1..Len(dims) : at[k] # 0) => Linear(dims, at) # 0
<1> DEFINE n == Len(dims)
           terms == [k \in DOMAIN at |-> (at[k] - 1) * Stride(dims, k)]
<1>1. /\ n \in Nat /\ DOMAIN at = 1..n /\ \A k \in 1..n : dims[k] \in Nat /\ at[k] \in Nat
  OBVIOUS
<1>2. PICK r \in [0..n -> Nat] :
             /\ r[0] = 1 /\ (\A k \in 1..n : r[k] = r[k - 1] * dims[k])
             /\ (\A k \in 0..n : Product(SubSeq(dims, 1, k)) = r[k])
             /\ Product(dims) = r[n]
  BY Products
<1>3. CASE \E k \in DOMAIN at : at[k] = 0
  <2>1. Linear(dims, at) = 0
    BY <1>3 DEF Linear
  <2>2. r[n] \in Nat
    BY <1>1
  <2> QED BY <1>1, <1>2, <1>3, <2>1, <2>2
<1>4. CASE ~\E k \in DOMAIN at : at[k] = 0
  <2>1. Linear(dims, at) = 1 + Total(terms)
    BY <1>4 DEF Linear, Total
  <2>2. \A k \in 1..n : at[k] - 1 \in Nat /\ at[k] - 1 + 1 = at[k]
    BY <1>1, <1>4, SMTT(30)
  <2>3. ASSUME NEW k \in 1..n PROVE terms[k] = (at[k] - 1) * r[k - 1] /\ terms[k] \in Nat
    <3>1. k - 1 \in 0..n
      BY <1>1
    <3>2. Stride(dims, k) = r[k - 1] /\ r[k - 1] \in Nat
      BY <1>2, <3>1 DEF Stride
    <3> QED BY <1>1, <2>2, <3>2, SMTT(30)
  <2>4. terms \in Seq(Nat) /\ Len(terms) = n
    BY <1>1, <2>3
  <2> HIDE DEF terms
  <2>5. PICK q \in [0..n -> Nat] :
             /\ q[0] = 0 /\ (\A k \in 1..n : q[k] = q[k - 1] + terms[k])
             /\ Total(terms) = q[n]
    BY <2>4, SumRuns
  <2> DEFINE T == {k \in Nat : k <= n => q[k] < r[k]}
  <2>6. 0 \in T
    BY <1>2, <2>5
  <2>7. ASSUME NEW k \in Nat, k \in T PROVE k + 1 \in T
    <3> SUFFICES ASSUME k + 1 <= n PROVE q[k + 1] < r[k + 1]
      OBVIOUS
    <3>1. k + 1 \in 1..n /\ k + 1 - 1 = k /\ k \in 0..n
      BY <1>1
    <3>2. q[k + 1] = q[k] + (at[k + 1] - 1) * r[k] /\ r[k + 1] = r[k] * dims[k + 1]
      BY <1>2, <2>3, <2>5, <3>1
    <3>3. q[k] \in Nat /\ r[k] \in Nat /\ q[k] < r[k]
      <4>1. q[k] \in Nat
        BY <2>5, <3>1
      <4>2. r[k] \in Nat
        BY <1>2, <3>1
      <4>3. k <= n
        BY <1>1
      <4> QED BY <2>7, <4>1, <4>2, <4>3
    <3>4. PICK a \in Nat : a = at[k + 1] - 1
      BY <2>2, <3>1
    <3>5. a + 1 <= dims[k + 1] /\ dims[k + 1] \in Nat
      BY <1>1, <2>2, <3>1, <3>4
    <3>6. PICK before \in Nat, size \in Nat, long \in Nat :
               before = q[k] /\ size = r[k] /\ long = dims[k + 1]
      BY <3>3, <3>5
    <3>7. before < size /\ a + 1 <= long /\ a \in Nat /\ before \in Nat /\ size \in Nat /\ long \in Nat
      BY <3>3, <3>5, <3>6
    <3>8. (a + 1) * size <= long * size
      <4>1. a + 1 \in Nat
        BY ONLY <3>7
      <4> QED BY ONLY <3>7, <4>1, Grows
    <3>9. before + a * size < size * long
      <4>1. (a + 1) * size = a * size + size /\ long * size = size * long /\ a * size \in Nat
        BY ONLY <3>7
      <4> QED BY ONLY <3>7, <3>8, <4>1
    <3>10. q[k + 1] = before + a * size /\ r[k + 1] = size * long
      BY <3>2, <3>4, <3>6
    <3> QED BY <3>9, <3>10
  <2>8. Nat \subseteq T
    <3> HIDE DEF T
    <3> QED BY <2>6, <2>7, SetInduction
  <2>9. q[n] < r[n] /\ q[n] \in Nat /\ r[n] \in Nat
    BY <1>1, <2>8
  <2> QED BY <1>2, <2>1, <2>5, <2>9
<1> QED BY <1>3, <1>4

-----------------------------------------------------------------------------
(* The numbers of a set in order *)

LEMMA LeastOf ==
    ASSUME NEW S, S \subseteq Nat, NEW a, a \in S, \A b \in S : a <= b
    PROVE  Min(S) = a
<1>1. Min(S) \in S /\ \A b \in S : Min(S) <= b
  BY DEF Min
<1>2. Min(S) <= a /\ a <= Min(S) /\ Min(S) \in Nat /\ a \in Nat
  BY <1>1
<1> QED BY <1>2

\* How many of the numbers are no greater.
Upto(S, n) == Cardinality({m \in S : m <= n})

\* The k-th of the numbers is the least that has k of them no greater.
LEMMA InOrder ==
    ASSUME NEW m \in Nat, NEW S, S \subseteq 1..m
    PROVE  /\ IsFiniteSet(S) /\ Cardinality(S) \in Nat
           /\ DOMAIN Ascending(S) = 1..Cardinality(S)
           /\ \A k \in 1..Cardinality(S) :
                /\ {n \in S : Upto(S, n) >= k} # {}
                /\ Ascending(S)[k] \in {n \in S : Upto(S, n) >= k}
                /\ \A n \in S : Upto(S, n) >= k => Ascending(S)[k] <= n
<1>1. IsFiniteSet(S) /\ Cardinality(S) \in Nat
  <2>1. IsFiniteSet(1..m)
    BY FS_Interval
  <2>2. IsFiniteSet(S)
    BY <2>1, FS_Subset
  <2> QED BY <2>2, FS_CardinalityType
<1>2. Ascending(S) = [k \in 1..Cardinality(S) |-> Min({n \in S : Upto(S, n) >= k})]
  BY DEF Ascending, Upto
<1>3. ASSUME NEW k \in 1..Cardinality(S)
      PROVE  /\ {n \in S : Upto(S, n) >= k} # {}
             /\ Ascending(S)[k] \in {n \in S : Upto(S, n) >= k}
             /\ \A n \in S : Upto(S, n) >= k => Ascending(S)[k] <= n
  <2> DEFINE P == {n \in S : Upto(S, n) >= k}
  <2>1. S # {}
    <3>1. Cardinality({}) = 0
      BY FS_EmptySet
    <3> QED BY <1>1, <3>1
  <2>2. Max(S) \in S /\ \A a \in S : a <= Max(S)
    BY <2>1, MaxWithin
  <2>3. {n \in S : n <= Max(S)} = S
    BY <2>2
  <2>4. Upto(S, Max(S)) = Cardinality(S)
    BY <2>3 DEF Upto
  <2>5. Max(S) \in P
    BY <1>1, <2>2, <2>4
  <2>6. P \subseteq Nat
    <3>1. S \subseteq Nat
      OBVIOUS
    <3>2. P \subseteq S
      OBVIOUS
    <3> QED BY <3>1, <3>2
  <2>7. Ascending(S)[k] = Min(P)
    BY <1>2
  <2> HIDE DEF P
  <2>8. PICK a \in P : \A b \in P : a <= b
    BY <2>5, <2>6, LeastElement
  <2>9. Min(P) = a
    BY <2>6, <2>8, LeastOf
  <2>10. Ascending(S)[k] \in P /\ \A n \in P : Ascending(S)[k] <= n
    BY <2>7, <2>8, <2>9
  <2> QED BY <2>5, <2>10 DEF P
<1>4. DOMAIN Ascending(S) = 1..Cardinality(S)
  BY <1>2
<1> QED BY <1>1, <1>3, <1>4

\* A number greater than those of a set comes after them.
LEMMA OneMore ==
    ASSUME NEW m \in Nat, NEW S, S \subseteq 1..m
    PROVE  /\ Cardinality(S \cup {m + 1}) = Cardinality(S) + 1
           /\ \A k \in 1..Cardinality(S) : Ascending(S \cup {m + 1})[k] = Ascending(S)[k]
           /\ Ascending(S \cup {m + 1})[Cardinality(S) + 1] = m + 1
<1> DEFINE T == S \cup {m + 1}
           c == Cardinality(S)
<1>1. T \subseteq 1..(m + 1) /\ m + 1 \in Nat /\ m + 1 \notin S
  <2>1. \A a \in S : a \in 1..(m + 1) /\ a # m + 1
    OBVIOUS
  <2>2. m + 1 \in 1..(m + 1)
    OBVIOUS
  <2> QED BY <2>1, <2>2
<1>2. /\ IsFiniteSet(S) /\ c \in Nat
      /\ \A k \in 1..c :
           /\ {n \in S : Upto(S, n) >= k} # {}
           /\ Ascending(S)[k] \in {n \in S : Upto(S, n) >= k}
           /\ \A n \in S : Upto(S, n) >= k => Ascending(S)[k] <= n
  BY InOrder
<1>3. Cardinality(T) = c + 1
  BY <1>1, <1>2, FS_AddElement
<1>4. /\ IsFiniteSet(T)
      /\ \A k \in 1..(c + 1) :
           /\ Ascending(T)[k] \in {n \in T : Upto(T, n) >= k}
           /\ \A n \in T : Upto(T, n) >= k => Ascending(T)[k] <= n
  <2> HIDE DEF T, c
  <2>1. /\ IsFiniteSet(T)
        /\ \A k \in 1..Cardinality(T) :
             /\ Ascending(T)[k] \in {n \in T : Upto(T, n) >= k}
             /\ \A n \in T : Upto(T, n) >= k => Ascending(T)[k] <= n
    BY <1>1, InOrder
  <2> QED BY <1>3, <2>1
<1>5. ASSUME NEW n \in S PROVE Upto(T, n) = Upto(S, n) /\ n \in 1..m
  <2>1. {a \in T : a <= n} = {a \in S : a <= n}
    OBVIOUS
  <2> QED BY <2>1 DEF Upto
<1>6. \A n \in S : Upto(S, n) \in Nat /\ Upto(S, n) <= c
  <2>1. ASSUME NEW n \in S PROVE Upto(S, n) \in Nat /\ Upto(S, n) <= c
    <3>1. {a \in S : a <= n} \subseteq S
      OBVIOUS
    <3> QED BY <1>2, <3>1, FS_Subset, FS_CardinalityType DEF Upto
  <2> QED BY <2>1
<1>7. ASSUME NEW k \in 1..c PROVE Ascending(T)[k] = Ascending(S)[k]
  <2> DEFINE a == Ascending(S)[k]
             b == Ascending(T)[k]
  <2>1. a \in S /\ Upto(S, a) >= k /\ \A n \in S : Upto(S, n) >= k => a <= n
    BY <1>2
  <2>2. b \in T /\ Upto(T, b) >= k /\ \A n \in T : Upto(T, n) >= k => b <= n
    <3>1. k \in 1..(c + 1)
      BY <1>2
    <3> QED BY <1>4, <3>1
  <2> HIDE DEF a, b
  <2>3. b <= a
    <3>1. a \in T /\ Upto(T, a) >= k
      BY <1>5, <2>1
    <3> QED BY <2>2, <3>1
  <2>4. b \in S
    <3>1. a \in 1..m
      BY <2>1
    <3> QED BY <2>2, <2>3, <3>1
  <2>5. a <= b
    <3>1. Upto(S, b) >= k
      BY <1>5, <2>2, <2>4
    <3> QED BY <2>1, <2>4, <3>1
  <2>6. a \in Nat /\ b \in Nat
    BY <2>1, <2>4
  <2>7. a = b
    BY <2>3, <2>5, <2>6
  <2> QED BY <2>7 DEF a, b
<1>8. Ascending(T)[c + 1] = m + 1
  <2>1. c + 1 \in 1..(c + 1)
    BY <1>2
  <2>2. Ascending(T)[c + 1] \in T /\ Upto(T, Ascending(T)[c + 1]) >= c + 1
    BY <1>4, <2>1
  <2>3. Ascending(T)[c + 1] \notin S
    <3> SUFFICES ASSUME NEW n \in S, Upto(T, n) >= c + 1 PROVE FALSE
      BY <2>2
    <3>1. Upto(S, n) >= c + 1
      BY <1>5
    <3> QED BY <1>2, <1>6, <3>1
  <2> QED BY <2>2, <2>3
<1> QED BY <1>3, <1>7, <1>8

\* The numbers in order are those of the set.
LEMMA Ordered ==
    ASSUME NEW m \in Nat, NEW S, S \subseteq 1..m
    PROVE  /\ Ascending(S) \in Seq(S) /\ Len(Ascending(S)) = Cardinality(S)
           /\ DOMAIN Ascending(S) = 1..Cardinality(S) /\ Cardinality(S) \in Nat
           /\ \A k \in 1..Cardinality(S) : Ascending(S)[k] \in S
<1>1. /\ Cardinality(S) \in Nat /\ DOMAIN Ascending(S) = 1..Cardinality(S)
      /\ \A k \in 1..Cardinality(S) : Ascending(S)[k] \in S
  BY InOrder
<1>2. Ascending(S) = [k \in 1..Cardinality(S) |-> Ascending(S)[k]]
  BY <1>1 DEF Ascending
<1>3. PICK c, A : c \in Nat /\ c = Cardinality(S) /\ A = Ascending(S)
  BY <1>1
<1>4. A = [k \in 1..c |-> A[k]] /\ \A k \in 1..c : A[k] \in S
  BY <1>1, <1>2, <1>3
<1>5. A \in Seq(S) /\ Len(A) = c
  BY <1>3, <1>4
<1> QED BY <1>1, <1>3, <1>5

\* The elements at some of the places of a sequence.
LEMMA ThoseAt ==
    ASSUME NEW E, NEW s \in Seq(E), NEW P, P \subseteq 1..Len(s)
    PROVE  /\ Those(s, P) \in Seq(E) /\ Len(Those(s, P)) = Cardinality(P) /\ Cardinality(P) \in Nat
           /\ \A k \in 1..Cardinality(P) : /\ Those(s, P)[k] = s[Ascending(P)[k]]
                                           /\ Ascending(P)[k] \in P
<1>1. /\ DOMAIN Ascending(P) = 1..Cardinality(P) /\ Cardinality(P) \in Nat
      /\ \A k \in 1..Cardinality(P) : Ascending(P)[k] \in P
  <2>1. Len(s) \in Nat
    OBVIOUS
  <2> QED BY <2>1, Ordered
<1>2. Those(s, P) = [k \in 1..Cardinality(P) |-> s[Ascending(P)[k]]]
  BY <1>1 DEF Those
<1>3. \A k \in 1..Cardinality(P) : s[Ascending(P)[k]] \in E
  <2>1. \A i \in P : s[i] \in E
    OBVIOUS
  <2> QED BY <1>1, <2>1
<1>4. PICK c, A, t : c \in Nat /\ c = Cardinality(P) /\ A = Ascending(P) /\ t = Those(s, P)
  BY <1>1
<1>5. t = [k \in 1..c |-> s[A[k]]] /\ \A k \in 1..c : s[A[k]] \in E /\ A[k] \in P
  BY <1>1, <1>2, <1>3, <1>4
<1>6. t \in Seq(E) /\ Len(t) = c /\ \A k \in 1..c : t[k] = s[A[k]]
  BY <1>4, <1>5
<1> QED BY <1>4, <1>5, <1>6

LEMMA OneFactorMore ==
    ASSUME NEW t \in Seq(Nat), NEW u \in Seq(Nat), Len(u) = Len(t) + 1,
           \A k \in 1..Len(t) : u[k] = t[k]
    PROVE  Product(u) = Product(t) * u[Len(u)]
<1> DEFINE c == Len(t)
<1>1. c \in Nat /\ Len(u) = c + 1 /\ c \in 0..Len(u) /\ c + 1 \in 1..Len(u) /\ c + 1 - 1 = c
  OBVIOUS
<1>2. PICK r \in [0..Len(u) -> Nat] :
             /\ r[0] = 1 /\ (\A k \in 1..Len(u) : r[k] = r[k - 1] * u[k])
             /\ (\A k \in 0..Len(u) : Product(SubSeq(u, 1, k)) = r[k])
             /\ Product(u) = r[Len(u)]
  BY Products
<1>3. SubSeq(u, 1, c) = t
  <2>1. SubSeq(u, 1, c) = [k \in 1..c |-> u[k]]
    OBVIOUS
  <2>2. t = [k \in 1..c |-> t[k]]
    OBVIOUS
  <2>3. \A k \in 1..c : u[k] = t[k]
    OBVIOUS
  <2>4. [k \in 1..c |-> u[k]] = [k \in 1..c |-> t[k]]
    BY <2>3
  <2> QED BY ONLY <2>1, <2>2, <2>4
<1>4. Product(t) = r[c]
  BY <1>1, <1>2, <1>3
<1>5. r[c + 1] = r[c] * u[c + 1]
  BY <1>1, <1>2
<1> QED BY <1>1, <1>2, <1>4, <1>5

\* Leaving out dimensions of one element leaves as many cells.
LEMMA ProductOfKept ==
    ASSUME NEW s \in Seq(Nat), NEW P, P \subseteq 1..Len(s), \A k \in 1..Len(s) : k \notin P => s[k] = 1
    PROVE  Product(Those(s, P)) = Product(s)
<1> DEFINE n == Len(s)
           Q(m) == P \cap 1..m
           T == {m \in Nat : m <= n => Product(Those(s, Q(m))) = Product(SubSeq(s, 1, m))}
<1>1. n \in Nat
  OBVIOUS
<1>2. PICK r \in [0..n -> Nat] :
             /\ r[0] = 1 /\ (\A k \in 1..n : r[k] = r[k - 1] * s[k])
             /\ (\A k \in 0..n : Product(SubSeq(s, 1, k)) = r[k])
             /\ Product(s) = r[n]
  BY Products
<1>3. 0 \in T
  <2>1. Q(0) = {} /\ Q(0) \subseteq 1..n
    OBVIOUS
  <2>2. Cardinality(Q(0)) = 0
    BY <2>1, FS_EmptySet
  <2>3. Those(s, Q(0)) \in Seq(Nat) /\ Len(Those(s, Q(0))) = 0
    <3> HIDE DEF Q
    <3> QED BY <2>1, <2>2, ThoseAt
  <2>4. Those(s, Q(0)) = <<>>
    BY <2>3
  <2>5. Product(SubSeq(s, 1, 0)) = 1
    BY <1>1, <1>2
  <2> QED BY <2>4, <2>5, ProductOfNone
<1>4. ASSUME NEW m \in Nat, m \in T PROVE m + 1 \in T
  <2> SUFFICES ASSUME m + 1 <= n PROVE Product(Those(s, Q(m + 1))) = Product(SubSeq(s, 1, m + 1))
    OBVIOUS
  <2>1. m + 1 \in 1..n /\ m \in 0..n /\ m + 1 \in 0..n /\ m + 1 - 1 = m
    BY <1>1
  <2>2. Product(Those(s, Q(m))) = r[m] /\ r[m] \in Nat
    BY <1>2, <1>4, <2>1
  <2>3. Product(SubSeq(s, 1, m + 1)) = r[m] * s[m + 1]
    BY <1>2, <2>1
  <2>4. CASE m + 1 \in P
    <3>1. Q(m + 1) = Q(m) \cup {m + 1} /\ Q(m) \subseteq 1..m
      BY <2>4
    <3>2. Q(m) \subseteq 1..n /\ Q(m + 1) \subseteq 1..n
      OBVIOUS
    <3> HIDE DEF Q
    <3>3. /\ Cardinality(Q(m + 1)) = Cardinality(Q(m)) + 1
          /\ \A k \in 1..Cardinality(Q(m)) : Ascending(Q(m + 1))[k] = Ascending(Q(m))[k]
          /\ Ascending(Q(m + 1))[Cardinality(Q(m)) + 1] = m + 1
      <4>1. PICK R : R = Q(m)
        OBVIOUS
      <4>2. R \subseteq 1..m /\ Q(m + 1) = R \cup {m + 1}
        BY <3>1, <4>1
      <4>3. /\ Cardinality(R \cup {m + 1}) = Cardinality(R) + 1
            /\ \A k \in 1..Cardinality(R) : Ascending(R \cup {m + 1})[k] = Ascending(R)[k]
            /\ Ascending(R \cup {m + 1})[Cardinality(R) + 1] = m + 1
        BY <4>2, OneMore
      <4> QED BY ONLY <4>1, <4>2, <4>3
    <3>4. /\ Those(s, Q(m)) \in Seq(Nat) /\ Len(Those(s, Q(m))) = Cardinality(Q(m))
          /\ \A k \in 1..Cardinality(Q(m)) : Those(s, Q(m))[k] = s[Ascending(Q(m))[k]]
      BY <3>2, ThoseAt
    <3>5. /\ Those(s, Q(m + 1)) \in Seq(Nat) /\ Len(Those(s, Q(m + 1))) = Cardinality(Q(m + 1))
          /\ \A k \in 1..Cardinality(Q(m + 1)) : Those(s, Q(m + 1))[k] = s[Ascending(Q(m + 1))[k]]
      BY <3>2, ThoseAt
    <3>6. PICK t \in Seq(Nat), u \in Seq(Nat) : t = Those(s, Q(m)) /\ u = Those(s, Q(m + 1))
      BY <3>4, <3>5
    <3>7. PICK c \in Nat : c = Cardinality(Q(m))
      BY <3>4
    <3>8. Len(t) = c /\ Len(u) = c + 1
      BY <3>3, <3>4, <3>5, <3>6, <3>7
    <3>9. ASSUME NEW k \in 1..c PROVE u[k] = t[k]
      <4>1. k \in 1..(c + 1)
        OBVIOUS
      <4> QED BY <3>3, <3>4, <3>5, <3>6, <3>7, <4>1
    <3>10. u[c + 1] = s[m + 1]
      <4>1. c + 1 \in 1..(c + 1)
        BY <3>7
      <4> QED BY <3>3, <3>5, <3>6, <3>7, <4>1
    <3>11. Product(u) = Product(t) * u[Len(u)]
      BY <3>8, <3>9, OneFactorMore
    <3> QED BY <2>2, <2>3, <3>6, <3>8, <3>10, <3>11
  <2>5. CASE m + 1 \notin P
    <3>1. Q(m + 1) = Q(m)
      BY <2>5
    <3>2. s[m + 1] = 1
      BY <2>1, <2>5
    <3> HIDE DEF Q
    <3> QED BY <2>2, <2>3, <3>1, <3>2
  <2> QED BY <2>4, <2>5
<1>5. n \in T
  <2> HIDE DEF T
  <2> QED BY <1>1, <1>3, <1>4, SetInduction
<1>6. Q(n) = P /\ SubSeq(s, 1, n) = s
  BY SMTT(30)
<1> HIDE DEF Q
<1> QED BY <1>1, <1>5, <1>6

-----------------------------------------------------------------------------
(* Values and the values in them *)

\* A set of values that has the elements of its lists; a value of such a set; an
\* element of a list that is one.
Nested(W) == \A v \in W : Whole(v) /\ (v.kind = "List"
                 => \A e \in ToSet(v.data) : e = Box(Unbox(e)) /\ Unbox(e) \in W)
Deep(v) == \E W : v \in W /\ Nested(W)
Boxed(e) == e = Box(Unbox(e)) /\ Deep(Unbox(e))

\* A well-formed value is a vector, and so are the elements of a list; and back.
LEMMA Opens ==
    ASSUME NEW v, Deep(v)
    PROVE  Whole(v) /\ (v.kind = "List" => \A e \in ToSet(v.data) : Boxed(e))
<1>1. PICK W : v \in W /\ Nested(W)
  BY DEF Deep
<1>2. Whole(v)
  BY <1>1 DEF Nested
<1>3. ASSUME v.kind = "List", NEW e \in ToSet(v.data) PROVE Boxed(e)
  <2>1. e = Box(Unbox(e)) /\ Unbox(e) \in W
    BY <1>1, <1>3 DEF Nested
  <2>2. Deep(Unbox(e))
    BY <1>1, <2>1 DEF Deep
  <2> QED BY <2>1, <2>2 DEF Boxed
<1> QED BY <1>2, <1>3

LEMMA Closes ==
    ASSUME NEW v, Whole(v), v.kind = "List" => \A e \in ToSet(v.data) : Boxed(e)
    PROVE  Deep(v)
<1>1. CASE v.kind # "List"
  <2>1. Nested({v})
    BY <1>1 DEF Nested
  <2> QED BY <2>1 DEF Deep
<1>2. CASE v.kind = "List"
  <2> DEFINE Has(e, W) == Unbox(e) \in W /\ Nested(W)
             of == [e \in ToSet(v.data) |-> CHOOSE W : Has(e, W)]
             All == (UNION {of[e] : e \in ToSet(v.data)}) \cup {v}
  <2>1. ASSUME NEW e \in ToSet(v.data) PROVE Has(e, of[e]) /\ e = Box(Unbox(e))
    <3>1. Boxed(e)
      BY <1>2
    <3>2. PICK W : Has(e, W)
      BY <3>1 DEF Boxed, Deep
    <3>3. Has(e, of[e])
      <4> HIDE DEF Has
      <4> QED BY <3>2
    <3> HIDE DEF Has, of
    <3> QED BY <3>1, <3>3 DEF Boxed
  <2> HIDE DEF of
  <2>2. ASSUME NEW u \in All
        PROVE  Whole(u) /\ (u.kind = "List" => \A e \in ToSet(u.data) : e = Box(Unbox(e)) /\ Unbox(e) \in All)
    <3>1. CASE u = v
      <4>1. \A e \in ToSet(v.data) : Unbox(e) \in of[e]
        BY <2>1
      <4>2. \A e \in ToSet(v.data) : Unbox(e) \in All
        BY <4>1
      <4> HIDE DEF All, Has
      <4> QED BY <2>1, <3>1, <4>2
    <3>2. CASE u # v
      <4>1. PICK o \in ToSet(v.data) : u \in of[o]
        BY <3>2
      <4>2. Nested(of[o])
        BY <2>1, <4>1
      <4>3. of[o] \subseteq All
        BY <4>1
      <4> HIDE DEF All, Has
      <4> QED BY <4>1, <4>2, <4>3 DEF Nested
    <3> QED BY <3>1, <3>2
  <2>3. v \in All
    OBVIOUS
  <2> HIDE DEF All
  <2>4. Nested(All)
    BY <2>2 DEF Nested
  <2> QED BY <2>3, <2>4 DEF Deep
<1> QED BY <1>1, <1>2

\* A vector from its parts, and the tag of its elements.
Rec(k, d, n, m, a, l) == [kind |-> k, data |-> d, names |-> n, dim |-> m, dimnames |-> a, levels |-> l]
Lower(k) == CASE k = "Lgl" -> "lgl" [] k = "Int" -> "int" [] k = "Dbl" -> "dbl" [] k = "Str" -> "str" [] OTHER -> "vec"
\* An element a vector of a kind may have; a vector.
Fits(k, e) == IF k = "List" THEN Boxed(e) ELSE e = NA \/ e = <<Lower(k), e[2]>>
Shaped(k, c, d, n, m, a, l) ==
    /\ k \in Kinds \ {"Null"} /\ c \in Nat
    /\ d = [i \in 1..c |-> d[i]] /\ (\A i \in 1..c : Fits(k, d[i]))
    /\ n \in Seq(STRING) /\ m \in Seq(Nat) /\ a \in Seq(Seq(STRING)) /\ l \in Seq(STRING)
    /\ m # <<>> => Product(m) = c
    /\ \A j \in 1..Len(a) : j \in 1..Len(m) /\ Len(a[j]) \in {0, m[j]}
    /\ Len(n) \in {0, c} \/ (k = "List" /\ Len(n) < c)
    /\ l # <<>> => k = "Int" /\ \A i \in 1..c : d[i] = NA \/ d[i][2] \in 1..Len(l)

\* What is shaped like a vector is well-formed, and back.
LEMMA DeepMade ==
    ASSUME NEW k, NEW c, NEW d, NEW n, NEW m, NEW a, NEW l, Shaped(k, c, d, n, m, a, l)
    PROVE  Deep(Rec(k, d, n, m, a, l)) /\ Len(d) = c
<1> DEFINE v == Rec(k, d, n, m, a, l)
<1>1. /\ v.kind = k /\ v.data = d /\ v.names = n /\ v.dim = m /\ v.dimnames = a /\ v.levels = l
      /\ v = [kind |-> k, data |-> d, names |-> n, dim |-> m, dimnames |-> a, levels |-> l]
  BY DEF Rec
<1> HIDE DEF v
<1>2. /\ k \in Kinds /\ k # "Null" /\ c \in Nat
      /\ d = [i \in 1..c |-> d[i]] /\ (\A i \in 1..c : Fits(k, d[i]))
      /\ n \in Seq(STRING) /\ m \in Seq(Nat) /\ a \in Seq(Seq(STRING)) /\ l \in Seq(STRING)
      /\ m # <<>> => Product(m) = c
      /\ \A j \in 1..Len(a) : j \in 1..Len(m) /\ Len(a[j]) \in {0, m[j]}
      /\ Len(n) \in {0, c} \/ (k = "List" /\ Len(n) < c)
      /\ l # <<>> => k = "Int" /\ \A i \in 1..c : d[i] = NA \/ d[i][2] \in 1..Len(l)
  BY DEF Shaped
<1>3. /\ DOMAIN d = 1..c /\ ToSet(d) = {d[i] : i \in 1..c} /\ d \in Seq(ToSet(d)) /\ Len(d) = c
  <2>1. DOMAIN d = 1..c
    BY <1>2
  <2>2. ToSet(d) = {d[i] : i \in 1..c}
    BY <2>1 DEF ToSet
  <2>3. PICK S : S = ToSet(d)
    OBVIOUS
  <2>4. \A i \in 1..c : d[i] \in S
    BY <2>2, <2>3
  <2>5. d \in [1..c -> S]
    BY <1>2, <2>4
  <2>6. d \in Seq(S) /\ Len(d) = c
    BY <1>2, <2>5
  <2> QED BY <2>1, <2>2, <2>3, <2>6
<1>4. v \in [kind : Kinds, data : Seq(ToSet(v.data)), names : Seq(STRING), dim : Seq(Nat),
             dimnames : Seq(Seq(STRING)), levels : Seq(STRING)]
  <2>1. PICK D, N, M, A : d \in D /\ n \in N /\ m \in M /\ a \in A /\ l \in N
                          /\ D = Seq(ToSet(d)) /\ N = Seq(STRING) /\ M = Seq(Nat) /\ A = Seq(Seq(STRING))
    BY <1>2, <1>3
  <2>2. v \in [kind : Kinds, data : D, names : N, dim : M, dimnames : A, levels : N]
    BY <1>1, <1>2, <2>1
  <2> QED BY <1>1, <2>1, <2>2
<1>5. Atomic(v) => \A e \in ToSet(v.data) : e = NA \/ e = <<Tag(v), e[2]>>
  <2> SUFFICES ASSUME Atomic(v), NEW e \in ToSet(v.data) PROVE e = NA \/ e = <<Tag(v), e[2]>>
    OBVIOUS
  <2>1. k \in {"Lgl", "Int", "Dbl", "Str"}
    BY <1>1 DEF Atomic
  <2>2. Tag(v) = Lower(k)
    BY <1>1, <2>1 DEF Tag, Lower, Rank
  <2>3. Fits(k, e) /\ k # "List"
    <3>1. e \in {d[i] : i \in 1..c}
      BY <1>1, <1>3
    <3>2. k # "List"
      BY <2>1
    <3> HIDE DEF Fits
    <3> QED BY <1>2, <3>1, <3>2
  <2> QED BY <2>2, <2>3 DEF Fits
<1>6. v.kind = "List" => \A e \in ToSet(v.data) : Boxed(e)
  <2> SUFFICES ASSUME k = "List", NEW e \in ToSet(d) PROVE Boxed(e)
    BY <1>1
  <2>1. e \in {d[i] : i \in 1..c}
    BY <1>3
  <2>2. Fits(k, e)
    BY <1>2, <2>1
  <2> QED BY <2>2 DEF Fits
<1>7. v.kind = "List" => \A e \in ToSet(v.data) : e[1] = "vec"
  <2>1. ASSUME NEW e, Boxed(e) PROVE e[1] = "vec"
    <3>1. e = Box(Unbox(e))
      BY <2>1 DEF Boxed
    <3>2. Box(Unbox(e))[1] = "vec"
      BY DEF Box
    <3> QED BY <3>1, <3>2
  <2> QED BY <1>6, <2>1
<1>8. v.dim = <<>> => v.dimnames = <<>>
  <2> SUFFICES ASSUME m = <<>>, a # <<>> PROVE FALSE
    BY <1>1
  <2>1. 1 \in 1..Len(a) /\ Len(m) = 0
    BY <1>2
  <2>2. 1 \in 1..Len(m)
    BY <1>2, <2>1
  <2> QED BY <2>1, <2>2
<1>9. Len(NamesOf(v)) \in {0, Len(v.data)} \/ (v.kind = "List" /\ Len(NamesOf(v)) < Len(v.data))
  <2>1. CASE v.names = <<>> /\ Len(v.dim) = 1 /\ v.dimnames # <<>>
    <3>1. NamesOf(v) = a[1] /\ Len(m) = 1 /\ a # <<>>
      BY <1>1, <2>1 DEF NamesOf
    <3>2. 1 \in 1..Len(a)
      BY <1>2, <3>1
    <3>3. Len(a[1]) \in {0, m[1]}
      BY <1>2, <3>2
    <3>4. m = <<m[1]>> /\ m # <<>> /\ m[1] \in Nat
      <4>1. m \in Seq(Nat) /\ Len(m) = 1
        BY <1>2, <3>1
      <4>2. m[1] \in Nat /\ m # <<>>
        <5>1. 1 \in 1..Len(m)
          BY <4>1
        <5>2. m[1] \in Nat
          BY <4>1, <5>1, ElementOfSeq
        <5>3. m # <<>>
          BY <4>1
        <5> QED BY <5>2, <5>3
      <4>3. m = <<m[1]>>
        BY <4>1, <4>2
      <4> QED BY <4>2, <4>3
    <3>5. Product(m) = m[1]
      BY <3>4, ProductOfOne
    <3> QED BY <1>1, <1>2, <1>3, <3>1, <3>3, <3>4, <3>5
  <2>2. CASE ~(v.names = <<>> /\ Len(v.dim) = 1 /\ v.dimnames # <<>>)
    <3>1. NamesOf(v) = n
      BY <1>1, <2>2 DEF NamesOf
    <3> QED BY <1>1, <1>2, <1>3, <3>1
  <2> QED BY <2>1, <2>2
<1>10. IsFactor(v) => v.kind = "Int" /\ \A e \in ToSet(v.data) : e = NA \/ e[2] \in DOMAIN v.levels
  <2> SUFFICES ASSUME l # <<>>
               PROVE  k = "Int" /\ \A e \in ToSet(d) : e = NA \/ e[2] \in DOMAIN l
    BY <1>1 DEF IsFactor
  <2>1. DOMAIN l = 1..Len(l)
    BY <1>2
  <2> QED BY <1>2, <1>3, <2>1
<1>11. Formed(v)
  BY <1>1, <1>2, <1>3, <1>4, <1>5, <1>7, <1>8, <1>9, <1>10 DEF Formed
<1>12. \A j \in DOMAIN v.dimnames : j \in DOMAIN v.dim /\ Len(v.dimnames[j]) \in {0, v.dim[j]}
  <2>1. DOMAIN a = 1..Len(a) /\ DOMAIN m = 1..Len(m)
    BY <1>2
  <2> QED BY <1>1, <1>2, <2>1
<1>13. Whole(v)
  BY <1>10, <1>11, <1>12 DEF Whole
<1>14. Deep(v)
  BY <1>6, <1>13, Closes
<1> QED BY <1>3, <1>14 DEF v

LEMMA DeepParts ==
    ASSUME NEW v, Deep(v), v.kind # "Null"
    PROVE  /\ v = Rec(v.kind, v.data, v.names, v.dim, v.dimnames, v.levels)
           /\ Shaped(v.kind, Len(v.data), v.data, v.names, v.dim, v.dimnames, v.levels)
<1>1. Formed(v) /\ Whole(v)
  BY Opens DEF Whole
<1>2. /\ v.kind \in Kinds /\ v.data \in Seq(ToSet(v.data)) /\ Len(v.data) \in Nat
      /\ DOMAIN v.data = 1..Len(v.data)
      /\ v = [kind |-> v.kind, data |-> v.data, names |-> v.names, dim |-> v.dim,
              dimnames |-> v.dimnames, levels |-> v.levels]
  BY <1>1, FormedParts
<1>3. /\ v.names \in Seq(STRING) /\ v.dim \in Seq(Nat) /\ v.dimnames \in Seq(Seq(STRING))
      /\ v.levels \in Seq(STRING)
  BY <1>1 DEF Formed
<1>4. v.data = [i \in 1..Len(v.data) |-> v.data[i]]
  <2>1. PICK S : S = ToSet(v.data)
    OBVIOUS
  <2>2. v.data \in Seq(S)
    BY <1>2, <2>1
  <2> QED BY <2>2
<1>5. ASSUME NEW i \in 1..Len(v.data) PROVE Fits(v.kind, v.data[i])
  <2>1. v.data[i] \in ToSet(v.data)
    BY <1>2 DEF ToSet
  <2>2. CASE v.kind = "List"
    <3>1. Boxed(v.data[i])
      BY <2>1, <2>2, Opens
    <3> QED BY <2>2, <3>1 DEF Fits
  <2>3. CASE v.kind # "List"
    <3>1. v.kind = "Lgl" \/ v.kind = "Int" \/ v.kind = "Dbl" \/ v.kind = "Str"
      BY <1>2, <2>3 DEF Kinds
    <3>2. Atomic(v) /\ Tag(v) = Lower(v.kind)
      BY <3>1 DEF Atomic, Tag, Lower, Rank
    <3>3. v.data[i] = NA \/ v.data[i] = <<Tag(v), v.data[i][2]>>
      BY <1>1, <2>1, <3>2 DEF Formed
    <3> QED BY <2>3, <3>2, <3>3 DEF Fits
  <2> QED BY <2>2, <2>3
<1>6. v.dim # <<>> => Product(v.dim) = Len(v.data)
  BY <1>1 DEF Formed
<1>7. \A j \in 1..Len(v.dimnames) : j \in 1..Len(v.dim) /\ Len(v.dimnames[j]) \in {0, v.dim[j]}
  <2>1. DOMAIN v.dimnames = 1..Len(v.dimnames) /\ DOMAIN v.dim = 1..Len(v.dim)
    BY <1>3
  <2> QED BY <1>1, <2>1 DEF Whole
<1>8. Len(v.names) \in {0, Len(v.data)} \/ (v.kind = "List" /\ Len(v.names) < Len(v.data))
  <2>1. CASE v.names = <<>>
    BY <2>1
  <2>2. CASE v.names # <<>>
    <3>1. NamesOf(v) = v.names
      BY <2>2 DEF NamesOf
    <3> QED BY <1>1, <3>1 DEF Formed
  <2> QED BY <2>1, <2>2
<1>9. v.levels # <<>> => v.kind = "Int" /\ \A i \in 1..Len(v.data) : v.data[i] = NA \/ v.data[i][2] \in 1..Len(v.levels)
  <2> SUFFICES ASSUME v.levels # <<>>
               PROVE  v.kind = "Int" /\ \A i \in 1..Len(v.data) : v.data[i] = NA \/ v.data[i][2] \in 1..Len(v.levels)
    OBVIOUS
  <2>1. IsFactor(v)
    BY DEF IsFactor
  <2>2. \A i \in 1..Len(v.data) : v.data[i] \in ToSet(v.data)
    BY <1>2 DEF ToSet
  <2>3. DOMAIN v.levels = 1..Len(v.levels)
    BY <1>3
  <2> QED BY <1>1, <2>1, <2>2, <2>3 DEF Whole, Formed
<1>10. v = Rec(v.kind, v.data, v.names, v.dim, v.dimnames, v.levels)
  BY <1>2 DEF Rec
<1>11. Shaped(v.kind, Len(v.data), v.data, v.names, v.dim, v.dimnames, v.levels)
  BY <1>2, <1>3, <1>4, <1>5, <1>6, <1>7, <1>8, <1>9 DEF Shaped
<1> QED BY <1>10, <1>11

LEMMA RecAt ==
    ASSUME NEW k, NEW d, NEW n, NEW m, NEW a, NEW l
    PROVE  LET v == Rec(k, d, n, m, a, l)
           IN  v.kind = k /\ v.data = d /\ v.names = n /\ v.dim = m /\ v.dimnames = a /\ v.levels = l
BY DEF Rec

\* A vector with one of its parts changed.
Dimmed(v, o) == [v EXCEPT !.dim = o]
Labelled(v, o) == [v EXCEPT !.dimnames = o]
Levelled(v, o) == [v EXCEPT !.levels = o]

LEMMA RecWith ==
    ASSUME NEW k, NEW d, NEW n, NEW m, NEW a, NEW l, NEW o
    PROVE  /\ Named(Rec(k, d, n, m, a, l), o) = Rec(k, d, o, m, a, l)
           /\ Dimmed(Rec(k, d, n, m, a, l), o) = Rec(k, d, n, o, a, l)
           /\ Labelled(Rec(k, d, n, m, a, l), o) = Rec(k, d, n, m, o, l)
           /\ Levelled(Rec(k, d, n, m, a, l), o) = Rec(k, d, n, m, a, o)
<1>1. PICK r : r = Rec(k, d, n, m, a, l)
  OBVIOUS
<1>2. r = [kind |-> k, data |-> d, names |-> n, dim |-> m, dimnames |-> a, levels |-> l]
  BY <1>1 DEF Rec
<1>3. Named(r, o) = [kind |-> k, data |-> d, names |-> o, dim |-> m, dimnames |-> a, levels |-> l]
  BY ONLY <1>2 DEF Named
<1>4. Dimmed(r, o) = [kind |-> k, data |-> d, names |-> n, dim |-> o, dimnames |-> a, levels |-> l]
  BY ONLY <1>2 DEF Dimmed
<1>5. Labelled(r, o) = [kind |-> k, data |-> d, names |-> n, dim |-> m, dimnames |-> o, levels |-> l]
  BY ONLY <1>2 DEF Labelled
<1>6. Levelled(r, o) = [kind |-> k, data |-> d, names |-> n, dim |-> m, dimnames |-> a, levels |-> o]
  BY ONLY <1>2 DEF Levelled
<1> QED BY <1>1, <1>3, <1>4, <1>5, <1>6 DEF Rec

\* NULL.
LEMMA DeepNull == Deep(NULL)
<1>1. NULL = [kind |-> "Null", data |-> <<>>, names |-> <<>>, dim |-> <<>>, dimnames |-> <<>>, levels |-> <<>>]
  BY DEF NULL, V
<1>2. /\ NULL.kind = "Null" /\ NULL.data = <<>> /\ NULL.names = <<>> /\ NULL.dim = <<>>
      /\ NULL.dimnames = <<>> /\ NULL.levels = <<>>
  BY <1>1
<1>3. NULL \in [kind : Kinds, data : Seq(ToSet(NULL.data)), names : Seq(STRING), dim : Seq(Nat),
                dimnames : Seq(Seq(STRING)), levels : Seq(STRING)]
  <2>1. PICK D, N, M, A : <<>> \in D /\ <<>> \in N /\ <<>> \in M /\ <<>> \in A
                          /\ D = Seq(ToSet(NULL.data)) /\ N = Seq(STRING) /\ M = Seq(Nat) /\ A = Seq(Seq(STRING))
    <3>1. <<>> \in Seq(ToSet(NULL.data)) /\ <<>> \in Seq(STRING) /\ <<>> \in Seq(Nat) /\ <<>> \in Seq(Seq(STRING))
      BY EmptySeq
    <3> QED BY <3>1
  <2>2. NULL \in [kind : Kinds, data : D, names : N, dim : M, dimnames : A, levels : N]
    BY <1>1, <2>1 DEF Kinds
  <2> QED BY <2>1, <2>2
<1>4. NamesOf(NULL) = <<>>
  BY <1>2 DEF NamesOf
<1>5. Formed(NULL)
  BY <1>2, <1>3, <1>4 DEF Formed, Atomic, IsFactor
<1>6. Whole(NULL)
  BY <1>2, <1>5 DEF Whole, IsFactor
<1> QED BY <1>2, <1>6, Closes

LEMMA NullIs ==
    ASSUME NEW v, Deep(v), v.kind = "Null"
    PROVE  v = NULL
BY Opens DEF Whole, Formed

\* An element of a list is a value without dimensions or levels.
LEMMA BoxOpens ==
    ASSUME NEW v
    PROVE  /\ Unbox(Box(v)) = Rec(v.kind, v.data, v.names, <<>>, <<>>, <<>>)
           /\ Box(Unbox(Box(v))) = Box(v)
<1>1. Unbox(Box(v)) = Rec(v.kind, v.data, v.names, <<>>, <<>>, <<>>)
  <2>1. PICK e : e = Box(v)
    OBVIOUS
  <2>2. e[2] = v.kind /\ e[3] = v.data /\ e[4] = v.names
    BY <2>1 DEF Box
  <2>3. Unbox(e) = [V(e[2], e[3]) EXCEPT !.names = e[4]]
    BY DEF Unbox, Named
  <2> QED BY <2>1, <2>2, <2>3 DEF V, Rec
<1>2. Box(Unbox(Box(v))) = Box(v)
  BY <1>1, RecAt DEF Box
<1> QED BY <1>1, <1>2

LEMMA BoxIsBoxed ==
    ASSUME NEW v, Deep(v)
    PROVE  Boxed(Box(v))
<1>1. CASE v.kind = "Null"
  <2>1. v = NULL
    BY <1>1, NullIs
  <2>2. Unbox(Box(v)) = NULL
    BY <2>1, BoxOpens DEF NULL, V, Rec
  <2> QED BY <2>2, DeepNull, BoxOpens DEF Boxed
<1>2. CASE v.kind # "Null"
  <2>1. Shaped(v.kind, Len(v.data), v.data, v.names, v.dim, v.dimnames, v.levels)
    BY <1>2, DeepParts
  <2>2. Shaped(v.kind, Len(v.data), v.data, v.names, <<>>, <<>>, <<>>)
    BY <2>1 DEF Shaped
  <2>3. Deep(Unbox(Box(v)))
    BY <2>2, DeepMade, BoxOpens
  <2> QED BY <2>3, BoxOpens DEF Boxed
<1> QED BY <1>1, <1>2

LEMMA NoneFits ==
    ASSUME NEW k
    PROVE  Fits(k, IF k = "List" THEN Box(NULL) ELSE NA)
<1>1. Boxed(Box(NULL))
  BY DeepNull, BoxIsBoxed
<1> QED BY <1>1 DEF Fits

\* One element of a vector, as a vector.
LEMMA OneElement ==
    ASSUME NEW k, k \in Kinds \ {"Null"}, NEW e, Fits(k, e)
    PROVE  Deep(V(k, <<e>>))
<1>1. Shaped(k, 1, <<e>>, <<>>, <<>>, <<>>, <<>>)
  <2>1. \A i \in 1..1 : <<e>>[i] = e
    OBVIOUS
  <2>2. <<e>> = [i \in 1..1 |-> <<e>>[i]]
    OBVIOUS
  <2> QED BY <2>1, <2>2 DEF Shaped
<1>2. V(k, <<e>>) = Rec(k, <<e>>, <<>>, <<>>, <<>>, <<>>)
  BY DEF V, Rec
<1> QED BY <1>1, <1>2, DeepMade

LEMMA ElementsAreBoxed ==
    ASSUME NEW v, Deep(v), NEW i \in 1..Len(v.data)
    PROVE  Boxed(Elements(v)[i])
<1>1. v.kind # "Null"
  <2> SUFFICES ASSUME v.kind = "Null" PROVE FALSE
    OBVIOUS
  <2>1. v.data = <<>>
    BY NullIs DEF NULL, V
  <2> QED BY <2>1
<1>2. Shaped(v.kind, Len(v.data), v.data, v.names, v.dim, v.dimnames, v.levels)
  BY <1>1, DeepParts
<1>3. v.kind \in Kinds \ {"Null"} /\ Fits(v.kind, v.data[i]) /\ DOMAIN v.data = 1..Len(v.data)
  BY <1>2 DEF Shaped
<1>4. CASE v.kind = "List"
  BY <1>3, <1>4 DEF Elements, Fits
<1>5. CASE v.kind # "List"
  <2>1. Elements(v)[i] = Box(V(v.kind, <<v.data[i]>>))
    BY <1>3, <1>5 DEF Elements
  <2> QED BY <1>3, <2>1, OneElement, BoxIsBoxed
<1> QED BY <1>4, <1>5

-----------------------------------------------------------------------------
(* What a subscript selects *)

\* An outcome is a value or an error.
LEMMA Outcomes ==
    ASSUME NEW v, NEW m
    PROVE  /\ Ok(v).err = "" /\ Ok(v).val = v
           /\ Err(m).err = m /\ Err(m).val = <<>>
BY DEF Ok, Err

\* A name is found where it is.
LEMMA Finds ==
    ASSUME NEW S, NEW names, names \in Seq(S), NEW e
    PROVE  /\ NameAt(names, e) \in 0..Len(names)
           /\ NameAt(names, e) # 0 => e # NA /\ names[NameAt(names, e)] = e[2]
<1> DEFINE I == {i \in DOMAIN names : names[i] = e[2]}
<1>1. DOMAIN names = 1..Len(names) /\ Len(names) \in Nat
  OBVIOUS
<1>2. NameAt(names, e) = IF e = NA THEN 0 ELSE IF I = {} THEN 0 ELSE Min(I)
  BY DEF NameAt, FirstOf
<1>3. I # {} => Min(I) \in I
  <2> SUFFICES ASSUME I # {} PROVE Min(I) \in I
    OBVIOUS
  <2>1. I \subseteq Nat
    BY <1>1
  <2> HIDE DEF I
  <2>2. PICK a \in I : \A b \in I : a <= b
    BY <2>1, LeastElement
  <2>3. Min(I) = a
    BY <2>1, <2>2, LeastOf
  <2> QED BY <2>2, <2>3
<1>4. \A i \in I : i \in 1..Len(names) /\ names[i] = e[2]
  BY <1>1
<1> HIDE DEF I
<1> QED BY <1>1, <1>2, <1>3, <1>4

\* A subscript that is there is a vector of numbers or of names.
LEMMA SubscriptParts ==
    ASSUME NEW a, Subscript(a)
    PROVE  /\ a.kind = "Missing" => a.data = <<>> /\ a.dim = <<>>
           /\ a.kind # "Missing" =>
                /\ Formed(a) /\ a.kind \in {"Null", "Lgl", "Int", "Dbl", "Str"}
           /\ Len(a.data) \in Nat /\ DOMAIN a.data = 1..Len(a.data) /\ a.data \in Seq(ToSet(a.data))
           /\ \A i \in 1..Len(a.data) :
                a.data[i] = NA \/ a.data[i][2] \in IF a.kind = "Str" THEN STRING ELSE Int
<1>1. CASE a = Missing
  <2>1. a.kind = "Missing" /\ a.data = <<>> /\ a.dim = <<>>
    BY <1>1 DEF Missing, V
  <2>2. Len(<<>>) = 0 /\ DOMAIN <<>> = 1..0 /\ <<>> \in Seq(ToSet(<<>>))
    BY EmptySeq
  <2> QED BY <2>1, <2>2
<1>2. CASE a # Missing
  <2>1. Whole(a) /\ a.kind # "List"
        /\ \A e \in ToSet(a.data) : e = NA \/ e[2] \in IF a.kind = "Str" THEN STRING ELSE Int
    BY <1>2 DEF Subscript
  <2>2. Formed(a)
    BY <2>1 DEF Whole
  <2>3. a.kind \in Kinds /\ Len(a.data) \in Nat /\ DOMAIN a.data = 1..Len(a.data) /\ a.data \in Seq(ToSet(a.data))
    BY <2>2, FormedParts
  <2>4. a.kind \in {"Null", "Lgl", "Int", "Dbl", "Str"} /\ a.kind # "Missing"
    BY <2>1, <2>3 DEF Kinds
  <2>5. \A i \in 1..Len(a.data) : a.data[i] \in ToSet(a.data)
    BY <2>3 DEF ToSet
  <2> QED BY <2>1, <2>2, <2>3, <2>4, <2>5
<1> QED BY <1>1, <1>2

\* A function over the first places is a sequence.
LEMMA Listed ==
    ASSUME NEW E, NEW c, c \in Nat, NEW t, t = [i \in 1..c |-> t[i]], \A i \in 1..c : t[i] \in E
    PROVE  t \in Seq(E) /\ Len(t) = c /\ DOMAIN t = 1..c
<1>1. t \in [1..c -> E]
  OBVIOUS
<1> QED BY <1>1

\* Flags, numbers and names select elements that are there, or 0.
LEMMA MasksSelect ==
    ASSUME NEW d, NEW n, n \in Nat, Len(d) \in Nat
    PROVE  MaskedPositions(d, n) \in Seq(0..n)
<1> DEFINE At(i) == d[((i - 1) % Len(d)) + 1]
           S == {i \in 1..Max({n, Len(d)}) : At(i) = NA \/ At(i)[2] = 1}
           picked == Ascending(S)
<1>1. Max({n, Len(d)}) \in Nat
  BY MaxOfTwo
<1>2. PICK m \in Nat : m = Max({n, Len(d)})
  BY <1>1
<1>3. S \subseteq 1..m
  BY <1>2
<1>4. MaskedPositions(d, n)
        = [k \in DOMAIN picked |-> IF At(picked[k]) = NA \/ picked[k] > n THEN 0 ELSE picked[k]]
  BY DEF MaskedPositions
<1> HIDE DEF S, At
<1>5. /\ DOMAIN picked = 1..Cardinality(S) /\ Cardinality(S) \in Nat
      /\ \A k \in 1..Cardinality(S) : picked[k] \in S
  BY <1>3, Ordered
<1> HIDE DEF picked
<1>6. PICK c \in Nat : c = Cardinality(S)
  BY <1>5
<1>7. PICK t : t = MaskedPositions(d, n)
  OBVIOUS
<1>8. ASSUME NEW k \in 1..c PROVE t[k] \in 0..n
  <2>1. picked[k] \in 1..m
    BY <1>3, <1>5, <1>6
  <2>2. t[k] = IF At(picked[k]) = NA \/ picked[k] > n THEN 0 ELSE picked[k]
    BY <1>4, <1>5, <1>6, <1>7
  <2> QED BY <1>2, <2>1, <2>2
<1>9. t = [k \in 1..c |-> t[k]]
  BY <1>4, <1>5, <1>6, <1>7
<1> QED BY <1>7, <1>8, <1>9, Listed

LEMMA NumbersSelect ==
    ASSUME NEW d, NEW E, d \in Seq(E), NEW n, n \in Nat,
           \A i \in 1..Len(d) : d[i] = NA \/ d[i][2] \in Nat
    PROVE  NumberedPositions(d, n) \in Seq(0..n)
<1> DEFINE P == {i \in DOMAIN d : d[i] = NA \/ d[i][2] # 0}
           t == Those(d, P)
<1>1. DOMAIN d = 1..Len(d)
  OBVIOUS
<1>2. P \subseteq 1..Len(d)
  BY <1>1
<1>3. NumberedPositions(d, n) = [i \in DOMAIN t |-> IF t[i] # NA /\ t[i][2] <= n THEN t[i][2] ELSE 0]
  BY DEF NumberedPositions
<1> HIDE DEF P
<1>4. /\ t \in Seq(E) /\ Len(t) = Cardinality(P) /\ Cardinality(P) \in Nat
      /\ \A k \in 1..Cardinality(P) : t[k] = d[Ascending(P)[k]] /\ Ascending(P)[k] \in P
  BY <1>2, ThoseAt
<1>5. PICK c \in Nat : c = Cardinality(P)
  BY <1>4
<1>6. \A k \in 1..c : t[k] = NA \/ t[k][2] \in Nat
  BY <1>2, <1>4, <1>5
<1>7. DOMAIN t = 1..c
  BY <1>4, <1>5
<1> HIDE DEF t
<1>8. PICK u : u = NumberedPositions(d, n)
  OBVIOUS
<1>9. \A k \in 1..c : u[k] \in 0..n
  <2>1. ASSUME NEW k \in 1..c PROVE u[k] \in 0..n
    <3>1. u[k] = IF t[k] # NA /\ t[k][2] <= n THEN t[k][2] ELSE 0
      BY <1>3, <1>7, <1>8
    <3> QED BY <1>6, <3>1
  <2> QED BY <2>1
<1>10. u = [k \in 1..c |-> u[k]]
  BY <1>3, <1>7, <1>8
<1> QED BY <1>8, <1>9, <1>10, Listed, SMTT(30)

LEMMA Resolves ==
    ASSUME NEW a, Subscript(a), a.kind # "Missing", NEW n, n \in Nat, NEW names, names \in Seq(STRING),
           Len(names) <= n
    PROVE  LET r == ResolveIndex(a, n, names) IN r.err = "" => r.val \in Seq(0..n)
<1> DEFINE r == ResolveIndex(a, n, names)
           d == a.data
<1>1. /\ Formed(a) /\ a.kind \in {"Null", "Lgl", "Int", "Dbl", "Str"}
      /\ Len(d) \in Nat /\ DOMAIN d = 1..Len(d) /\ d \in Seq(ToSet(d))
      /\ \A i \in 1..Len(d) : d[i] = NA \/ d[i][2] \in IF a.kind = "Str" THEN STRING ELSE Int
  BY SubscriptParts
<1>2. CASE a.kind = "Str"
  <2>1. r = Ok([i \in DOMAIN d |-> NameAt(names, d[i])])
    BY <1>2 DEF ResolveIndex
  <2>2. PICK t : t = [i \in DOMAIN d |-> NameAt(names, d[i])]
    OBVIOUS
  <2>3. \A i \in 1..Len(d) : NameAt(names, d[i]) \in 0..n
    <3>1. ASSUME NEW i \in 1..Len(d) PROVE NameAt(names, d[i]) \in 0..n
      <4>1. NameAt(names, d[i]) \in 0..Len(names) /\ Len(names) \in Nat
        BY Finds
      <4> QED BY <4>1
    <3> QED BY <3>1
  <2>4. t = [i \in 1..Len(d) |-> t[i]] /\ \A i \in 1..Len(d) : t[i] \in 0..n
    BY <1>1, <2>2, <2>3
  <2>5. t \in Seq(0..n)
    BY <1>1, <2>4, Listed
  <2>6. r = Ok(t)
    BY <2>1, <2>2
  <2> HIDE DEF r
  <2>7. r.val = t
    BY <2>6, Outcomes
  <2>8. r.err = "" => r.val \in Seq(0..n)
    BY <2>5, <2>7
  <2> QED BY <2>8 DEF r
<1>3. CASE a.kind = "Lgl" /\ d # <<>>
  <2>1. r = Ok(MaskedPositions(d, n))
    BY <1>3 DEF ResolveIndex
  <2>2. MaskedPositions(d, n) \in Seq(0..n)
    BY <1>1, MasksSelect
  <2> QED BY <2>1, <2>2, Outcomes
<1>4. CASE a.kind # "Str" /\ (a.kind # "Lgl" \/ d = <<>>)
  <2>1. r = IF \A k \in Numbers(a) : k >= 0 THEN Ok(NumberedPositions(d, n))
            ELSE IF \E k \in Numbers(a) : k > 0 THEN Err("mixed")
            ELSE Ok(Ascending({i \in 1 .. n : -i \notin Numbers(a)}))
    BY <1>4 DEF ResolveIndex
  <2>2. CASE \A k \in Numbers(a) : k >= 0
    <3>1. r = Ok(NumberedPositions(d, n))
      BY <2>1, <2>2
    <3>2. \A i \in 1..Len(d) : d[i] = NA \/ d[i][2] \in Nat
      <4>1. ASSUME NEW i \in 1..Len(d), d[i] # NA PROVE d[i][2] \in Nat
        <5>1. d[i] \in ToSet(d) \ {NA}
          BY <1>1, <4>1 DEF ToSet
        <5>2. d[i][2] \in Numbers(a)
          BY <5>1 DEF Numbers
        <5>3. d[i][2] \in Int
          BY <1>1, <1>4, <4>1
        <5> QED BY <2>2, <5>2, <5>3
      <4> QED BY <4>1
    <3>3. NumberedPositions(d, n) \in Seq(0..n)
      BY <1>1, <3>2, NumbersSelect
    <3> QED BY <3>1, <3>3, Outcomes
  <2>3. CASE ~(\A k \in Numbers(a) : k >= 0) /\ \E k \in Numbers(a) : k > 0
    <3>1. r.err = "mixed"
      BY <2>1, <2>3, Outcomes
    <3> QED BY <3>1
  <2>4. CASE ~(\A k \in Numbers(a) : k >= 0) /\ ~\E k \in Numbers(a) : k > 0
    <3> DEFINE S == {i \in 1 .. n : -i \notin Numbers(a)}
    <3>1. r = Ok(Ascending(S))
      BY <2>1, <2>4
    <3>2. S \subseteq 1..n
      OBVIOUS
    <3> HIDE DEF S
    <3>3. Ascending(S) \in Seq(S)
      BY <3>2, Ordered
    <3>4. S \subseteq 0..n
      BY <3>2
    <3>5. Ascending(S) \in Seq(0..n)
      BY <3>3, <3>4, SeqMonotonic
    <3> QED BY <3>1, <3>5, Outcomes
  <2> QED BY <2>2, <2>3, <2>4
<1> QED BY <1>2, <1>3, <1>4

\* The positions from the greatest on are positions.
LEMMA Descends ==
    ASSUME NEW s, s \in Seq(Nat \ {0})
    PROVE  Descending(s) \in Seq(Nat \ {0}) /\ Len(Descending(s)) = Len(s)
<1> DEFINE At(n) == {i \in DOMAIN s : s[i] >= n}
           P(k) == {n \in ToSet(s) : Cardinality(At(n)) >= k}
           c == Len(s)
<1>1. /\ DOMAIN s = 1..c /\ c \in Nat /\ ToSet(s) \subseteq Nat \ {0} /\ s \in Seq(Nat)
      /\ \A i \in 1..c : s[i] \in Nat
  <2>1. \A i \in 1..Len(s) : s[i] \in Nat \ {0}
    BY ElementOfSeq
  <2>2. s \in Seq(Nat)
    BY SeqMonotonic
  <2> QED BY <2>1, <2>2 DEF ToSet
<1>2. Descending(s) = [k \in 1..c |-> Max(P(k))]
  BY <1>1 DEF Descending
<1>3. PICK m \in Nat : \A i \in 1..c : s[i] <= m
  BY <1>1, Bounded
<1>4. ASSUME NEW k \in 1..c PROVE Max(P(k)) \in Nat \ {0}
  <2>1. ToSet(s) # {} /\ ToSet(s) \subseteq Nat
    <3>1. 1 \in DOMAIN s
      BY <1>1
    <3> QED BY <1>1, <3>1 DEF ToSet
  <2>2. PICK a \in ToSet(s) : \A b \in ToSet(s) : a <= b
    BY <2>1, LeastElement
  <2>3. \A i \in 1..c : s[i] >= a
    BY <1>1, <2>1, <2>2 DEF ToSet
  <2>4. At(a) = 1..c
    BY <1>1, <2>3
  <2>5. Cardinality(At(a)) = c
    <3>1. Cardinality(1..c) = c
      <4>1. 1 \in Int /\ c \in Int /\ c >= 0
        BY <1>1
      <4>2. Cardinality(1..c) = IF 1 > c THEN 0 ELSE c - 1 + 1
        BY <4>1, FS_Interval
      <4> QED BY <4>1, <4>2
    <3> HIDE DEF At
    <3> QED BY <2>4, <3>1
  <2>6. a \in P(k)
    BY <2>5
  <2>7. P(k) \subseteq ToSet(s)
    OBVIOUS
  <2>8. \A b \in ToSet(s) : b <= m
    BY <1>1, <1>3 DEF ToSet
  <2> HIDE DEF P
  <2>9. PICK Q : Q = P(k)
    OBVIOUS
  <2>10. Q \subseteq Nat /\ Q # {} /\ \A b \in Q : b <= m
    BY <2>1, <2>6, <2>7, <2>8, <2>9
  <2>11. Max(Q) \in Q
    BY <1>3, <2>10, MaxOf
  <2> QED BY <1>1, <2>7, <2>9, <2>11
<1>5. PICK t : t = Descending(s)
  OBVIOUS
<1>6. t = [k \in 1..c |-> t[k]] /\ \A k \in 1..c : t[k] \in Nat \ {0}
  BY <1>2, <1>4, <1>5
<1>7. t \in Seq(Nat \ {0}) /\ Len(t) = c
  BY <1>1, <1>6, Listed
<1> QED BY <1>5, <1>7

\* The dimensions of an array, and the labels of its margins.
LEMMA Dims ==
    ASSUME NEW v, Deep(v), v.dim # <<>>
    PROVE  /\ v.dim \in Seq(Nat) /\ Product(v.dim) = Len(v.data) /\ Len(v.data) \in Nat
           /\ Len(v.dim) \in Nat /\ DOMAIN v.dim = 1..Len(v.dim)
           /\ \A k \in 1..Len(v.dim) :
                /\ v.dim[k] \in Nat
                /\ MarginLabels(v, k) \in Seq(STRING) /\ Len(MarginLabels(v, k)) \in {0, v.dim[k]}
<1>1. v.kind # "Null"
  <2> SUFFICES ASSUME v.kind = "Null" PROVE FALSE
    OBVIOUS
  <2>1. v.dim = <<>>
    BY NullIs DEF NULL, V
  <2> QED BY <2>1
<1>2. Shaped(v.kind, Len(v.data), v.data, v.names, v.dim, v.dimnames, v.levels)
  BY <1>1, DeepParts
<1>3. /\ v.dim \in Seq(Nat) /\ Product(v.dim) = Len(v.data) /\ Len(v.data) \in Nat
      /\ v.dimnames \in Seq(Seq(STRING))
      /\ \A j \in 1..Len(v.dimnames) : j \in 1..Len(v.dim) /\ Len(v.dimnames[j]) \in {0, v.dim[j]}
  BY <1>2 DEF Shaped
<1>4. ASSUME NEW k \in 1..Len(v.dim)
      PROVE  MarginLabels(v, k) \in Seq(STRING) /\ Len(MarginLabels(v, k)) \in {0, v.dim[k]}
  <2>1. CASE k \in DOMAIN v.dimnames
    <3>1. k \in 1..Len(v.dimnames) /\ MarginLabels(v, k) = v.dimnames[k]
      BY <1>3, <2>1 DEF MarginLabels
    <3>2. v.dimnames[k] \in Seq(STRING)
      BY <1>3, <3>1
    <3> QED BY <1>3, <3>1, <3>2
  <2>2. CASE k \notin DOMAIN v.dimnames
    <3>1. MarginLabels(v, k) = <<>>
      BY <2>2 DEF MarginLabels
    <3> QED BY <3>1
  <2> QED BY <2>1, <2>2
<1>5. Len(v.dim) \in Nat /\ DOMAIN v.dim = 1..Len(v.dim) /\ \A k \in 1..Len(v.dim) : v.dim[k] \in Nat
  BY <1>3
<1> QED BY <1>3, <1>4, <1>5

\* A matrix of coordinates, and one subscript per dimension, select cells that are there, or 0.
LEMMA MatrixSelects ==
    ASSUME NEW v, Deep(v), NEW a, Subscript(a), IsMatrixSubscript(v, a)
    PROVE  MatrixSubscript(v, a).err = "" => MatrixSubscript(v, a).val \in Seq(0..Len(v.data))
<1> DEFINE n == Len(v.dim)
           rows == a.dim[1]
           cell(r, k) == a.data[(k - 1) * rows + r]
           given == {c \in (1 .. rows) \X DOMAIN v.dim : cell(c[1], c[2]) # NA}
           at == [r \in 1 .. rows |-> [k \in DOMAIN v.dim |-> Coordinate(v, a, cell(r, k), k)]]
           kept == {r \in 1 .. rows : \A k \in DOMAIN v.dim : cell(r, k) = NA \/ at[r][k] # 0}
           places == [i \in DOMAIN Ascending(kept) |-> Linear(v.dim, at[Ascending(kept)[i]])]
           neg == \E c \in given : at[c[1]][c[2]] < 0
           out == \E c \in given : at[c[1]][c[2]] > v.dim[c[2]] \/ (a.kind = "Str" /\ at[c[1]][c[2]] = 0)
<1>1. n >= 2 /\ Len(a.dim) = 2 /\ a.dim[2] = n /\ a.kind \in {"Str", "Int", "Dbl"}
  BY DEF IsMatrixSubscript
<1>2. /\ v.dim \in Seq(Nat) /\ Product(v.dim) = Len(v.data) /\ Len(v.data) \in Nat
      /\ n \in Nat /\ DOMAIN v.dim = 1..n
      /\ \A k \in 1..n :
           /\ v.dim[k] \in Nat
           /\ MarginLabels(v, k) \in Seq(STRING) /\ Len(MarginLabels(v, k)) \in {0, v.dim[k]}
  <2>1. v.dim # <<>>
    BY <1>1
  <2> QED BY <2>1, Dims
<1>3. /\ Formed(a) /\ Len(a.data) \in Nat
      /\ \A i \in 1..Len(a.data) :
           a.data[i] = NA \/ a.data[i][2] \in IF a.kind = "Str" THEN STRING ELSE Int
  <2>1. a.kind # "Missing"
    BY <1>1
  <2> QED BY <2>1, SubscriptParts
<1>4. rows \in Nat /\ rows * n = Len(a.data)
  <2>1. a.dim \in Seq(Nat) /\ a.dim # <<>> /\ Product(a.dim) = Len(a.data)
    BY <1>1, <1>3 DEF Formed
  <2>2. a.dim = <<rows, n>> /\ rows \in Nat
    <3>1. 1 \in 1..Len(a.dim) /\ 2 \in 1..Len(a.dim)
      BY <1>1
    <3>2. rows \in Nat
      BY <2>1, <3>1, ElementOfSeq
    <3>3. a.dim = <<rows, n>>
      BY <1>1, <2>1, <3>2
    <3> QED BY <3>2, <3>3
  <2>3. Product(<<rows, n>>) = rows * n
    BY <1>2, <2>2, ProductOfTwo
  <2> QED BY <2>1, <2>2, <2>3
<1>5. ASSUME NEW r \in 1..rows, NEW k \in 1..n
      PROVE  /\ at[r][k] = Coordinate(v, a, cell(r, k), k)
             /\ at[r][k] \in Int /\ (cell(r, k) = NA => at[r][k] = 0)
  <2>1. (k - 1) * rows + r \in 1..Len(a.data)
    <3>1. PICK q \in Nat : q = k - 1
      OBVIOUS
    <3>2. q * rows \in Nat /\ (q + 1) * rows = q * rows + rows /\ q + 1 = k /\ k \in Nat
      BY <1>4, <3>1, SMTT(30)
    <3>3. k * rows <= n * rows
      <4>1. k <= n
        BY <1>2
      <4> QED BY <1>2, <1>4, <3>2, <4>1, Grows
    <3>4. n * rows = rows * n
      BY <1>2, <1>4
    <3>5. q * rows + rows <= Len(a.data)
      BY <1>4, <3>2, <3>3, <3>4
    <3>6. PICK b \in Nat : b = q * rows
      BY <3>2
    <3>7. b + rows <= Len(a.data) /\ r \in 1..rows /\ rows \in Nat /\ Len(a.data) \in Nat
      BY <1>3, <1>4, <3>5, <3>6
    <3>8. b + r \in 1..Len(a.data)
      BY ONLY <3>7, b \in Nat
    <3> QED BY <3>1, <3>6, <3>8
  <2>2. cell(r, k) = NA \/ cell(r, k)[2] \in IF a.kind = "Str" THEN STRING ELSE Int
    BY <1>3, <2>1
  <2>3. at[r][k] = Coordinate(v, a, cell(r, k), k)
    BY <1>2
  <2> HIDE DEF cell, at
  <2>4. CASE cell(r, k) = NA
    BY <2>3, <2>4 DEF Coordinate
  <2>5. CASE cell(r, k) # NA /\ a.kind = "Str"
    <3>1. at[r][k] = NameAt(MarginLabels(v, k), cell(r, k))
      BY <2>3, <2>5 DEF Coordinate
    <3>2. NameAt(MarginLabels(v, k), cell(r, k)) \in 0..Len(MarginLabels(v, k))
      BY <1>2, Finds
    <3> QED BY <2>3, <2>5, <3>1, <3>2
  <2>6. CASE cell(r, k) # NA /\ a.kind # "Str"
    <3>1. at[r][k] = cell(r, k)[2]
      BY <2>3, <2>6 DEF Coordinate
    <3> QED BY <2>2, <2>3, <2>6, <3>1
  <2> QED BY <2>4, <2>5, <2>6
<1>6. MatrixSubscript(v, a) = IF neg THEN Err("negative") ELSE IF out THEN Err("bounds") ELSE Ok(places)
  BY DEF MatrixSubscript
<1>7. CASE neg \/ out
  <2>1. MatrixSubscript(v, a).err \in {"negative", "bounds"}
    <3> HIDE DEF neg, out
    <3> QED BY <1>6, <1>7, Outcomes
  <2> QED BY <2>1
<1>8. CASE ~neg /\ ~out
  <2>1. MatrixSubscript(v, a) = Ok(places)
    <3> HIDE DEF neg, out
    <3> QED BY <1>6, <1>8
  <2>2. kept \subseteq 1..rows
    OBVIOUS
  <2>3. ASSUME NEW r \in 1..rows PROVE Linear(v.dim, at[r]) \in 0..Len(v.data)
    <3>1. ASSUME NEW k \in 1..n PROVE at[r][k] \in Nat /\ at[r][k] <= v.dim[k]
      <4>1. CASE cell(r, k) = NA
        <5>1. at[r][k] = 0 /\ v.dim[k] \in Nat
          <6> HIDE DEF at, cell
          <6> QED BY <1>2, <1>5, <4>1
        <5> HIDE DEF at
        <5> QED BY <5>1
      <4>2. CASE cell(r, k) # NA
        <5>1. <<r, k>> \in given
          BY <1>2, <4>2
        <5>2. ~(at[r][k] < 0) /\ ~(at[r][k] > v.dim[k])
          <6>1. \A c \in given : ~(at[c[1]][c[2]] < 0) /\ ~(at[c[1]][c[2]] > v.dim[c[2]])
            BY <1>8
          <6> HIDE DEF given, at
          <6>2. <<r, k>>[1] = r /\ <<r, k>>[2] = k
            OBVIOUS
          <6> QED BY <5>1, <6>1, <6>2
        <5> HIDE DEF at
        <5> QED BY <1>2, <1>5, <5>2
      <4> QED BY <4>1, <4>2
    <3>2. at[r] = [k \in 1..n |-> at[r][k]]
      BY <1>2
    <3> HIDE DEF at
    <3>3. PICK s : s = at[r]
      OBVIOUS
    <3>4. s \in Seq(Nat) /\ Len(s) = n
      <4>1. s = [k \in 1..n |-> s[k]] /\ \A k \in 1..n : s[k] \in Nat
        BY <3>1, <3>2, <3>3
      <4> QED BY <1>2, <4>1, Listed
    <3>5. \A k \in 1..n : s[k] <= v.dim[k]
      BY <3>1, <3>3
    <3>6. Linear(v.dim, s) \in 0..Product(v.dim)
      BY <1>2, <3>4, <3>5, LinearWithin
    <3> QED BY <1>2, <3>3, <3>6
  <2>4. PICK K : K = kept
    OBVIOUS
  <2>5. K \subseteq 1..rows
    BY <2>2, <2>4
  <2>6. /\ DOMAIN Ascending(K) = 1..Cardinality(K) /\ Cardinality(K) \in Nat
        /\ \A k \in 1..Cardinality(K) : Ascending(K)[k] \in K
    BY <1>4, <2>5, Ordered
  <2>7. PICK t : t = places
    OBVIOUS
  <2>8. PICK c, A : c \in Nat /\ c = Cardinality(K) /\ A = Ascending(K)
    BY <2>6
  <2>9. t = [i \in 1..c |-> Linear(v.dim, at[A[i]])]
    BY <2>4, <2>6, <2>7, <2>8
  <2>10. \A i \in 1..c : t[i] \in 0..Len(v.data)
    <3>1. ASSUME NEW i \in 1..c PROVE t[i] \in 0..Len(v.data)
      <4>1. A[i] \in 1..rows
        BY <2>5, <2>6, <2>8
      <4>2. PICK r \in 1..rows : r = A[i]
        BY <4>1
      <4>3. t[i] = Linear(v.dim, at[r])
        BY <2>9, <4>2
      <4> HIDE DEF at
      <4> QED BY <2>3, <4>3
    <3> QED BY <3>1
  <2>11. t = [i \in 1..c |-> t[i]] /\ c \in Nat
    BY <2>8, <2>9
  <2>12. t \in Seq(0..Len(v.data))
    BY ONLY <2>10, <2>11, Listed
  <2>13. MatrixSubscript(v, a).val = t
    BY <2>1, <2>7, Outcomes
  <2> QED BY <2>12, <2>13
<1> QED BY <1>7, <1>8

\* The factors of a product that is not zero are not.
LEMMA FactorsArePositive ==
    ASSUME NEW s, s \in Seq(Nat), Product(s) # 0, NEW k \in 1..Len(s)
    PROVE  s[k] \in Nat \ {0} /\ Stride(s, k) \in Nat \ {0}
<1> DEFINE n == Len(s)
<1>1. n \in Nat /\ \A j \in 1..n : s[j] \in Nat
  OBVIOUS
<1>2. PICK r \in [0..n -> Nat] :
             /\ r[0] = 1 /\ (\A j \in 1..n : r[j] = r[j - 1] * s[j])
             /\ (\A j \in 0..n : Product(SubSeq(s, 1, j)) = r[j])
             /\ Product(s) = r[n]
  BY Products
<1> DEFINE T == {j \in Nat : j <= n => r[n - j] # 0}
<1>3. 0 \in T
  <2>1. n - 0 = n
    BY <1>1
  <2> QED BY <1>2, <2>1
<1>4. ASSUME NEW j \in Nat, j \in T PROVE j + 1 \in T
  <2> SUFFICES ASSUME j + 1 <= n PROVE r[n - (j + 1)] # 0
    OBVIOUS
  <2>1. n - j \in 1..n /\ n - j - 1 = n - (j + 1) /\ n - (j + 1) \in 0..n
    BY <1>1
  <2>2. r[n - j] = r[n - (j + 1)] * s[n - j] /\ r[n - j] # 0
    <3>1. r[n - j] # 0
      <4>1. j <= n
        BY <1>1
      <4> QED BY <1>4, <4>1
    <3>2. r[n - j] = r[n - j - 1] * s[n - j]
      BY <1>2, <2>1
    <3> QED BY <2>1, <3>1, <3>2
  <2>3. s[n - j] \in Nat
    BY <1>1, <2>1
  <2> QED BY <2>2, <2>3
<1>5. Nat \subseteq T
  <2> HIDE DEF T
  <2> QED BY <1>3, <1>4, SetInduction
<1>6. \A j \in 0..n : r[j] # 0
  <2>1. ASSUME NEW j \in 0..n PROVE r[j] # 0
    <3>1. n - j \in Nat /\ n - j <= n /\ n - (n - j) = j
      BY <1>1
    <3> QED BY <1>5, <3>1
  <2> QED BY <2>1
<1>7. k \in 0..n /\ k - 1 \in 0..n
  BY <1>1
<1>8. r[k] = r[k - 1] * s[k] /\ r[k] # 0 /\ r[k - 1] # 0 /\ r[k - 1] \in Nat /\ s[k] \in Nat
  BY <1>1, <1>2, <1>6, <1>7
<1>9. Stride(s, k) = r[k - 1]
  BY <1>2, <1>7 DEF Stride
<1> QED BY <1>8, <1>9

LEMMA TurnWithin ==
    ASSUME NEW c \in Nat, NEW a \in Nat \ {0}, NEW b \in Nat \ {0}
    PROVE  ((c \div a) % b) + 1 \in 1..b
<1>1. c \div a \in Int
  OBVIOUS
<1>2. PICK q \in Int : q = c \div a
  BY <1>1
<1>3. q % b \in 0..(b - 1)
  OBVIOUS
<1> QED BY <1>2, <1>3

\* Every combination of what the margins select is one of the cells.
Margins(dims, margins, shape) ==
    /\ dims \in Seq(Nat) /\ \A k \in 1..Len(dims) : margins[k] \in Seq(0..dims[k])
    /\ shape = [k \in DOMAIN dims |-> Len(margins[k])]
LEMMA CrossedCells ==
    ASSUME NEW dims, NEW margins, NEW shape, Margins(dims, margins, shape)
    PROVE  /\ shape \in Seq(Nat) /\ Len(shape) = Len(dims) /\ Product(shape) \in Nat
           /\ Crossed(dims, margins, shape) \in Seq(0..Product(dims))
           /\ Len(Crossed(dims, margins, shape)) = Product(shape)
<1> DEFINE n == Len(dims)
<1>1. /\ dims \in Seq(Nat) /\ \A k \in 1..n : margins[k] \in Seq(0..dims[k])
      /\ shape = [k \in DOMAIN dims |-> Len(margins[k])]
  BY DEF Margins
<1>2. n \in Nat /\ DOMAIN dims = 1..n /\ \A k \in 1..n : dims[k] \in Nat
  BY <1>1
<1>3. shape = [k \in 1..n |-> shape[k]] /\ \A k \in 1..n : shape[k] \in Nat /\ shape[k] = Len(margins[k])
  BY <1>1, <1>2
<1>4. shape \in Seq(Nat) /\ Len(shape) = n
  BY <1>2, <1>3, Listed
<1>5. Product(shape) \in Nat
  <2>1. PICK r \in [0..Len(shape) -> Nat] : Product(shape) = r[Len(shape)]
    BY <1>4, ProductRuns
  <2> QED BY <1>2, <1>4, <2>1
<1>6. PICK p \in Nat : p = Product(shape)
  BY <1>5
<1> DEFINE from(c, k) == (((c - 1) \div Stride(shape, k)) % shape[k]) + 1
           at(c) == [k \in DOMAIN dims |-> margins[k][from(c, k)]]
<1>7. Crossed(dims, margins, shape) = [c \in 1..p |-> Linear(dims, at(c))]
  BY <1>6 DEF Crossed
<1>8. ASSUME NEW c \in 1..p PROVE Linear(dims, at(c)) \in 0..Product(dims)
  <2>1. ASSUME NEW k \in 1..n PROVE margins[k][from(c, k)] \in 0..dims[k]
    <3>1. p # 0 /\ k \in 1..Len(shape) /\ c - 1 \in Nat
      BY <1>4, <1>6
    <3>2. shape[k] \in Nat \ {0} /\ Stride(shape, k) \in Nat \ {0}
      BY <1>4, <1>6, <3>1, FactorsArePositive
    <3>3. from(c, k) \in 1..shape[k]
      BY <3>1, <3>2, TurnWithin
    <3> HIDE DEF from
    <3>4. from(c, k) \in 1..Len(margins[k]) /\ margins[k] \in Seq(0..dims[k])
      BY <1>1, <1>3, <3>3
    <3> QED BY <3>4, ElementOfSeq
  <2> HIDE DEF from
  <2>2. PICK s : s = at(c)
    OBVIOUS
  <2>3. s = [k \in 1..n |-> s[k]] /\ \A k \in 1..n : s[k] \in Nat /\ s[k] <= dims[k]
    <3>1. \A k \in 1..n : s[k] = margins[k][from(c, k)]
      BY <1>2, <2>2
    <3>2. s = [k \in 1..n |-> s[k]]
      BY <1>2, <2>2
    <3>3. ASSUME NEW k \in 1..n PROVE s[k] \in Nat /\ s[k] <= dims[k]
      <4>1. s[k] \in 0..dims[k] /\ dims[k] \in Nat
        BY <1>2, <2>1, <3>1
      <4> QED BY <4>1
    <3> QED BY <3>2, <3>3
  <2>4. s \in Seq(Nat) /\ Len(s) = n
    BY <1>2, <2>3, Listed
  <2>5. Linear(dims, s) \in 0..Product(dims)
    BY <1>1, <2>3, <2>4, LinearWithin
  <2> QED BY <2>2, <2>5
<1> HIDE DEF at
<1>9. PICK t : t = Crossed(dims, margins, shape)
  OBVIOUS
<1>10. t = [c \in 1..p |-> t[c]] /\ \A c \in 1..p : t[c] \in 0..Product(dims)
  BY <1>7, <1>8, <1>9
<1>11. t \in Seq(0..Product(dims)) /\ Len(t) = p
  BY <1>10, Listed
<1> QED BY <1>4, <1>6, <1>9, <1>11

LEMMA ArraySelects ==
    ASSUME NEW v, Deep(v), v.dim # <<>>, NEW args, Len(args) = Len(v.dim),
           \A k \in 1..Len(args) : Subscript(args[k]), ArrayPositions(v, args).err = ""
    PROVE  LET p == ArrayPositions(v, args).val
               shape == [k \in DOMAIN v.dim |-> Len(p.margins[k])]
           IN  /\ \A k \in 1..Len(v.dim) : p.margins[k] \in Seq(0..v.dim[k])
               /\ shape \in Seq(Nat) /\ Len(shape) = Len(v.dim) /\ Product(shape) \in Nat
               /\ p.cells \in Seq(0..Len(v.data)) /\ Len(p.cells) = Product(shape)
<1> DEFINE n == Len(v.dim)
           sel == [k \in DOMAIN v.dim |->
                   IF args[k].kind = "Missing" THEN Ok([i \in 1 .. v.dim[k] |-> i])
                   ELSE ResolveIndex(args[k], v.dim[k], MarginLabels(v, k))]
           margins == [k \in DOMAIN v.dim |-> sel[k].val]
           shape == [k \in DOMAIN v.dim |-> Len(margins[k])]
           chosen == [margins |-> margins, cells |-> Crossed(v.dim, margins, shape)]
           fails == \E k \in DOMAIN v.dim : MarginFails(v, args[k], k)
           mixed == \E k \in DOMAIN v.dim : sel[k].err # ""
<1>1. /\ v.dim \in Seq(Nat) /\ Product(v.dim) = Len(v.data) /\ Len(v.data) \in Nat
      /\ n \in Nat /\ DOMAIN v.dim = 1..n
      /\ \A k \in 1..n :
           /\ v.dim[k] \in Nat
           /\ MarginLabels(v, k) \in Seq(STRING) /\ Len(MarginLabels(v, k)) \in {0, v.dim[k]}
  BY Dims
<1>2. ArrayPositions(v, args) = IF fails THEN Err("bounds") ELSE IF mixed THEN Err("mixed") ELSE Ok(chosen)
  BY DEF ArrayPositions
<1>3. ~mixed /\ ArrayPositions(v, args).val = chosen
  <2> HIDE DEF fails, mixed, chosen
  <2> QED BY <1>2, Outcomes
<1>4. ASSUME NEW k \in 1..n PROVE sel[k].val \in Seq(0..v.dim[k])
  <2>1. Subscript(args[k])
    OBVIOUS
  <2>2. CASE args[k].kind = "Missing"
    <3>1. PICK d \in Nat : d = v.dim[k]
      BY <1>1
    <3>2. PICK t : t = [i \in 1 .. d |-> i]
      OBVIOUS
    <3>3. sel[k] = Ok(t)
      BY <1>1, <2>2, <3>1, <3>2
    <3>4. t = [i \in 1 .. d |-> t[i]] /\ \A i \in 1..d : t[i] \in 0..d
      BY ONLY <3>1, <3>2
    <3>5. t \in Seq(0..d)
      BY <3>4, Listed
    <3> HIDE DEF sel
    <3>6. sel[k].val = t
      BY <3>3, Outcomes
    <3> QED BY <3>1, <3>5, <3>6
  <2>3. CASE args[k].kind # "Missing"
    <3>1. sel[k] = ResolveIndex(args[k], v.dim[k], MarginLabels(v, k))
      BY <1>1, <2>3
    <3>2. sel[k].err = ""
      BY <1>1, <1>3
    <3> HIDE DEF sel
    <3>3. v.dim[k] \in Nat /\ MarginLabels(v, k) \in Seq(STRING) /\ Len(MarginLabels(v, k)) <= v.dim[k]
      <4>1. v.dim[k] \in Nat /\ MarginLabels(v, k) \in Seq(STRING) /\ Len(MarginLabels(v, k)) \in {0, v.dim[k]}
        BY <1>1
      <4>2. PICK d, m : d = v.dim[k] /\ m = MarginLabels(v, k)
        OBVIOUS
      <4>3. d \in Nat /\ m \in Seq(STRING) /\ Len(m) \in {0, d}
        BY <4>1, <4>2
      <4>4. Len(m) <= d
        BY ONLY <4>3
      <4> QED BY <4>2, <4>3, <4>4
    <3> QED BY <2>1, <2>3, <3>1, <3>2, <3>3, Resolves
  <2> QED BY <2>2, <2>3
<1> HIDE DEF sel
<1>5. \A k \in 1..n : margins[k] \in Seq(0..v.dim[k])
  BY <1>1, <1>4
<1>6. PICK M, S : M = margins /\ S = shape
  OBVIOUS
<1>7. /\ S \in Seq(Nat) /\ Len(S) = n /\ Product(S) \in Nat
      /\ Crossed(v.dim, M, S) \in Seq(0..Product(v.dim))
      /\ Len(Crossed(v.dim, M, S)) = Product(S)
  <2>1. \A k \in 1..Len(v.dim) : M[k] \in Seq(0..v.dim[k])
    BY <1>5, <1>6
  <2>2. S = [k \in DOMAIN v.dim |-> Len(M[k])]
    BY <1>6
  <2>3. PICK D : D = v.dim
    OBVIOUS
  <2> HIDE DEF margins, shape
  <2>4. D \in Seq(Nat) /\ Len(D) = n /\ (\A k \in 1..Len(D) : M[k] \in Seq(0..D[k]))
        /\ S = [k \in DOMAIN D |-> Len(M[k])]
    BY <1>1, <2>1, <2>2, <2>3
  <2>5. /\ S \in Seq(Nat) /\ Len(S) = Len(D) /\ Product(S) \in Nat
        /\ Crossed(D, M, S) \in Seq(0..Product(D))
        /\ Len(Crossed(D, M, S)) = Product(S)
    <3>1. Margins(D, M, S)
      BY <2>4 DEF Margins
    <3> QED BY ONLY <3>1, CrossedCells
  <2> QED BY <2>3, <2>4, <2>5
<1>8. PICK p : p = ArrayPositions(v, args).val
  OBVIOUS
<1>9. p.margins = M /\ p.cells = Crossed(v.dim, M, S)
  <2>1. p = [margins |-> M, cells |-> Crossed(v.dim, M, S)]
    <3>1. p = chosen
      BY <1>3, <1>8
    <3> HIDE DEF margins, shape
    <3> QED BY <1>6, <3>1
  <2> QED BY <2>1
<1>10. [k \in DOMAIN v.dim |-> Len(p.margins[k])] = S
  BY <1>6, <1>9
<1> HIDE DEF margins, shape, chosen
<1> QED BY <1>1, <1>5, <1>6, <1>7, <1>8, <1>9, <1>10

-----------------------------------------------------------------------------
(* What reading gives *)

\* Elements for a vector like v.
Took(v, c, d) ==
    /\ c \in Nat /\ d = [i \in 1..c |-> d[i]]
    /\ \A i \in 1..c : /\ Fits(v.kind, d[i])
                       /\ v.levels # <<>> => d[i] = NA \/ d[i][2] \in 1..Len(v.levels)

\* The elements at positions that are there.
LEMMA Taken ==
    ASSUME NEW v, Deep(v), v.kind # "Null", NEW pos, pos \in Seq(0..Len(v.data))
    PROVE  \E d : TakePositions(v, pos) = Rec(v.kind, d, <<>>, <<>>, <<>>, <<>>) /\ Took(v, Len(pos), d)
<1> DEFINE none == IF v.kind = "List" THEN Box(NULL) ELSE NA
           c == Len(pos)
<1>1. PICK d : d = [i \in DOMAIN pos |-> IF pos[i] = 0 THEN none ELSE v.data[pos[i]]]
  OBVIOUS
<1>2. TakePositions(v, pos) = V(v.kind, d)
  BY <1>1 DEF TakePositions
<1>3. V(v.kind, d) = Rec(v.kind, d, <<>>, <<>>, <<>>, <<>>)
  BY DEF V, Rec
<1>4. DOMAIN pos = 1..c /\ c \in Nat /\ \A i \in 1..c : pos[i] \in 0..Len(v.data)
  BY ElementOfSeq
<1>5. Shaped(v.kind, Len(v.data), v.data, v.names, v.dim, v.dimnames, v.levels)
  BY DeepParts
<1>6. /\ Len(v.data) \in Nat /\ \A i \in 1..Len(v.data) : Fits(v.kind, v.data[i])
      /\ v.levels # <<>> => /\ v.kind = "Int"
                            /\ \A i \in 1..Len(v.data) : v.data[i] = NA \/ v.data[i][2] \in 1..Len(v.levels)
  BY <1>5 DEF Shaped
<1>7. Fits(v.kind, none)
  BY NoneFits
<1>8. ASSUME NEW i \in 1..c
      PROVE  /\ Fits(v.kind, d[i])
             /\ v.levels # <<>> => d[i] = NA \/ d[i][2] \in 1..Len(v.levels)
  <2>1. CASE pos[i] = 0
    <3>1. d[i] = none
      BY <1>1, <1>4, <2>1
    <3> QED BY <1>6, <1>7, <3>1
  <2>2. CASE pos[i] # 0
    <3>1. d[i] = v.data[pos[i]] /\ pos[i] \in 1..Len(v.data)
      BY <1>1, <1>4, <1>6, <2>2
    <3>2. PICK j \in 1..Len(v.data) : j = pos[i]
      BY <3>1
    <3>3. d[i] = v.data[j]
      BY <3>1, <3>2
    <3> QED BY <1>6, <3>3
  <2> QED BY <2>1, <2>2
<1>9. d = [i \in 1..c |-> d[i]]
  BY <1>1, <1>4
<1>10. Took(v, c, d)
  BY <1>4, <1>8, <1>9 DEF Took
<1> QED BY <1>2, <1>3, <1>10

LEMMA LabelsOf ==
    ASSUME NEW names, names \in Seq(STRING), NEW S, NEW pos, pos \in Seq(S)
    PROVE  Labels(names, pos) \in Seq(STRING) /\ Len(Labels(names, pos)) = Len(pos)
<1>1. DOMAIN pos = 1..Len(pos) /\ Len(pos) \in Nat
  OBVIOUS
<1>2. PICK t, c : t = Labels(names, pos) /\ c = Len(pos)
  OBVIOUS
<1>3. t = [i \in 1..c |-> IF pos[i] \in DOMAIN names THEN names[pos[i]] ELSE NoName]
  BY <1>1, <1>2 DEF Labels
<1>4. \A i \in 1..c : t[i] \in STRING
  <2>1. \A j \in DOMAIN names : names[j] \in STRING
    OBVIOUS
  <2>2. NoName \in STRING
    BY NamesAssumption
  <2> QED BY <1>3, <2>1, <2>2
<1>5. t = [i \in 1..c |-> t[i]] /\ c \in Nat
  BY <1>1, <1>2, <1>3
<1> QED BY <1>2, <1>4, <1>5, Listed

\* What the cells of an array are put in: the margins that are kept, as dimensions.
Margin(sel, labels, shape, n) ==
    /\ n \in Nat /\ shape \in Seq(Nat) /\ Len(shape) = n
    /\ \A k \in 1..n : /\ shape[k] = Len(sel[k])
                       /\ labels[k] \in Seq(STRING) /\ Len(labels[k]) \in {0, shape[k]}

LEMMA ShapedAsArray ==
    ASSUME NEW v, Deep(v), v.kind # "Null", NEW n, NEW sel, NEW labels, NEW shape, Margin(sel, labels, shape, n),
           NEW d, Took(v, Product(shape), d),
           NEW P, P \subseteq 1..n, \A k \in 1..n : k \notin P => shape[k] = 1
    PROVE  Deep(ArrayShaped(Rec(v.kind, d, <<>>, <<>>, <<>>, <<>>), sel, labels, Ascending(P)))
<1> DEFINE out == Rec(v.kind, d, <<>>, <<>>, <<>>, <<>>)
<1>1. /\ n \in Nat /\ shape \in Seq(Nat) /\ Len(shape) = n
      /\ \A k \in 1..n : /\ shape[k] = Len(sel[k])
                         /\ labels[k] \in Seq(STRING) /\ Len(labels[k]) \in {0, shape[k]}
  BY DEF Margin
<1>2. PICK c, A, m : c \in Nat /\ c = Cardinality(P) /\ A = Ascending(P) /\ m = Those(shape, P)
  BY <1>1, Ordered
<1>3. /\ A \in Seq(P) /\ Len(A) = c /\ DOMAIN A = 1..c /\ \A k \in 1..c : A[k] \in P
  BY <1>1, <1>2, Ordered
<1>4. /\ m \in Seq(Nat) /\ Len(m) = c /\ \A k \in 1..c : m[k] = shape[A[k]]
  <2>1. /\ Those(shape, P) \in Seq(Nat) /\ Len(Those(shape, P)) = Cardinality(P)
        /\ \A k \in 1..Cardinality(P) : Those(shape, P)[k] = shape[Ascending(P)[k]]
    <3>1. P \subseteq 1..Len(shape)
      BY <1>1
    <3>2. PICK s \in Seq(Nat) : s = shape
      BY <1>1
    <3>3. P \subseteq 1..Len(s)
      BY <3>1, <3>2
    <3>4. /\ Those(s, P) \in Seq(Nat) /\ Len(Those(s, P)) = Cardinality(P)
          /\ \A k \in 1..Cardinality(P) : /\ Those(s, P)[k] = s[Ascending(P)[k]]
                                          /\ Ascending(P)[k] \in P
      BY ONLY <3>2, <3>3, ThoseAt
    <3> QED BY <3>2, <3>4
  <2> QED BY <1>2, <2>1
<1>5. Product(m) = Product(shape)
  BY <1>1, <1>2, ProductOfKept
<1>6. m = [i \in DOMAIN A |-> Len(sel[A[i]])]
  <2>1. m = [i \in DOMAIN A |-> shape[A[i]]]
    BY <1>2 DEF Those
  <2>2. \A i \in DOMAIN A : shape[A[i]] = Len(sel[A[i]])
    BY <1>1, <1>3
  <2> QED BY <2>1, <2>2
<1>7. PICK s \in Nat : s = Product(shape)
  BY DEF Took
<1>8. /\ d = [i \in 1..s |-> d[i]] /\ \A i \in 1..s : Fits(v.kind, d[i])
  BY <1>7 DEF Took
<1>9. v.kind \in Kinds \ {"Null"}
  BY DeepParts DEF Shaped
<1>10. ASSUME NEW names, names \in Seq(STRING), Len(names) \in {0, s}
       PROVE  Deep(Rec(v.kind, d, names, <<>>, <<>>, <<>>))
  <2>1. Shaped(v.kind, s, d, names, <<>>, <<>>, <<>>)
    BY <1>8, <1>9, <1>10 DEF Shaped
  <2> QED BY <2>1, DeepMade
<1>11. CASE Len(A) >= 2
  <2> DEFINE a == IF \A k \in ToSet(A) : labels[k] = <<>> THEN <<>> ELSE [i \in DOMAIN A |-> labels[A[i]]]
  <2>1. ArrayShaped(out, sel, labels, A) = [out EXCEPT !.dim = m, !.dimnames = a]
    BY <1>6, <1>11 DEF ArrayShaped
  <2>2. [out EXCEPT !.dim = m, !.dimnames = a] = Rec(v.kind, d, <<>>, m, a, <<>>)
    <3> HIDE DEF a
    <3>1. Labelled(Dimmed(out, m), a) = Rec(v.kind, d, <<>>, m, a, <<>>)
      BY RecWith
    <3>2. PICK o : o = out
      OBVIOUS
    <3>3. [o EXCEPT !.dim = m, !.dimnames = a] = Labelled(Dimmed(o, m), a)
      BY ONLY TRUE DEF Labelled, Dimmed
    <3> QED BY <3>1, <3>2, <3>3
  <2>3. a \in Seq(Seq(STRING)) /\ \A j \in 1..Len(a) : j \in 1..Len(m) /\ Len(a[j]) \in {0, m[j]}
    <3>1. CASE \A k \in ToSet(A) : labels[k] = <<>>
      <4>1. a = <<>>
        BY <3>1
      <4> HIDE DEF a
      <4> QED BY <4>1
    <3>2. CASE ~\A k \in ToSet(A) : labels[k] = <<>>
      <4>1. PICK t : t = [i \in DOMAIN A |-> labels[A[i]]]
        OBVIOUS
      <4>2. a = t
        BY <3>2, <4>1
      <4> HIDE DEF a
      <4>3. \A i \in 1..c : t[i] = labels[A[i]] /\ A[i] \in 1..n
        BY <1>3, <4>1
      <4>4. \A i \in 1..c : t[i] \in Seq(STRING)
        BY <1>1, <4>3
      <4>5. t \in Seq(Seq(STRING)) /\ Len(t) = c
        <5>1. t = [i \in 1..c |-> t[i]] /\ c \in Nat
          BY <1>3, <4>1
        <5> QED BY ONLY <4>4, <5>1, Listed
      <4>6. \A j \in 1..c : Len(t[j]) \in {0, m[j]}
        BY <1>1, <1>4, <4>3
      <4> QED BY <1>4, <4>2, <4>5, <4>6
    <3> QED BY <3>1, <3>2
  <2> HIDE DEF a
  <2>4. Shaped(v.kind, s, d, <<>>, m, a, <<>>)
    BY <1>4, <1>5, <1>7, <1>8, <1>9, <2>3 DEF Shaped
  <2>5. Deep(Rec(v.kind, d, <<>>, m, a, <<>>))
    BY <2>4, DeepMade
  <2> QED BY <1>2, <2>1, <2>2, <2>5
<1>12. CASE ~(Len(A) >= 2) /\ A # <<>> /\ \E nm \in ToSet(labels[A[1]]) : nm # NoName
  <2>1. ArrayShaped(out, sel, labels, A) = Named(out, labels[A[1]])
    BY <1>12 DEF ArrayShaped
  <2>2. PICK names : names = labels[A[1]]
    OBVIOUS
  <2>3. Named(out, names) = Rec(v.kind, d, names, <<>>, <<>>, <<>>)
    BY RecWith
  <2>4. c = 1 /\ A[1] \in 1..n
    <3>1. c = 1
      <4>1. Len(A) # 0
        BY <1>3, <1>12
      <4> QED BY <1>3, <1>12, <4>1
    <3>2. 1 \in 1..c
      BY <3>1
    <3> QED BY <1>3, <3>1, <3>2
  <2>5. names \in Seq(STRING) /\ Len(names) \in {0, shape[A[1]]}
    BY <1>1, <2>2, <2>4
  <2>6. m = <<m[1]>> /\ m[1] \in Nat /\ m[1] = shape[A[1]]
    <3>1. 1 \in 1..c
      BY <2>4
    <3>2. m[1] \in Nat /\ m[1] = shape[A[1]]
      BY <1>4, <3>1, ElementOfSeq
    <3>3. m = <<m[1]>>
      BY <1>4, <2>4, <3>2
    <3> QED BY <3>2, <3>3
  <2>7. Product(m) = m[1]
    BY <2>6, ProductOfOne
  <2>8. Len(names) \in {0, s}
    BY <1>5, <1>7, <2>5, <2>6, <2>7
  <2> QED BY <1>2, <1>10, <2>1, <2>2, <2>3, <2>5, <2>8
<1>13. CASE ~(Len(A) >= 2) /\ ~(A # <<>> /\ \E nm \in ToSet(labels[A[1]]) : nm # NoName)
  <2>1. ArrayShaped(out, sel, labels, A) = out
    BY <1>13 DEF ArrayShaped
  <2>2. <<>> \in Seq(STRING) /\ Len(<<>>) \in {0, s}
    OBVIOUS
  <2> QED BY <1>2, <1>10, <2>1, <2>2
<1> QED BY <1>11, <1>12, <1>13

\* x[i, j], and x[i].
LEMMA ArrayRead ==
    ASSUME NEW v, Deep(v), v.dim # <<>>, NEW args, Len(args) = Len(v.dim),
           \A k \in 1..Len(args) : Subscript(args[k]), NEW drop, ArrayIndex(v, args, drop).err = ""
    PROVE  Deep(ArrayIndex(v, args, drop).val)
<1> DEFINE n == Len(v.dim)
           r == ArrayPositions(v, args)
           sel == r.val.margins
           labels == [k \in DOMAIN v.dim |->
                        IF MarginLabels(v, k) = <<>> THEN <<>> ELSE Labels(MarginLabels(v, k), sel[k])]
           P == {k \in DOMAIN v.dim : ~drop \/ Len(sel[k]) # 1}
           shape == [k \in DOMAIN v.dim |-> Len(sel[k])]
           out == ArrayShaped(TakePositions(v, r.val.cells), sel, labels, Ascending(P))
<1>1. ArrayIndex(v, args, drop) = IF r.err # "" THEN r ELSE Ok(out)
  BY DEF ArrayIndex
<1>2. r.err = ""
  <2> HIDE DEF r, out
  <2> QED BY <1>1, Outcomes
<1>3. ArrayIndex(v, args, drop).val = out
  <2> HIDE DEF r, out
  <2> QED BY <1>1, <1>2, Outcomes
<1>4. /\ \A k \in 1..n : sel[k] \in Seq(0..v.dim[k])
      /\ shape \in Seq(Nat) /\ Len(shape) = n /\ Product(shape) \in Nat
      /\ r.val.cells \in Seq(0..Len(v.data)) /\ Len(r.val.cells) = Product(shape)
  BY <1>2, ArraySelects
<1>5. /\ n \in Nat /\ DOMAIN v.dim = 1..n
      /\ \A k \in 1..n :
           /\ v.dim[k] \in Nat
           /\ MarginLabels(v, k) \in Seq(STRING) /\ Len(MarginLabels(v, k)) \in {0, v.dim[k]}
  BY Dims
<1>6. v.kind # "Null"
  <2> SUFFICES ASSUME v.kind = "Null" PROVE FALSE
    OBVIOUS
  <2>1. v = NULL
    BY NullIs
  <2>2. NULL.dim = <<>>
    BY DEF NULL, V
  <2> QED BY <2>1, <2>2
<1> HIDE DEF r
<1>7. PICK d : TakePositions(v, r.val.cells) = Rec(v.kind, d, <<>>, <<>>, <<>>, <<>>) /\ Took(v, Product(shape), d)
  <2> HIDE DEF shape
  <2>1. PICK cells : cells = r.val.cells
    OBVIOUS
  <2>2. cells \in Seq(0..Len(v.data)) /\ Len(cells) = Product(shape)
    BY <1>4, <2>1
  <2>3. \E d : TakePositions(v, cells) = Rec(v.kind, d, <<>>, <<>>, <<>>, <<>>) /\ Took(v, Len(cells), d)
    BY <1>6, <2>2, Taken
  <2> QED BY <2>1, <2>2, <2>3
<1>8. ASSUME NEW k \in 1..n
      PROVE  /\ shape[k] = Len(sel[k])
             /\ labels[k] \in Seq(STRING) /\ Len(labels[k]) \in {0, shape[k]}
  <2>1. shape[k] = Len(sel[k])
    BY <1>5
  <2>2. CASE MarginLabels(v, k) = <<>>
    <3>1. labels[k] = <<>>
      BY <1>5, <2>2
    <3>2. <<>> \in Seq(STRING) /\ Len(<<>>) = 0
      BY EmptySeq
    <3> HIDE DEF labels, shape, sel
    <3> QED BY <2>1, <3>1, <3>2
  <2>3. CASE MarginLabels(v, k) # <<>>
    <3>1. labels[k] = Labels(MarginLabels(v, k), sel[k])
      BY <1>5, <2>3
    <3>2. MarginLabels(v, k) \in Seq(STRING) /\ sel[k] \in Seq(0..v.dim[k])
      BY <1>4, <1>5
    <3> HIDE DEF labels, shape, sel
    <3>3. Labels(MarginLabels(v, k), sel[k]) \in Seq(STRING) /\ Len(Labels(MarginLabels(v, k), sel[k])) = Len(sel[k])
      BY <3>2, LabelsOf
    <3> QED BY <2>1, <3>1, <3>3
  <2> QED BY <2>1, <2>2, <2>3
<1>9. P \subseteq 1..n /\ \A k \in 1..n : k \notin P => shape[k] = 1
  <2>1. P \subseteq 1..n
    BY <1>5
  <2>2. \A k \in 1..n : k \notin P => Len(sel[k]) = 1
    BY <1>5
  <2> HIDE DEF P, shape, labels
  <2> QED BY <1>8, <2>1, <2>2
<1> HIDE DEF shape, labels, P
<1>10. Margin(sel, labels, shape, n)
  BY <1>4, <1>5, <1>8 DEF Margin
<1>11. PICK S, L, H, Q : S = sel /\ L = labels /\ H = shape /\ Q = P
  OBVIOUS
<1> HIDE DEF sel
<1>12. Deep(ArrayShaped(Rec(v.kind, d, <<>>, <<>>, <<>>, <<>>), S, L, Ascending(Q)))
  <2>1. n \in Nat /\ Margin(S, L, H, n) /\ Took(v, Product(H), d) /\ Q \subseteq 1..n
        /\ \A k \in 1..n : k \notin Q => H[k] = 1
    BY <1>5, <1>7, <1>9, <1>10, <1>11
  <2> QED BY <1>6, <2>1, ShapedAsArray
<1> QED BY <1>3, <1>7, <1>11, <1>12

\* A value's names are as many as its elements, or fewer.
LEMMA NamesParts ==
    ASSUME NEW v, Deep(v)
    PROVE  /\ NamesOf(v) \in Seq(STRING) /\ Len(NamesOf(v)) \in Nat /\ Len(NamesOf(v)) <= Len(v.data)
           /\ Len(v.data) \in Nat /\ DOMAIN v.data = 1..Len(v.data)
<1>1. Formed(v)
  BY Opens DEF Whole
<1> QED BY <1>1, FormedParts

LEMMA PositionsAreThere ==
    ASSUME NEW v, Deep(v), NEW a, Subscript(a), PositionsRead(v, a).err = ""
    PROVE  PositionsRead(v, a).val \in Seq(0..Len(v.data))
<1>1. /\ NamesOf(v) \in Seq(STRING) /\ Len(NamesOf(v)) \in Nat /\ Len(NamesOf(v)) <= Len(v.data)
      /\ Len(v.data) \in Nat /\ DOMAIN v.data = 1..Len(v.data)
  BY NamesParts
<1>2. CASE a.kind = "Missing"
  <2>1. PICK n \in Nat : n = Len(v.data)
    BY <1>1
  <2>2. PICK t : t = [i \in DOMAIN v.data |-> i]
    OBVIOUS
  <2>3. PositionsRead(v, a) = Ok(t)
    BY <1>2, <2>2 DEF PositionsRead
  <2>4. t = [i \in 1..n |-> i]
    BY <1>1, <2>1, <2>2
  <2>5. t = [i \in 1..n |-> t[i]] /\ \A i \in 1..n : t[i] \in 0..n
    BY ONLY <2>4, n \in Nat
  <2>6. t \in Seq(0..n)
    BY <2>5, Listed
  <2> QED BY <2>1, <2>3, <2>6, Outcomes
<1>3. CASE a.kind # "Missing" /\ IsMatrixSubscript(v, a)
  <2>1. PositionsRead(v, a) = MatrixSubscript(v, a)
    BY <1>3 DEF PositionsRead
  <2> QED BY <1>3, <2>1, MatrixSelects
<1>4. CASE a.kind # "Missing" /\ ~IsMatrixSubscript(v, a)
  <2>1. PositionsRead(v, a) = ResolveIndex(a, Len(v.data), NamesOf(v))
    BY <1>4 DEF PositionsRead
  <2>2. PICK n \in Nat, names \in Seq(STRING) : n = Len(v.data) /\ names = NamesOf(v) /\ Len(names) <= n
    BY <1>1
  <2>3. ResolveIndex(a, n, names).err = "" => ResolveIndex(a, n, names).val \in Seq(0..n)
    BY <1>4, <2>2, Resolves
  <2> QED BY <2>1, <2>2, <2>3
<1> QED BY <1>2, <1>3, <1>4

\* Every number of a set is one of those in order.
LEMMA Reached ==
    ASSUME NEW m \in Nat, NEW S, S \subseteq 1..m, NEW a \in S
    PROVE  \E k \in 1..Cardinality(S) : Ascending(S)[k] = a
<1> DEFINE k == Upto(S, a)
           To(b) == {i \in S : i <= b}
<1>1. /\ IsFiniteSet(S) /\ Cardinality(S) \in Nat
      /\ \A j \in 1..Cardinality(S) :
           /\ {n \in S : Upto(S, n) >= j} # {}
           /\ Ascending(S)[j] \in {n \in S : Upto(S, n) >= j}
           /\ \A n \in S : Upto(S, n) >= j => Ascending(S)[j] <= n
  BY InOrder
<1>2. /\ \A b : To(b) \subseteq S /\ IsFiniteSet(To(b)) /\ Cardinality(To(b)) \in Nat
      /\ k = Cardinality(To(a)) /\ k <= Cardinality(S)
  <2>1. \A b : To(b) \subseteq S
    OBVIOUS
  <2>2. k = Cardinality(To(a))
    BY DEF Upto
  <2> HIDE DEF To, k
  <2>3. \A b : IsFiniteSet(To(b)) /\ Cardinality(To(b)) <= Cardinality(S)
    BY <1>1, <2>1, FS_Subset
  <2>4. \A b : Cardinality(To(b)) \in Nat
    BY <2>3, FS_CardinalityType
  <2> QED BY <2>1, <2>2, <2>3, <2>4
<1>3. k \in 1..Cardinality(S)
  <2>1. a \in To(a)
    OBVIOUS
  <2>2. To(a) # {}
    BY <2>1
  <2>3. Cardinality(To(a)) # 0
    <3> HIDE DEF To, k
    <3> QED BY <1>2, <2>2, FS_EmptySet
  <2> HIDE DEF To, k
  <2> QED BY <1>1, <1>2, <2>3
<1>4. PICK b : b = Ascending(S)[k]
  OBVIOUS
<1>5. b \in S /\ Upto(S, b) >= k /\ b <= a
  <2> HIDE DEF k
  <2>1. b \in S /\ Upto(S, b) >= k /\ \A n \in S : Upto(S, n) >= k => b <= n
    BY <1>1, <1>3, <1>4
  <2>2. Upto(S, a) >= k
    <3>1. k \in Nat
      BY <1>3
    <3> QED BY <3>1 DEF k
  <2> QED BY <2>1, <2>2
<1>6. ASSUME b < a PROVE FALSE
  <2>1. To(b) \subseteq To(a)
    <3>1. a \in Nat /\ b \in Nat /\ \A i \in S : i \in Nat
      BY <1>5
    <3>2. \A i \in S : i <= b => i <= a
      BY <1>6, <3>1
    <3> QED BY <3>2
  <2>2. a \in To(a) /\ a \notin To(b)
    BY <1>5, <1>6
  <2>3. Upto(S, b) = Cardinality(To(b))
    BY DEF Upto
  <2> HIDE DEF To, k
  <2>4. Cardinality(To(b)) <= Cardinality(To(a)) /\ (Cardinality(To(b)) = Cardinality(To(a)) => To(b) = To(a))
    BY <1>2, <2>1, FS_Subset
  <2>5. Cardinality(To(b)) < Cardinality(To(a))
    BY <1>2, <2>2, <2>4
  <2> QED BY <1>2, <1>5, <2>3, <2>5
<1>7. b = a
  <2>1. a \in Nat /\ b \in Nat
    BY <1>5
  <2> QED BY <1>5, <1>6, <2>1
<1> HIDE DEF k
<1> QED BY <1>3, <1>4, <1>7

\* The levels that are used, and their new codes.
LEMMA LevelsDropped ==
    ASSUME NEW c, NEW d, NEW n, NEW l, Shaped("Int", c, d, n, <<>>, <<>>, l)
    PROVE  Deep(DropUnusedLevels(Rec("Int", d, n, <<>>, <<>>, l)))
<1> DEFINE f == Rec("Int", d, n, <<>>, <<>>, l)
           U == {i \in DOMAIN l : <<"int", i>> \in ToSet(d)}
           codes(used) == [j \in DOMAIN d |-> IF d[j] = NA THEN NA
                             ELSE <<"int", FirstOf({i \in DOMAIN used : used[i] = d[j][2]})>>]
<1>1. /\ c \in Nat /\ d = [i \in 1..c |-> d[i]] /\ (\A i \in 1..c : Fits("Int", d[i]))
      /\ l \in Seq(STRING) /\ (l # <<>> => \A i \in 1..c : d[i] = NA \/ d[i][2] \in 1..Len(l))
  BY DEF Shaped
<1>2. /\ DOMAIN d = 1..c /\ DOMAIN l = 1..Len(l) /\ Len(l) \in Nat
  <2>1. DOMAIN d = 1..c
    BY <1>1
  <2> QED BY <1>1, <2>1
<1>3. U \subseteq 1..Len(l)
  BY <1>2
<1>4. PICK u : u = Ascending(U)
  OBVIOUS
<1>5. PICK q \in Nat : q = Cardinality(U)
  <2> HIDE DEF U
  <2> QED BY <1>2, <1>3, Ordered
<1>6. /\ DOMAIN u = 1..q /\ \A k \in 1..q : u[k] \in 1..Len(l)
  <2> HIDE DEF U
  <2>1. /\ DOMAIN Ascending(U) = 1..Cardinality(U) /\ \A k \in 1..Cardinality(U) : Ascending(U)[k] \in U
    BY <1>2, <1>3, Ordered
  <2> QED BY <1>3, <1>4, <1>5, <2>1
<1>7. PICK m, e : m = [i \in DOMAIN u |-> l[u[i]]] /\ e = codes(u)
  OBVIOUS
<1>8. DropUnusedLevels(f) = [f EXCEPT !.levels = m, !.data = e, !.names = <<>>]
  <2>1. f.data = d /\ f.levels = l
    BY RecAt
  <2> HIDE DEF f
  <2> QED BY <1>4, <1>7, <2>1 DEF DropUnusedLevels
<1>9. DropUnusedLevels(f) = Rec("Int", e, <<>>, <<>>, <<>>, m)
  <2>1. PICK none : none = <<>>
    OBVIOUS
  <2>2. PICK r : r = f
    OBVIOUS
  <2>3. r = [kind |-> "Int", data |-> d, names |-> n, dim |-> none, dimnames |-> none, levels |-> l]
    BY <2>1, <2>2 DEF Rec
  <2>4. [r EXCEPT !.levels = m] =
           [kind |-> "Int", data |-> d, names |-> n, dim |-> none, dimnames |-> none, levels |-> m]
    BY ONLY <2>3
  <2>5. PICK r1 : r1 = [r EXCEPT !.levels = m]
    OBVIOUS
  <2>6. r1 = [kind |-> "Int", data |-> d, names |-> n, dim |-> none, dimnames |-> none, levels |-> m]
    BY ONLY <2>4, <2>5
  <2>7. [r1 EXCEPT !.data = e] =
           [kind |-> "Int", data |-> e, names |-> n, dim |-> none, dimnames |-> none, levels |-> m]
    BY ONLY <2>6
  <2>8. PICK r2 : r2 = [r1 EXCEPT !.data = e]
    OBVIOUS
  <2>9. r2 = [kind |-> "Int", data |-> e, names |-> n, dim |-> none, dimnames |-> none, levels |-> m]
    BY ONLY <2>7, <2>8
  <2>10. [r2 EXCEPT !.names = none] =
            [kind |-> "Int", data |-> e, names |-> none, dim |-> none, dimnames |-> none, levels |-> m]
    BY ONLY <2>9
  <2>11. [r EXCEPT !.levels = m, !.data = e, !.names = none] = [r2 EXCEPT !.names = none]
    BY ONLY <2>5, <2>8
  <2> HIDE DEF f
  <2> QED BY <1>8, <2>1, <2>2, <2>10, <2>11 DEF Rec
<1>10. m \in Seq(STRING) /\ Len(m) = q
  <2>1. m = [i \in 1..q |-> m[i]] /\ \A i \in 1..q : m[i] = l[u[i]]
    BY <1>6, <1>7
  <2>2. \A i \in 1..q : m[i] \in STRING
    BY <1>1, <1>6, <2>1
  <2> QED BY <2>1, <2>2, Listed
<1>11. e = [j \in 1..c |-> e[j]]
  BY <1>2, <1>7
<1>12. ASSUME NEW j \in 1..c
       PROVE  Fits("Int", e[j]) /\ (m # <<>> => e[j] = NA \/ e[j][2] \in 1..Len(m))
  <2>1. CASE d[j] = NA
    <3>1. e[j] = NA
      BY <1>2, <1>7, <2>1
    <3> QED BY <3>1 DEF Fits
  <2>2. CASE d[j] # NA
    <3> DEFINE F == {i \in DOMAIN u : u[i] = d[j][2]}
    <3>1. e[j] = <<"int", FirstOf(F)>>
      BY <1>2, <1>7, <2>2
    <3>2. e[j] = <<"int", e[j][2]>> /\ e[j][2] = FirstOf(F)
      <4> HIDE DEF F
      <4> QED BY <3>1
    <3>3. Fits("Int", e[j])
      BY <3>2 DEF Fits, Lower
    <3>4. m # <<>> => FirstOf(F) \in 1..q
      <4> SUFFICES ASSUME m # <<>> PROVE FirstOf(F) \in 1..q
        OBVIOUS
      <4>1. q # 0
        BY <1>10
      <4>2. l # <<>>
        <5>1. u[1] \in 1..Len(l)
          BY <1>6, <4>1
        <5> QED BY <1>2, <5>1
      <4>3. d[j] = <<"int", d[j][2]>> /\ d[j][2] \in 1..Len(l)
        <5>1. Fits("Int", d[j])
          BY <1>1
        <5>2. d[j] = <<"int", d[j][2]>>
          BY <2>2, <5>1 DEF Fits, Lower
        <5> QED BY <1>1, <2>2, <4>2, <5>2
      <4>4. d[j] \in ToSet(d)
        BY <1>2 DEF ToSet
      <4>5. PICK b : b = d[j][2]
        OBVIOUS
      <4>6. b \in U
        BY <1>2, <4>3, <4>4, <4>5
      <4>7. PICK k \in 1..q : u[k] = b
        <5> HIDE DEF U
        <5>1. \E k \in 1..Cardinality(U) : Ascending(U)[k] = b
          BY <1>2, <1>3, <4>6, Reached
        <5> QED BY <1>4, <1>5, <5>1
      <4>8. k \in F /\ F \subseteq 1..q
        BY <1>6, <4>5, <4>7
      <4> HIDE DEF F
      <4>9. FirstOf(F) = Min(F)
        BY <4>8 DEF FirstOf
      <4>10. F \subseteq Nat
        BY <4>8
      <4>11. PICK a \in F : \A o \in F : a <= o
        BY <4>8, <4>10, LeastElement
      <4>12. Min(F) = a
        BY <4>10, <4>11, LeastOf
      <4> QED BY <4>8, <4>9, <4>11, <4>12
    <3> HIDE DEF F
    <3> QED BY <1>10, <3>2, <3>3, <3>4
  <2> QED BY <2>1, <2>2
<1>13. Shaped("Int", c, e, <<>>, <<>>, <<>>, m)
  BY <1>1, <1>10, <1>11, <1>12 DEF Shaped, Kinds
<1> QED BY <1>9, <1>13, DeepMade

\* Elements, with names, labels and levels.
LEMMA Selects ==
    ASSUME NEW v, Deep(v), NEW pos, pos \in Seq(0..Len(v.data)), NEW drop
    PROVE  Deep(SelectNamed(v, pos, drop))
<1> DEFINE bare == TakePositions(v, pos)
           called == IF NamesOf(v) = <<>> THEN bare ELSE Named(bare, Labels(NamesOf(v), pos))
           out == [called EXCEPT !.levels = v.levels]
           b == drop # "FALSE"
           kept == KeepOneDArray(out, v, b)
<1>1. SelectNamed(v, pos, drop) = IF IsFactor(v) /\ drop = "TRUE" THEN DropUnusedLevels(kept) ELSE kept
  BY DEF SelectNamed
<1>2. CASE v.kind = "Null"
  <2>1. v = NULL
    BY <1>2, NullIs
  <2>2. NULL.kind = "Null" /\ NULL.data = <<>> /\ NULL.names = <<>> /\ NULL.dim = <<>> /\ NULL.levels = <<>>
    BY DEF NULL, V
  <2>3. bare = NULL /\ NamesOf(v) = <<>>
    BY <1>2, <2>1, <2>2 DEF TakePositions, NamesOf
  <2>4. called = NULL
    BY <2>3
  <2>5. out = NULL
    <3>1. PICK none : none = <<>>
      OBVIOUS
    <3>2. NULL = Rec("Null", none, none, none, none, none)
      BY <3>1 DEF NULL, V, Rec
    <3>3. PICK r : r = NULL
      OBVIOUS
    <3>4. Levelled(r, none) = r
      BY <3>2, <3>3, RecWith
    <3>5. [r EXCEPT !.levels = none] = r
      BY <3>4 DEF Levelled
    <3> HIDE DEF called
    <3> QED BY <2>1, <2>2, <2>4, <3>1, <3>3, <3>5
  <2> HIDE DEF out
  <2>6. kept = NULL
    BY <2>1, <2>2, <2>5 DEF KeepOneDArray
  <2>7. ~IsFactor(v)
    BY <2>1, <2>2 DEF IsFactor
  <2> HIDE DEF kept
  <2> QED BY <1>1, <2>6, <2>7, DeepNull
<1>3. CASE v.kind # "Null"
  <2> DEFINE N == IF NamesOf(v) = <<>> THEN <<>> ELSE Labels(NamesOf(v), pos)
  <2>1. PICK d, c : bare = Rec(v.kind, d, <<>>, <<>>, <<>>, <<>>) /\ Took(v, c, d) /\ c = Len(pos)
    BY <1>3, Taken
  <2>2. PICK names : names = N
    OBVIOUS
  <2>3. names \in Seq(STRING) /\ Len(names) \in {0, c}
    <3>1. NamesOf(v) \in Seq(STRING)
      BY NamesParts
    <3>2. CASE NamesOf(v) = <<>>
      BY <2>2, <3>2, EmptySeq
    <3>3. CASE NamesOf(v) # <<>>
      <4>1. names = Labels(NamesOf(v), pos)
        BY <2>2, <3>3
      <4>2. Labels(NamesOf(v), pos) \in Seq(STRING) /\ Len(Labels(NamesOf(v), pos)) = Len(pos)
        BY <3>1, LabelsOf
      <4> QED BY <2>1, <4>1, <4>2
    <3> QED BY <3>2, <3>3
  <2>4. called = Rec(v.kind, d, names, <<>>, <<>>, <<>>)
    <3> HIDE DEF bare
    <3>1. CASE NamesOf(v) = <<>>
      <4>1. names = <<>>
        BY <2>2, <3>1
      <4> QED BY <2>1, <3>1, <4>1
    <3>2. CASE NamesOf(v) # <<>>
      <4>1. called = Named(bare, names)
        BY <2>2, <3>2
      <4> HIDE DEF called
      <4> QED BY <2>1, <4>1, RecWith
    <3> QED BY <3>1, <3>2
  <2>5. PICK l : l = v.levels
    OBVIOUS
  <2>6. out = Rec(v.kind, d, names, <<>>, <<>>, l)
    <3> HIDE DEF called
    <3>1. out = Levelled(called, l)
      BY <2>5 DEF Levelled
    <3> HIDE DEF out
    <3> QED BY <2>4, <3>1, RecWith
  <2>7. /\ v.kind \in Kinds \ {"Null"} /\ l \in Seq(STRING) /\ (l # <<>> => v.kind = "Int")
    <3>1. Shaped(v.kind, Len(v.data), v.data, v.names, v.dim, v.dimnames, v.levels)
      BY <1>3, DeepParts
    <3> QED BY <2>5, <3>1 DEF Shaped
  <2>8. /\ c \in Nat /\ d = [i \in 1..c |-> d[i]] /\ (\A i \in 1..c : Fits(v.kind, d[i]))
        /\ (l # <<>> => \A i \in 1..c : d[i] = NA \/ d[i][2] \in 1..Len(l)) /\ Len(d) = c
    <3>1. /\ c \in Nat /\ d = [i \in 1..c |-> d[i]] /\ (\A i \in 1..c : Fits(v.kind, d[i]))
          /\ (l # <<>> => \A i \in 1..c : d[i] = NA \/ d[i][2] \in 1..Len(l))
      BY <2>1, <2>5 DEF Took
    <3>2. PICK S : \A i \in 1..c : d[i] \in S
      <4>1. \A i \in 1..c : d[i] \in {d[j] : j \in 1..c}
        OBVIOUS
      <4> QED BY <4>1
    <3>3. Len(d) = c
      BY <3>1, <3>2, Listed
    <3> QED BY <3>1, <3>3
  <2>9. Shaped(v.kind, c, d, names, <<>>, <<>>, l)
    BY <2>3, <2>7, <2>8 DEF Shaped
  <2> HIDE DEF called, bare, N
  <2>10. kept = IF Len(v.dim) # 1 \/ IsFactor(v) \/ (b /\ Len(out.data) <= 1) THEN out
                ELSE IF v.dimnames = <<>> THEN [out EXCEPT !.dim = <<Len(out.data)>>]
                ELSE [out EXCEPT !.dim = <<Len(out.data)>>, !.dimnames = <<out.names>>, !.names = <<>>]
    <3> HIDE DEF out
    <3> QED BY DEF KeepOneDArray
  <2>11. out.data = d /\ out.names = names
    <3> HIDE DEF out
    <3> QED BY <2>6, RecAt
  <2> HIDE DEF out, kept
  <2>12. Deep(out)
    BY <2>6, <2>9, DeepMade
  <2>13. CASE IsFactor(v)
    <3>1. kept = out
      BY <2>10, <2>13
    <3>2. v.kind = "Int"
      BY <2>5, <2>7, <2>13 DEF IsFactor
    <3>3. Deep(DropUnusedLevels(out))
      BY <2>6, <2>9, <3>2, LevelsDropped
    <3> QED BY <1>1, <2>12, <3>1, <3>3
  <2>14. CASE ~IsFactor(v)
    <3>1. SelectNamed(v, pos, drop) = kept /\ l = <<>>
      BY <1>1, <2>5, <2>14 DEF IsFactor
    <3>2. PICK m : m = <<c>>
      OBVIOUS
    <3>3. m \in Seq(Nat) /\ Product(m) = c /\ Len(m) = 1 /\ m[1] = c
      BY <2>8, <3>2, ProductOfOne
    <3>4. CASE kept = out
      BY <2>12, <3>1, <3>4
    <3>5. CASE kept = [out EXCEPT !.dim = <<Len(out.data)>>]
      <4>1. kept = Dimmed(out, m)
        BY <2>8, <2>11, <3>2, <3>5 DEF Dimmed
      <4>2. kept = Rec(v.kind, d, names, m, <<>>, l)
        BY <2>6, <4>1, RecWith
      <4>3. Shaped(v.kind, c, d, names, m, <<>>, l)
        BY <2>3, <2>7, <2>8, <3>3 DEF Shaped
      <4> QED BY <3>1, <4>2, <4>3, DeepMade
    <3>6. CASE kept = [out EXCEPT !.dim = <<Len(out.data)>>, !.dimnames = <<out.names>>, !.names = <<>>]
      <4>1. PICK a, none : a = <<names>> /\ none = <<>>
        OBVIOUS
      <4>2. kept = [out EXCEPT !.dim = m, !.dimnames = a, !.names = none]
        BY <2>8, <2>11, <3>2, <3>6, <4>1
      <4>3. [out EXCEPT !.dim = m, !.dimnames = a, !.names = none] = Named(Labelled(Dimmed(out, m), a), none)
        BY ONLY TRUE DEF Named, Labelled, Dimmed
      <4>4. Named(Labelled(Dimmed(out, m), a), none) = Rec(v.kind, d, none, m, a, l)
        BY <2>6, RecWith
      <4>5. a \in Seq(Seq(STRING)) /\ Len(a) = 1 /\ a[1] = names
        <5>1. PICK S : S = Seq(STRING)
          OBVIOUS
        <5>2. names \in S
          BY <2>3, <5>1
        <5>3. <<names>> \in Seq(S) /\ Len(<<names>>) = 1 /\ <<names>>[1] = names
          BY <5>2
        <5> QED BY <4>1, <5>1, <5>3
      <4>6. \A j \in 1..Len(a) : j \in 1..Len(m) /\ Len(a[j]) \in {0, m[j]}
        <5>1. \A j \in 1..1 : j = 1
          OBVIOUS
        <5> QED BY <2>3, <3>3, <4>5, <5>1
      <4>7. none \in Seq(STRING) /\ Len(none) = 0
        BY <4>1, EmptySeq
      <4>8. Shaped(v.kind, c, d, none, m, a, l)
        BY <2>7, <2>8, <3>3, <4>5, <4>6, <4>7 DEF Shaped
      <4> QED BY <3>1, <4>2, <4>3, <4>4, <4>8, DeepMade
    <3> QED BY <2>10, <3>4, <3>5, <3>6
  <2> QED BY <2>13, <2>14
<1> QED BY <1>2, <1>3

LEMMA ArgumentsParts ==
    ASSUME NEW args, Arguments(args)
    PROVE  /\ Len(args) \in Nat \ {0} /\ DOMAIN args = 1..Len(args) /\ 1 \in 1..Len(args)
           /\ \A k \in 1..Len(args) : Subscript(args[k])
<1>1. PICK S : S = ToSet(args)
  OBVIOUS
<1>2. args \in Seq(S) /\ args # <<>> /\ \A a \in S : Subscript(a)
  BY <1>1 DEF Arguments
<1>3. Len(args) \in Nat /\ DOMAIN args = 1..Len(args) /\ \A k \in 1..Len(args) : args[k] \in S
  BY <1>2
<1>4. Len(args) # 0
  BY <1>2
<1> QED BY <1>2, <1>3, <1>4

\* Reading any part of a value gives a value.
LEMMA SingleRead ==
    ASSUME NEW v, Deep(v), NEW args, Arguments(args), NEW drop, IndexSingle(v, args, drop).err = ""
    PROVE  Deep(IndexSingle(v, args, drop).val)
<1> DEFINE r == IndexSingle(v, args, drop)
           p == PositionsRead(v, args[1])
<1>1. /\ Len(args) \in Nat \ {0} /\ DOMAIN args = 1..Len(args) /\ 1 \in 1..Len(args)
      /\ \A k \in 1..Len(args) : Subscript(args[k])
  BY ArgumentsParts
<1>2. CASE Len(args) >= 2 \/ (drop # "" /\ Len(v.dim) = 1)
  <2>1. r = IF Len(v.dim) = Len(args) THEN ArrayIndex(v, args, drop # "FALSE") ELSE Err("dimensions")
    BY <1>2 DEF IndexSingle
  <2>2. Len(v.dim) = Len(args)
    <3> SUFFICES ASSUME Len(v.dim) # Len(args) PROVE FALSE
      OBVIOUS
    <3>1. r = Err("dimensions")
      BY <2>1
    <3> HIDE DEF r
    <3>2. r.err = "dimensions"
      BY <3>1, Outcomes
    <3> QED BY <3>2 DEF r
  <2>3. v.dim # <<>>
    BY <1>1, <2>2
  <2>4. r = ArrayIndex(v, args, drop # "FALSE")
    BY <2>1, <2>2
  <2>5. PICK b : b = (drop # "FALSE")
    OBVIOUS
  <2>6. ArrayIndex(v, args, b).err = ""
    BY <2>4, <2>5
  <2>7. Deep(ArrayIndex(v, args, b).val)
    BY <1>1, <2>2, <2>3, <2>6, ArrayRead
  <2> QED BY <2>4, <2>5, <2>7
<1>3. CASE ~(Len(args) >= 2 \/ (drop # "" /\ Len(v.dim) = 1)) /\ args[1].kind = "Missing"
  <2>1. r = Ok(v)
    BY <1>3 DEF IndexSingle
  <2> HIDE DEF r
  <2>2. r.val = v
    BY <2>1, Outcomes
  <2> QED BY <2>2 DEF r
<1>4. CASE ~(Len(args) >= 2 \/ (drop # "" /\ Len(v.dim) = 1)) /\ args[1].kind # "Missing"
  <2>1. r = IF p.err # "" THEN p ELSE Ok(SelectNamed(v, p.val, drop))
    BY <1>4 DEF IndexSingle
  <2>2. p.err = ""
    <3> HIDE DEF p
    <3> QED BY <2>1
  <2>3. p.val \in Seq(0..Len(v.data))
    BY <1>1, <2>2, PositionsAreThere
  <2> HIDE DEF p
  <2>4. Deep(SelectNamed(v, p.val, drop))
    BY <2>3, Selects
  <2>5. r = Ok(SelectNamed(v, p.val, drop))
    BY <2>1, <2>2
  <2> HIDE DEF r
  <2>6. r.val = SelectNamed(v, p.val, drop)
    BY <2>5, Outcomes
  <2> QED BY <2>4, <2>6 DEF r
<1> QED BY <1>2, <1>3, <1>4

\* An element of a vector is a value.
LEMMA Fetches ==
    ASSUME NEW v, Deep(v), NEW i \in 1..Len(v.data)
    PROVE  /\ Deep(Fetch(v, i)) /\ v.kind # "Null"
           /\ v.kind = "List" => Fetch(v, i) = Unbox(v.data[i]) /\ v.data[i] \in ToSet(v.data)
<1>1. v.kind # "Null"
  <2> SUFFICES ASSUME v.kind = "Null" PROVE FALSE
    OBVIOUS
  <2>1. v = NULL
    BY NullIs
  <2>2. NULL.data = <<>>
    BY DEF NULL, V
  <2> QED BY <2>1, <2>2
<1>2. Shaped(v.kind, Len(v.data), v.data, v.names, v.dim, v.dimnames, v.levels)
  BY <1>1, DeepParts
<1>3. /\ v.kind \in Kinds \ {"Null"} /\ Fits(v.kind, v.data[i]) /\ DOMAIN v.data = 1..Len(v.data)
      /\ v.levels \in Seq(STRING)
      /\ v.levels # <<>> => v.kind = "Int" /\ (v.data[i] = NA \/ v.data[i][2] \in 1..Len(v.levels))
  BY <1>2 DEF Shaped
<1>4. CASE v.kind = "List"
  <2>1. Fetch(v, i) = Unbox(v.data[i])
    BY <1>4 DEF Fetch
  <2>2. v.data[i] \in ToSet(v.data)
    BY <1>3 DEF ToSet
  <2>3. Deep(Unbox(v.data[i]))
    BY <1>3, <1>4 DEF Fits, Boxed
  <2> QED BY <1>1, <2>1, <2>2, <2>3
<1>5. CASE v.kind # "List"
  <2>1. PICK e, k, l, d : e = v.data[i] /\ k = v.kind /\ l = v.levels /\ d = <<e>>
    OBVIOUS
  <2>2. Fetch(v, i) = Levelled(V(k, d), l)
    BY <1>5, <2>1 DEF Fetch, Levelled
  <2>3. V(k, d) = Rec(k, d, <<>>, <<>>, <<>>, <<>>)
    BY DEF V, Rec
  <2>4. Fetch(v, i) = Rec(k, d, <<>>, <<>>, <<>>, l)
    BY <2>2, <2>3, RecWith
  <2>5. \A j \in 1..1 : d[j] = e
    BY <2>1
  <2>6. d = [j \in 1..1 |-> d[j]]
    BY <2>1
  <2>7. Shaped(k, 1, d, <<>>, <<>>, <<>>, l)
    BY <1>3, <2>1, <2>5, <2>6 DEF Shaped
  <2>8. Deep(Fetch(v, i))
    BY <2>4, <2>7, DeepMade
  <2> QED BY <1>1, <1>5, <2>8
<1> QED BY <1>4, <1>5

\* One position in every dimension is a cell.
LEMMA CellIsThere ==
    ASSUME NEW v, Deep(v), NEW args, Arguments(args), NEW reading, CellOf(v, args, reading).err = ""
    PROVE  CellOf(v, args, reading).val \in 1..Len(v.data)
<1> DEFINE r == CellOf(v, args, reading)
           at == [k \in DOMAIN args |-> OnlyIndex(args[k], MarginLabels(v, k), IF reading THEN 1 ELSE v.dim[k])]
           places == [k \in DOMAIN args |-> at[k].val]
           out == \E k \in DOMAIN args : at[k].err # "" \/ at[k].val \notin 1 .. v.dim[k]
           gap == \E k \in DOMAIN args : args[k].kind = "Missing"
<1>1. r = IF v.dim = <<>> \/ Len(v.dim) # Len(args) THEN Err("dimensions")
          ELSE IF gap THEN Err("missing") ELSE IF out THEN Err("bounds") ELSE Ok(Linear(v.dim, places))
  BY DEF CellOf
<1>2. v.dim # <<>> /\ Len(v.dim) = Len(args) /\ ~out /\ r = Ok(Linear(v.dim, places))
  <2> HIDE DEF r, gap, out, places
  <2>1. Err("dimensions").err = "dimensions" /\ Err("missing").err = "missing" /\ Err("bounds").err = "bounds"
    <3>1. Err("dimensions").err = "dimensions"
      BY Outcomes
    <3>2. Err("missing").err = "missing"
      BY Outcomes
    <3>3. Err("bounds").err = "bounds"
      BY Outcomes
    <3> QED BY <3>1, <3>2, <3>3
  <2>2. r.err = ""
    BY DEF r
  <2> QED BY <1>1, <2>1, <2>2
<1>3. DOMAIN args = 1..Len(args) /\ Len(args) \in Nat
  BY ArgumentsParts
<1>4. PICK n \in Nat, D \in Seq(Nat) : n = Len(args) /\ D = v.dim /\ Len(D) = n /\ Product(D) = Len(v.data)
  BY <1>2, <1>3, Dims
<1>5. \A k \in 1..n : places[k] \in 1..D[k] /\ D[k] \in Nat
  <2> SUFFICES ASSUME NEW k \in 1..n PROVE places[k] \in 1..D[k] /\ D[k] \in Nat
    OBVIOUS
  <2> HIDE DEF at
  <2>1. k \in DOMAIN args
    BY <1>3, <1>4
  <2>2. at[k].val \in 1..v.dim[k]
    BY <1>2, <2>1
  <2>3. places[k] = at[k].val
    BY <2>1
  <2>4. D[k] \in Nat
    BY <1>3, <1>4, ElementOfSeq
  <2> HIDE DEF places
  <2> QED BY <1>4, <2>2, <2>3, <2>4
<1>6. places = [k \in 1..n |-> places[k]]
  BY <1>3, <1>4
<1>7. PICK p : p = places
  OBVIOUS
<1> HIDE DEF places, r, out, gap
<1>8. p = [k \in 1..n |-> p[k]] /\ \A k \in 1..n : p[k] \in Nat /\ p[k] <= D[k] /\ p[k] # 0
  <2>1. p = [k \in 1..n |-> p[k]]
    BY <1>6, <1>7
  <2>2. ASSUME NEW k \in 1..n PROVE p[k] \in Nat /\ p[k] <= D[k] /\ p[k] # 0
    <3>1. PICK a, b : a = p[k] /\ b = D[k]
      OBVIOUS
    <3>2. a \in 1..b /\ b \in Nat
      BY <1>5, <1>7, <3>1
    <3>3. a \in Nat /\ a <= b /\ a # 0
      BY ONLY <3>2
    <3> QED BY <3>1, <3>3
  <2> QED BY <2>1, <2>2
<1>9. p \in Seq(Nat) /\ Len(p) = n
  BY <1>8, Listed
<1>10. Linear(D, p) \in 0..Product(D) /\ Linear(D, p) # 0
  <2>1. /\ Linear(D, p) \in 0..Product(D)
        /\ (\A k \in 1..Len(D) : p[k] # 0) => Linear(D, p) # 0
    BY <1>4, <1>8, <1>9, LinearWithin
  <2> QED BY <1>4, <1>8, <2>1
<1>11. Len(v.data) \in Nat
  BY NamesParts
<1>12. r.val = Linear(D, p)
  BY <1>2, <1>4, <1>7, Outcomes
<1>13. Linear(D, p) \in 1..Len(v.data)
  <2>1. PICK q, c : q = Linear(D, p) /\ c = Len(v.data)
    OBVIOUS
  <2>2. q \in 0..c /\ q # 0 /\ c \in Nat
    BY <1>4, <1>10, <1>11, <2>1
  <2>3. q \in 1..c
    BY ONLY <2>2
  <2> QED BY <2>1, <2>3
<1>14. r.val \in 1..Len(v.data)
  BY <1>12, <1>13
<1> QED BY <1>14 DEF r

-----------------------------------------------------------------------------
(* One element, and the elements of lists in lists *)

\* Where an element is looked for: at a position, or the program is told.
LEMMA Looked ==
    ASSUME NEW a, NEW names, NEW n, NEW p
    PROVE  LET at == Get1Index(a, names, n, p)
           IN  \/ at.err = "" \/ at = Err("less than one") \/ at = Err("more than one")
<1> DEFINE at == Get1Index(a, names, n, p)
           one == OneIndex(a.data[p][2], n)
<1>1. at = IF a.data[p] = NA THEN Ok(0)
           ELSE IF a.kind = "Str" THEN Ok(IF a.data[p][2] = "" THEN 0 ELSE NameAt(names, a.data[p]))
           ELSE one
  BY DEF Get1Index
<1>2. one = Ok(a.data[p][2]) \/ one = Err("less than one") \/ one = Ok(3 + a.data[p][2]) \/ one = Err("more than one")
  BY DEF OneIndex
<1>3. Ok(0).err = "" /\ (\A k : Ok(k).err = "")
  BY DEF Ok
<1> HIDE DEF at, one
<1>4. at.err = "" \/ at = Err("less than one") \/ at = Err("more than one")
  BY <1>1, <1>2, <1>3
<1> QED BY <1>4 DEF at

LEMMA ElementRead ==
    ASSUME NEW v, Deep(v), NEW at, ElementAt(v, at).err = ""
    PROVE  Deep(ElementAt(v, at).val)
<1>1. DOMAIN v.data = 1..Len(v.data)
  BY NamesParts
<1>2. CASE at.err # ""
  BY <1>2 DEF ElementAt
<1>3. CASE at.err = "" /\ at.val \in DOMAIN v.data
  <2>1. ElementAt(v, at) = Ok(Fetch(v, at.val))
    BY <1>3 DEF ElementAt
  <2>2. Deep(Fetch(v, at.val))
    BY <1>1, <1>3, Fetches
  <2> QED BY <2>1, <2>2, Outcomes
<1>4. CASE at.err = "" /\ at.val \notin DOMAIN v.data
  <2>1. ElementAt(v, at) = IF at.val = 0 /\ v.kind = "List" THEN Ok(NULL) ELSE Err("bounds")
    BY <1>4 DEF ElementAt
  <2>2. Err("bounds").err = "bounds"
    BY Outcomes
  <2>3. Ok(NULL).val = NULL
    BY Outcomes
  <2> QED BY <2>1, <2>2, <2>3, DeepNull
<1> QED BY <1>2, <1>3, <1>4

\* What a level of a recursive subscript leads to: a value of a set that has the
\* elements of its lists, or the end.
Ends == {"recursive", "no such index", "less than one", "more than one"}
Found(W) == {Ok(u) : u \in W} \cup {Err(m) : m \in Ends}

LEMMA FoundParts ==
    ASSUME NEW W, NEW c, c \in Found(W)
    PROVE  (c.err = "" => c.val \in W /\ c = Ok(c.val)) /\ (c.err # "" => c.err \in Ends)
<1>1. CASE \E u \in W : c = Ok(u)
  BY <1>1, Outcomes
<1>2. CASE \E m \in Ends : c = Err(m)
  <2>1. PICK m \in Ends : c = Err(m)
    BY <1>2
  <2>2. c.err = m
    BY <2>1, Outcomes
  <2> QED BY <2>1, <2>2 DEF Ends
<1> QED BY <1>1, <1>2 DEF Found

\* A level down, and all of them.
LEMMA GoesDown ==
    ASSUME NEW W, Nested(W), NEW v \in W, NEW a, NEW level
    PROVE  Descend(v, a, level) \in Found(W)
<1> DEFINE at == Get1Index(a, NamesOf(v), Len(v.data), level)
<1>1. Descend(v, a, level) = IF v.kind # "List" THEN Err("recursive")
        ELSE IF at.err # "" THEN at
        ELSE IF at.val \in DOMAIN v.data THEN Ok(Fetch(v, at.val)) ELSE Err("no such index")
  BY DEF Descend
<1>2. at.err = "" \/ at = Err("less than one") \/ at = Err("more than one")
  BY Looked
<1> HIDE DEF at
<1>3. ASSUME v.kind = "List", at.val \in DOMAIN v.data PROVE Fetch(v, at.val) \in W
  <2>1. Fetch(v, at.val) = Unbox(v.data[at.val])
    BY <1>3 DEF Fetch
  <2>2. v.data[at.val] \in ToSet(v.data)
    BY <1>3 DEF ToSet
  <2>3. Unbox(v.data[at.val]) \in W
    BY <1>3, <2>2 DEF Nested
  <2> QED BY <2>1, <2>3
<1>4. \A m \in Ends : Err(m) \in Found(W)
  BY DEF Found
<1>5. \A u \in W : Ok(u) \in Found(W)
  BY DEF Found
<1>6. {"recursive", "no such index", "less than one", "more than one"} \subseteq Ends
  BY DEF Ends
<1>7. Err("recursive") \in Found(W) /\ Err("no such index") \in Found(W) /\ Err("less than one") \in Found(W)
      /\ Err("more than one") \in Found(W)
  BY <1>4, <1>6
<1> QED BY <1>1, <1>2, <1>3, <1>5, <1>7

\* The levels but the last.
Downwards(v, a, m) ==
    FoldLeft(LAMBDA acc, level : IF acc.err # "" THEN acc ELSE Descend(acc.val, a, level), Ok(v), [i \in 1 .. m |-> i])

LEMMA GoesDownAll ==
    ASSUME NEW W, Nested(W), NEW v \in W, NEW a, NEW m \in Nat
    PROVE  Downwards(v, a, m) \in Found(W)
<1> DEFINE s == [i \in 1..m |-> i]
           D == Found(W)
           Down(acc, level) == IF acc.err # "" THEN acc ELSE Descend(acc.val, a, level)
           Chosen(g) == g = [S \in SUBSET (DOMAIN s) |-> IF S = {} THEN Ok(v) ELSE Down(g[S \ {Max(S)}], s[Max(S)])]
           step == [c \in D |-> [e \in Nat |-> Down(c, e)]]
           all == FoldLeft(LAMBDA acc, level : Down(acc, level), Ok(v), s)
<1>1. all = (CHOOSE g : Chosen(g))[DOMAIN s]
  <2>1. all = MapThenFoldSet(LAMBDA e, acc : Down(acc, e), Ok(v), LAMBDA i : s[i], LAMBDA S : Max(S), DOMAIN s)
    BY DEF FoldLeft
  <2>2. MapThenFoldSet(LAMBDA e, acc : Down(acc, e), Ok(v), LAMBDA i : s[i], LAMBDA S : Max(S), DOMAIN s)
          = (CHOOSE g : Chosen(g))[DOMAIN s]
    BY DEF MapThenFoldSet
  <2> QED BY <2>1, <2>2
<1>2. DOMAIN s = 1..m /\ Len(s) = m /\ s \in Seq(Nat) /\ \A k \in 1..m : s[k] \in Nat
  OBVIOUS
<1>3. \A c \in D, e \in Nat : step[c][e] = Down(c, e) /\ step[c][e] \in D
  <2> SUFFICES ASSUME NEW c \in D, NEW e \in Nat PROVE Down(c, e) \in D
    OBVIOUS
  <2>1. CASE c.err # ""
    BY <2>1
  <2>2. CASE c.err = ""
    <3>1. c.val \in W
      BY <2>2, FoundParts
    <3> QED BY <2>2, <3>1, GoesDown
  <2> QED BY <2>1, <2>2
<1>4. Ok(v) \in D
  BY DEF Found
<1> HIDE DEF step, D, s
<1>5. \A S \in SUBSET (1..m) : S # {} => Max(S) \in 1..m
  BY <1>2, MaxWithin
<1>6. PICK g : Folds(step, Ok(v), s, m, g) /\ \A S \in SUBSET (1..m) : g[S] \in D
  <2>1. \A c \in D, e \in Nat : step[c][e] \in D
    BY <1>3
  <2>2. PICK b : b = Ok(v)
    OBVIOUS
  <2>3. b \in D /\ m \in Nat /\ \A i \in 1..m : s[i] \in Nat
    BY <1>2, <1>4, <2>2
  <2>4. \E g : Folds(step, b, s, m, g) /\ \A S \in SUBSET (1..m) : g[S] \in D
    BY ONLY <2>1, <2>3, FoldsExist
  <2> QED BY ONLY <2>2, <2>4
<1>7. Chosen(g)
  <2>1. g = [S \in SUBSET (1..m) |-> IF S = {} THEN Ok(v) ELSE step[g[S \ {Max(S)}]][s[Max(S)]]]
    BY <1>6 DEF Folds
  <2>2. \A S \in SUBSET (1..m) : S # {} => step[g[S \ {Max(S)}]][s[Max(S)]] = Down(g[S \ {Max(S)}], s[Max(S)])
    BY <1>2, <1>3, <1>5, <1>6
  <2> HIDE DEF Down
  <2> QED BY <1>2, <2>1, <2>2
<1>8. PICK f : f = (CHOOSE h : Chosen(h))
  OBVIOUS
<1>9. Chosen(f)
  BY <1>7, <1>8
<1> HIDE DEF Down
<1>10. ASSUME NEW S \in SUBSET (1..m), S # {}, f[S \ {Max(S)}] \in D
      PROVE  f[S] = step[f[S \ {Max(S)}]][s[Max(S)]]
  <2>1. f[S] = Down(f[S \ {Max(S)}], s[Max(S)])
    BY <1>2, <1>9, <1>10
  <2>2. s[Max(S)] \in Nat
    BY <1>2, <1>5, <1>10
  <2> QED BY <1>3, <1>10, <2>1, <2>2
<1>11. f[{}] = Ok(v)
  BY <1>2, <1>9
<1>12. FoldsTo(D, Nat, step, Ok(v), s, f)
  BY <1>4, <1>2, <1>3, <1>10, <1>11 DEF FoldsTo
<1>13. PICK r \in [0..m -> D] : Run(step, Ok(v), s, r) /\ f[1..m] = r[m]
  BY <1>2, <1>12, FoldRuns
<1>14. f[1..m] \in D
  <2>1. m \in 0..m
    OBVIOUS
  <2> QED BY <1>13, <2>1
<1> HIDE DEF all
<1>15. all = f[1..m]
  BY <1>1, <1>2, <1>8
<1>16. all \in D
  BY <1>14, <1>15
<1> QED BY <1>16 DEF all, D, s, Down, Downwards

\* x[[i]], x[[i, j]] and x$name.
LEMMA DoubleRead ==
    ASSUME NEW v, Deep(v), NEW args, Arguments(args), IndexDouble(v, args).err = ""
    PROVE  Deep(IndexDouble(v, args).val)
<1> DEFINE first == args[1]
           n == Len(first.data)
           cell == CellOf(v, args, TRUE)
           cur == Downwards(v, first, n - 1)
           got == IF cur.err # "" THEN cur
                  ELSE ElementAt(cur.val, Get1Index(first, NamesOf(cur.val), Len(cur.val.data), n))
           r == IndexDouble(v, args)
<1>1. r = IF first.kind = "Missing" THEN Err("missing")
          ELSE IF v.kind = "Null" THEN Ok(NULL)
          ELSE IF Len(args) >= 2 THEN IF cell.err # "" THEN cell ELSE Ok(Fetch(v, cell.val))
          ELSE IF n = 0 THEN Err("less than one") ELSE got
  BY DEF IndexDouble, Downwards
<1>2. Err("missing").err = "missing"
  BY Outcomes
<1>3. Err("less than one").err = "less than one"
  BY Outcomes
<1>4. CASE v.kind = "Null"
  <2> HIDE DEF r, got, cell, n
  <2>1. r = Ok(NULL)
    BY <1>1, <1>2, <1>4 DEF r
  <2> QED BY <2>1, DeepNull, Outcomes DEF r
<1>5. CASE v.kind # "Null" /\ Len(args) >= 2
  <2> HIDE DEF r, got, cell, n
  <2>1. cell.err = "" /\ r = Ok(Fetch(v, cell.val))
    BY <1>1, <1>2, <1>5 DEF r
  <2>2. cell.val \in 1..Len(v.data)
    BY <2>1, CellIsThere DEF cell
  <2>3. Deep(Fetch(v, cell.val))
    BY <2>2, Fetches
  <2> QED BY <2>1, <2>3, Outcomes DEF r
<1>6. CASE v.kind # "Null" /\ ~(Len(args) >= 2)
  <2>1. n # 0 /\ got = r
    <3> HIDE DEF r, got, cell, n
    <3> QED BY <1>1, <1>2, <1>3, <1>6 DEF r
  <2>2. Subscript(first)
    BY ArgumentsParts
  <2>3. n \in Nat /\ n - 1 \in Nat
    <3>1. PICK m : m = n
      OBVIOUS
    <3>2. m \in Nat /\ m # 0
      BY <2>1, <2>2, <3>1, SubscriptParts
    <3>3. m - 1 \in Nat
      BY ONLY <3>2
    <3> QED BY <3>1, <3>2, <3>3
  <2>4. PICK W : v \in W /\ Nested(W)
    BY DEF Deep
  <2>5. cur \in Found(W)
    BY <2>3, <2>4, GoesDownAll
  <2> HIDE DEF cur
  <2>6. cur.err = "" /\ got = ElementAt(cur.val, Get1Index(first, NamesOf(cur.val), Len(cur.val.data), n))
    BY <2>1 DEF r
  <2>7. cur.val \in W
    BY <2>5, <2>6, FoundParts
  <2>8. Deep(cur.val)
    BY <2>4, <2>7 DEF Deep
  <2> HIDE DEF n, first
  <2> QED BY <2>1, <2>6, <2>8, ElementRead DEF r
<1> QED BY <1>4, <1>5, <1>6

LEMMA DollarRead ==
    ASSUME NEW v, Deep(v), NEW name, DollarGet(v, name).err = ""
    PROVE  Deep(DollarGet(v, name).val)
<1>1. PICK i : i = NameAt(NamesOf(v), <<"str", name>>)
  OBVIOUS
<1>2. DollarGet(v, name) = IF Atomic(v) THEN Err("atomic") ELSE Ok(IF i \in DOMAIN v.data THEN Fetch(v, i) ELSE NULL)
  BY <1>1 DEF DollarGet
<1>3. Err("atomic").err = "atomic"
  BY Outcomes
<1>4. DollarGet(v, name) = Ok(IF i \in DOMAIN v.data THEN Fetch(v, i) ELSE NULL)
  BY <1>2, <1>3
<1>5. CASE i \in DOMAIN v.data
  <2>1. i \in 1..Len(v.data)
    BY <1>5, NamesParts
  <2>2. Deep(Fetch(v, i))
    BY <2>1, Fetches
  <2> QED BY <1>4, <1>5, <2>2, Outcomes
<1>6. CASE i \notin DOMAIN v.data
  BY <1>4, <1>6, DeepNull, Outcomes
<1> QED BY <1>5, <1>6

-----------------------------------------------------------------------------
(* What a write makes is a value *)

\* A splice has elements of the two it is made of.
LEMMA SplicedTyped ==
    ASSUME NEW E, NEW dst, dst \in Seq(E), NEW pos, pos \in Seq(Nat), NEW src, src \in Seq(E), src # <<>> \/ pos = <<>>
    PROVE  Splice(dst, pos, src) \in Seq(E) /\ Len(Splice(dst, pos, src)) = Len(dst)
<1>1. PICK n \in Nat : n = Len(dst)
  OBVIOUS
<1>2. PICK out : out = Splice(dst, pos, src) /\ n = Len(dst)
  BY <1>1
<1>3. DOMAIN out = 1..n /\ Len(out) = n
  BY <1>2, SplicedLength
<1>4. ASSUME NEW i \in 1..n PROVE out[i] \in E
  <2> DEFINE at == SelectLastInSeq(pos, LAMBDA p : p = i)
  <2>1. \/ at = 0 /\ \A j \in 1..Len(pos) : pos[j] # i
        \/ at \in 1..Len(pos) /\ pos[at] = i /\ \A j \in 1..Len(pos) : j > at => pos[j] # i
    BY LastIn
  <2>2. out[i] = IF at = 0 THEN dst[i] ELSE src[((at - 1) % Len(src)) + 1]
    BY <1>2 DEF Splice
  <2> HIDE DEF at
  <2>3. CASE at = 0
    BY <1>2, <2>2, <2>3
  <2>4. CASE at # 0
    <3>1. at \in 1..Len(pos)
      BY <2>1, <2>4
    <3>2. src # <<>>
      BY <3>1
    <3>3. PICK m \in Nat : m = Len(src)
      OBVIOUS
    <3>4. m # 0
      BY <3>2, <3>3
    <3>5. PICK c \in Nat : c = at - 1
      BY <3>1
    <3>6. (c % m) + 1 \in 1..m
      BY <3>4
    <3> QED BY <2>2, <2>4, <3>3, <3>5, <3>6
  <2> QED BY <2>3, <2>4
<1>5. out = [i \in 1..n |-> out[i]]
  BY <1>2, <1>3 DEF Splice
<1>6. out \in Seq(E)
  BY <1>4, <1>5, Listed
<1> QED BY <1>2, <1>3, <1>6

\* The new names are of elements that are selected.
LEMMA RenamedWithin ==
    ASSUME NEW S, Blank \in S, NEW names, names \in Seq(S), NEW fresh, fresh \in Seq(Nat \X S), NEW reach \in Nat,
           Len(names) <= reach, \A k \in 1..Len(fresh) : fresh[k][1] <= reach
    PROVE  Renamed(names, fresh) \in Seq(S) /\ Len(Renamed(names, fresh)) <= reach
           /\ Len(Renamed(names, fresh)) \in Nat
<1> DEFINE places == [k \in 1..Len(fresh) |-> fresh[k][1]]
           plan == [pos |-> places]
           long == Pad(names, Reach(plan, Len(names)), Blank)
<1>1. plan.pos = places /\ places \in Seq(Nat) /\ Len(fresh) \in Nat /\ Len(names) \in Nat
  OBVIOUS
<1>2. \A a \in ToSet(places) : a <= reach
  BY DEF ToSet
<1>3. PICK n \in Nat : n = Reach(plan, Len(names)) /\ Len(names) <= n /\ n <= reach
  <2> HIDE DEF plan
  <2>1. plan.pos \in Seq(Nat)
    BY <1>1
  <2>2. /\ Reach(plan, Len(names)) \in Nat /\ Len(names) <= Reach(plan, Len(names))
        /\ Reach(plan, Len(names)) = Len(names) \/ Reach(plan, Len(names)) \in ToSet(plan.pos)
    BY <1>1, <2>1, Reaches
  <2> QED BY <1>1, <1>2, <2>2
<1>4. Len(long) = n
  <2> HIDE DEF plan
  <2>1. Len(Pad(names, n, Blank)) = n
    BY <1>3, Stretched
  <2> QED BY <1>3, <2>1
<1>5. Len(Renamed(names, fresh)) = n
  <2>1. Len(fresh) \in Nat /\ DOMAIN fresh = 1..Len(fresh)
    OBVIOUS
  <2>2. PICK f : Renamed(names, fresh) = [i \in DOMAIN long |-> f[i]]
    <3>1. PICK g : g = [i \in DOMAIN long |->
             LET k == SelectLastInSeq(fresh, LAMBDA h : h[1] = i) IN IF k = 0 THEN long[i] ELSE fresh[k][2]]
      OBVIOUS
    <3>2. Renamed(names, fresh) = g
      BY ONLY <2>1, <3>1 DEF Renamed
    <3>3. g = [i \in DOMAIN long |-> g[i]]
      BY <3>1
    <3> QED BY <3>2, <3>3
  <2>3. DOMAIN long = 1..n
    <3> HIDE DEF plan
    <3>1. DOMAIN Pad(names, n, Blank) = 1..n
      BY <1>3, Stretched
    <3> QED BY <1>3, <3>1
  <2> HIDE DEF long
  <2> QED BY <2>2, <2>3
<1>6. Renamed(names, fresh) \in Seq(S)
  BY Renames
<1> QED BY <1>3, <1>5, <1>6

\* An element goes to a type no narrower.
LEMMA Coerced ==
    ASSUME NEW k \in Kinds \ {"Null", "List"}, NEW v, v.kind = k, NEW rank \in 1..4, Rank(v) <= rank, NEW e, Fits(k, e)
    PROVE  Fits(KindOfRank(rank), Coerce(e, rank))
<1>1. k = "Lgl" \/ k = "Int" \/ k = "Dbl" \/ k = "Str"
  BY DEF Kinds
<1>2. (k = "Lgl" => Rank(v) = 1) /\ (k = "Int" => Rank(v) = 2) /\ (k = "Dbl" => Rank(v) = 3)
      /\ (k = "Str" => Rank(v) = 4)
  BY DEF Rank
<1>3. rank = 1 \/ rank = 2 \/ rank = 3 \/ rank = 4
  OBVIOUS
<1>4. /\ rank = 1 => KindOfRank(rank) = "Lgl"
      /\ rank = 2 => KindOfRank(rank) = "Int"
      /\ rank = 3 => KindOfRank(rank) = "Dbl"
      /\ rank = 4 => KindOfRank(rank) = "Str"
  BY DEF KindOfRank
<1>5. Lower("Lgl") = "lgl" /\ Lower("Int") = "int" /\ Lower("Dbl") = "dbl" /\ Lower("Str") = "str"
  BY DEF Lower
<1>6. CASE e = NA
  <2>1. Coerce(e, rank) = NA
    BY <1>6 DEF Coerce
  <2> QED BY <1>3, <1>4, <2>1 DEF Fits
<1>7. CASE e # NA
  <2>1. PICK t, d : e = <<t, d>> /\ t = Lower(k)
    BY <1>1, <1>7 DEF Fits
  <2>2. e[1] = t /\ e[2] = d
    BY <2>1
  <2>3. Coerce(e, rank) = CASE rank = 4 /\ t = "lgl" -> <<"str", IF d = 1 THEN "TRUE" ELSE "FALSE">>
                            [] rank = 4 /\ t \in {"int", "dbl"} -> <<"str", Digit[d]>>
                            [] rank < 4 /\ t # "str" -> <<<<"lgl", "int", "dbl">>[rank], d>>
                            [] OTHER -> e
    BY <1>7, <2>2 DEF Coerce
  <2>4. t \in {"lgl", "int", "dbl", "str"} /\ (t = "str" => rank = 4)
    BY <1>1, <1>2, <1>3, <1>5, <2>1
  <2>5. PICK f : Coerce(e, rank) = <<IF rank = 4 THEN "str" ELSE <<"lgl", "int", "dbl">>[rank], f>>
    BY <1>3, <2>1, <2>3, <2>4
  <2>6. Coerce(e, rank) = <<Lower(KindOfRank(rank)), f>>
    BY <1>3, <1>4, <1>5, <2>5
  <2>7. KindOfRank(rank) # "List"
    BY <1>3, <1>4
  <2> HIDE DEF Coerce
  <2> QED BY <2>6, <2>7 DEF Fits
<1> QED BY <1>6, <1>7

\* The names of a vector that is rebuilt.
LEMMA NamesMade ==
    ASSUME NEW v, Deep(v), NEW plan, PlanFor(v, plan)
    PROVE  LET names == Renamed(NamesOf(v), plan.fresh)
               grow == Reach(plan, Len(v.data))
               called == IF names = <<>> THEN <<>> ELSE Pad(names, grow, Blank)
           IN  called \in Seq(STRING) /\ Len(called) \in {0, grow}
<1>1. Formed(v)
  BY Opens DEF Whole
<1>2. PICK names, grow : names = Renamed(NamesOf(v), plan.fresh) /\ grow = Reach(plan, Len(v.data))
  OBVIOUS
<1>3. Blank \in STRING
  BY NamesAssumption
<1>4. NamesOf(v) \in Seq(STRING) /\ Len(NamesOf(v)) <= Len(v.data) /\ Len(v.data) \in Nat /\ Len(NamesOf(v)) \in Nat
  BY NamesParts
<1>5. /\ plan.pos \in Seq(Nat) /\ plan.fresh \in Seq(Nat \X STRING)
      /\ Reach(plan, Len(v.data)) \in Nat /\ Len(v.data) <= Reach(plan, Len(v.data))
  BY <1>1, PlanParts
<1>6. grow \in Nat /\ Len(NamesOf(v)) <= grow
  BY <1>2, <1>4, <1>5
<1>7. \A k \in 1..Len(plan.fresh) : plan.fresh[k][1] <= grow
  <2> SUFFICES ASSUME NEW k \in 1..Len(plan.fresh) PROVE plan.fresh[k][1] <= grow
    OBVIOUS
  <2>1. plan.fresh[k] \in ToSet(plan.fresh)
    BY <1>5 DEF ToSet
  <2>2. plan.fresh[k][1] \in ToSet(plan.pos)
    BY <2>1 DEF PlanFor
  <2>3. \A i \in ToSet(plan.pos) : i <= Reach(plan, Len(v.data))
    BY <1>4, <1>5, Reaches
  <2> QED BY <1>2, <2>2, <2>3
<1>8. names \in Seq(STRING) /\ Len(names) <= grow /\ Len(names) \in Nat
  BY <1>2, <1>3, <1>4, <1>5, <1>6, <1>7, RenamedWithin
<1>9. PICK called : called = IF names = <<>> THEN <<>> ELSE Pad(names, grow, Blank)
  OBVIOUS
<1>10. called \in Seq(STRING) /\ Len(called) \in {0, grow}
  <2>1. Pad(names, grow, Blank) \in Seq(STRING) /\ Len(Pad(names, grow, Blank)) = grow
    <3>1. PICK S, b : S = STRING /\ b = Blank
      OBVIOUS
    <3>2. names \in Seq(S) /\ grow \in Nat /\ Len(names) <= grow /\ b \in S
      BY <1>3, <1>6, <1>8, <3>1
    <3>3. Pad(names, grow, b) \in Seq(S) /\ Len(Pad(names, grow, b)) = grow
      BY <3>2, Stretched
    <3> QED BY <3>1, <3>3
  <2>2. <<>> \in Seq(STRING) /\ Len(<<>>) = 0
    BY EmptySeq
  <2> QED BY <1>9, <2>1, <2>2
<1> QED BY <1>2, <1>9, <1>10

\* An element of v, or one of value, in a type that is no narrower.
From(v, value, rank, e) ==
    \/ e = NA
    \/ \E i \in 1..Len(v.data) : e = Coerce(v.data[i], rank)
    \/ \E i \in 1..Len(value.data) : e = Coerce(value.data[i], rank)

LEMMA AtomicData ==
    ASSUME NEW v, Deep(v), NEW plan, PlanFor(v, plan), NEW value, Deep(value)
    PROVE  LET d == WriteAtomic(v, plan, value).data
               rank == Max({Rank(v), Rank(value)})
               grow == Reach(plan, Len(v.data))
           IN  d = [i \in 1..grow |-> d[i]] /\ \A i \in 1..grow : From(v, value, rank, d[i])
<1> DEFINE n == Len(v.data)
           rank == Max({Rank(v), Rank(value)})
           As(s) == [i \in DOMAIN s |-> Coerce(s[i], rank)]
           grow == Reach(plan, n)
           room == Pad(As(v.data), grow, NA)
           names == Renamed(NamesOf(v), plan.fresh)
           data == IF value.data = <<>> THEN room ELSE Splice(room, plan.pos, As(value.data))
           called == IF names = <<>> THEN <<>> ELSE Pad(names, grow, Blank)
           out == WriteAtomic(v, plan, value)
           E == {As(v.data)[i] : i \in 1..n} \cup {NA} \cup {As(value.data)[i] : i \in 1..Len(value.data)}
<1>1. out = CopyAttrs(v, Named(V(IF rank = 0 THEN "Dbl" ELSE KindOfRank(rank), data), called), grow > n)
  BY DEF WriteAtomic
<1> HIDE DEF data, called, rank, grow
<1>2. out.data = data
  BY <1>1 DEF CopyAttrs, Named, V
<1> HIDE DEF out
<1>3. n \in Nat /\ DOMAIN v.data = 1..n /\ Len(value.data) \in Nat /\ DOMAIN value.data = 1..Len(value.data)
  BY NamesParts
<1>4. Formed(v)
  BY Opens DEF Whole
<1>5. plan.pos \in Seq(Nat) /\ grow \in Nat /\ n <= grow
  BY <1>4, PlanParts DEF grow
<1>6. PICK s, t : s = As(v.data) /\ t = As(value.data)
  OBVIOUS
<1>7. s \in Seq(E) /\ Len(s) = n
  <2>1. s = [i \in 1..n |-> s[i]] /\ \A i \in 1..n : s[i] \in E
    BY <1>3, <1>6
  <2> HIDE DEF E
  <2> QED BY <1>3, <2>1, Listed
<1>8. t \in Seq(E) /\ Len(t) = Len(value.data)
  <2>1. t = [i \in 1..Len(value.data) |-> t[i]] /\ \A i \in 1..Len(value.data) : t[i] \in E
    BY <1>3, <1>6
  <2> HIDE DEF E
  <2> QED BY <1>3, <2>1, Listed
<1>9. NA \in E
  OBVIOUS
<1>10. \A e \in E : From(v, value, rank, e)
  <2>1. ASSUME NEW e \in E PROVE From(v, value, rank, e)
    <3>1. e = NA \/ (\E i \in 1..n : e = As(v.data)[i]) \/ (\E i \in 1..Len(value.data) : e = As(value.data)[i])
      BY <2>1
    <3>2. \A i \in 1..n : As(v.data)[i] = Coerce(v.data[i], rank)
      BY <1>3
    <3>3. \A i \in 1..Len(value.data) : As(value.data)[i] = Coerce(value.data[i], rank)
      BY <1>3
    <3> HIDE DEF As
    <3> QED BY <3>1, <3>2, <3>3 DEF From
  <2> QED BY <2>1
<1> HIDE DEF E
<1>11. Pad(s, grow, NA) \in Seq(E) /\ Len(Pad(s, grow, NA)) = grow
  BY <1>5, <1>7, <1>9, Stretched
<1>12. data \in Seq(E) /\ Len(data) = grow
  <2>1. CASE value.data = <<>>
    BY <1>6, <1>11, <2>1 DEF data
  <2>2. CASE value.data # <<>>
    <3>1. t # <<>>
      <4>1. Len(value.data) # 0
        <5>1. value.data \in Seq(ToSet(value.data))
          <6>1. Formed(value)
            BY Opens DEF Whole
          <6> QED BY <6>1 DEF Formed
        <5> QED BY <2>2, <5>1
      <4> QED BY <1>8, <4>1
    <3>2. Splice(Pad(s, grow, NA), plan.pos, t) \in Seq(E) /\ Len(Splice(Pad(s, grow, NA), plan.pos, t)) = grow
      BY <1>5, <1>8, <1>11, <3>1, SplicedTyped
    <3> QED BY <1>6, <2>2, <3>2 DEF data
  <2> QED BY <2>1, <2>2
<1>13. data = [i \in 1..grow |-> data[i]] /\ \A i \in 1..grow : data[i] \in E
  BY <1>12
<1> QED BY <1>2, <1>10, <1>13 DEF out, rank, grow
\* An atomic vector written into an atomic vector.
LEMMA AtomicMade ==
    ASSUME NEW v, Deep(v), NEW plan, PlanFor(v, plan), NEW value, Deep(value),
           v.kind # "List", value.kind # "List"
    PROVE  LET rank == Max({Rank(v), Rank(value)})
               kind == IF rank = 0 THEN "Dbl" ELSE KindOfRank(rank)
           IN  \E c, d, n, m, a : /\ WriteAtomic(v, plan, value) = Rec(kind, d, n, m, a, <<>>)
                                  /\ Shaped(kind, c, d, n, m, a, <<>>)
                                  /\ \A i \in 1..c : From(v, value, rank, d[i])
<1> DEFINE out == WriteAtomic(v, plan, value)
           grew == Reach(plan, Len(v.data)) > Len(v.data)
<1>1. Formed(v) /\ Formed(value) /\ Whole(v)
  BY Opens DEF Whole
<1>2. v.kind \in Kinds \ {"List"} /\ value.kind \in Kinds \ {"List"}
  BY <1>1, FormedParts
<1>3. PICK rank, kind, c : /\ rank = Max({Rank(v), Rank(value)}) /\ c = Reach(plan, Len(v.data))
                           /\ kind = IF rank = 0 THEN "Dbl" ELSE KindOfRank(rank)
  OBVIOUS
<1>4. rank \in 0..4 /\ Rank(v) <= rank /\ Rank(value) <= rank /\ Rank(v) \in 0..4 /\ Rank(value) \in 0..4
  <2>1. /\ Rank(v) \in 0..5 /\ (Rank(v) = 5 <=> v.kind = "List")
        /\ Rank(value) \in 0..5 /\ (Rank(value) = 5 <=> value.kind = "List")
    BY <1>2, Ranks
  <2>2. PICK a \in 0..4, b \in 0..4 : a = Rank(v) /\ b = Rank(value)
    BY <1>2, <2>1
  <2>3. a \in Nat /\ b \in Nat
    OBVIOUS
  <2>4. Max({a, b}) = IF a >= b THEN a ELSE b
    BY <2>3, MaxOfTwo
  <2> QED BY <1>3, <2>2, <2>4
<1>5. out = [kind |-> kind, data |-> out.data, names |-> out.names, dim |-> IF grew THEN <<>> ELSE v.dim,
             dimnames |-> IF grew THEN <<>> ELSE v.dimnames, levels |-> <<>>]
  BY <1>3, AtomicParts
<1>6. PICK d, n, m, a : /\ d = out.data /\ n = out.names /\ m = (IF grew THEN <<>> ELSE v.dim)
                        /\ a = (IF grew THEN <<>> ELSE v.dimnames)
  OBVIOUS
<1>7. out = Rec(kind, d, n, m, a, <<>>)
  <2> HIDE DEF out, grew
  <2> QED BY <1>5, <1>6 DEF Rec
<1>8. d = [i \in 1..c |-> d[i]] /\ \A i \in 1..c : From(v, value, rank, d[i])
  BY <1>3, <1>6, AtomicData
<1>9. n \in Seq(STRING) /\ Len(n) \in {0, c}
  <2>1. PICK names, called : /\ names = Renamed(NamesOf(v), plan.fresh)
                             /\ called = IF names = <<>> THEN <<>> ELSE Pad(names, c, Blank)
    OBVIOUS
  <2>2. out.names = called
    BY <1>3, <2>1 DEF WriteAtomic, CopyAttrs, Named, V
  <2>3. called \in Seq(STRING) /\ Len(called) \in {0, c}
    BY <1>3, <2>1, NamesMade
  <2> QED BY <1>6, <2>2, <2>3
<1>10. kind \in Kinds \ {"Null", "List"} /\ (rank # 0 => rank \in 1..4 /\ kind = KindOfRank(rank))
  <2>1. CASE rank = 0
    BY <1>3, <2>1 DEF Kinds
  <2>2. CASE rank # 0
    <3>1. PICK r \in 1..4 : r = rank
      BY <1>4, <2>2
    <3>2. kind = KindOfRank(r)
      BY <1>3, <2>2, <3>1
    <3>3. PICK w : w = [kind |-> kind]
      OBVIOUS
    <3>4. w.kind = KindOfRank(r) /\ w.kind = kind
      BY <3>2, <3>3
    <3> QED BY <3>1, <3>2, <3>4, KindsOfRanks
  <2> QED BY <2>1, <2>2
<1>11. ASSUME NEW i \in 1..c PROVE Fits(kind, d[i])
  <2>1. Fits(kind, NA)
    BY <1>10 DEF Fits
  <2>2. ASSUME NEW u, Deep(u), u.kind \in Kinds \ {"List"}, Rank(u) <= rank, Rank(u) \in 0..4,
               NEW j \in 1..Len(u.data), d[i] = Coerce(u.data[j], rank)
        PROVE  Fits(kind, d[i])
    <3>1. u.kind # "Null"
      <4> SUFFICES ASSUME u.kind = "Null" PROVE FALSE
        OBVIOUS
      <4>1. u = NULL
        BY <2>2, NullIs
      <4>2. u.data = <<>>
        BY <4>1 DEF NULL, V
      <4> QED BY <4>2
    <3>2. Shaped(u.kind, Len(u.data), u.data, u.names, u.dim, u.dimnames, u.levels)
      BY <2>2, <3>1, DeepParts
    <3>3. Fits(u.kind, u.data[j])
      BY <3>2 DEF Shaped
    <3>4. Rank(u) # 0
      <4>1. Rank(u) = 0 <=> u.kind = "Null"
        BY <2>2, Ranks
      <4> QED BY <3>1, <4>1
    <3>5. rank \in 1..4
      BY <1>4, <2>2, <3>4
    <3>6. u.kind \in Kinds \ {"Null", "List"}
      BY <2>2, <3>1
    <3>7. Fits(KindOfRank(rank), Coerce(u.data[j], rank))
      BY <2>2, <3>3, <3>5, <3>6, Coerced
    <3> QED BY <1>10, <2>2, <3>5, <3>7
  <2>3. From(v, value, rank, d[i])
    BY <1>8
  <2> QED BY <1>2, <1>4, <2>1, <2>2, <2>3 DEF From
<1>12. /\ m \in Seq(Nat) /\ a \in Seq(Seq(STRING)) /\ (m # <<>> => Product(m) = c)
       /\ \A j \in 1..Len(a) : j \in 1..Len(m) /\ Len(a[j]) \in {0, m[j]}
  <2>1. CASE grew
    <3>1. m = <<>> /\ a = <<>>
      BY <1>6, <2>1
    <3>2. <<>> \in Seq(Nat) /\ <<>> \in Seq(Seq(STRING)) /\ Len(<<>>) = 0
      BY EmptySeq
    <3> QED BY <3>1, <3>2
  <2>2. CASE ~grew
    <3>1. m = v.dim /\ a = v.dimnames
      BY <1>6, <2>2
    <3>2. c = Len(v.data)
      <4>1. c \in Nat /\ Len(v.data) <= c /\ Len(v.data) \in Nat
        BY <1>1, <1>3, PlanParts, NamesParts
      <4>2. ~(c > Len(v.data))
        BY <1>3, <2>2
      <4> QED BY <4>1, <4>2
    <3>3. v.dim \in Seq(Nat) /\ v.dimnames \in Seq(Seq(STRING)) /\ (v.dim # <<>> => Product(v.dim) = Len(v.data))
      BY <1>1 DEF Formed
    <3>4. DOMAIN v.dimnames = 1..Len(v.dimnames) /\ DOMAIN v.dim = 1..Len(v.dim)
      BY <3>3
    <3>5. \A j \in 1..Len(v.dimnames) : j \in 1..Len(v.dim) /\ Len(v.dimnames[j]) \in {0, v.dim[j]}
      BY <1>1, <3>4 DEF Whole
    <3> QED BY <3>1, <3>2, <3>3, <3>5
  <2> QED BY <2>1, <2>2
<1>13. c \in Nat
  BY <1>1, <1>3, PlanParts
<1>14. Shaped(kind, c, d, n, m, a, <<>>)
  <2>1. <<>> \in Seq(STRING)
    BY EmptySeq
  <2> QED BY <1>8, <1>9, <1>10, <1>11, <1>12, <1>13, <2>1 DEF Shaped
<1> HIDE DEF out
<1> QED BY <1>3, <1>7, <1>8, <1>14 DEF out

\* The elements of a value, as a list has them.
LEMMA ElementsListed ==
    ASSUME NEW v, Deep(v)
    PROVE  \E E : Elements(v) \in Seq(E) /\ Len(Elements(v)) = Len(v.data) /\ \A e \in E : Boxed(e)
<1>1. PICK E : E = {Elements(v)[i] : i \in 1..Len(v.data)}
  OBVIOUS
<1>2. Formed(v)
  BY Opens DEF Whole
<1>3. Elements(v) \in Seq(E) /\ Len(Elements(v)) = Len(v.data)
  BY <1>1, <1>2, ElementsOf
<1>4. \A e \in E : Boxed(e)
  BY <1>1, ElementsAreBoxed
<1> QED BY <1>3, <1>4

\* Sequences over the elements of two sets.
LEMMA Widened ==
    ASSUME NEW E, NEW F, NEW s, s \in Seq(E), E \subseteq F
    PROVE  s \in Seq(F)
BY SeqMonotonic

\* The elements and the names of a list that is rebuilt.
LEMMA ListData ==
    ASSUME NEW v, Deep(v), NEW plan, PlanFor(v, plan), NEW value, Deep(value), NEW single,
           single \/ value.data # <<>> \/ plan.pos = <<>>
    PROVE  LET grow == Reach(plan, Len(v.data))
               src == IF single THEN <<Box(value)>> ELSE Elements(value)
               items == Splice(Pad(Elements(v), grow, Box(NULL)), plan.pos, src)
           IN  Len(items) = grow /\ items = [i \in 1..grow |-> items[i]] /\ \A i \in 1..grow : Boxed(items[i])
<1>1. PICK src, grow, none : /\ src = (IF single THEN <<Box(value)>> ELSE Elements(value))
                             /\ grow = Reach(plan, Len(v.data)) /\ none = Box(NULL)
  OBVIOUS
<1>2. PICK E : Elements(v) \in Seq(E) /\ Len(Elements(v)) = Len(v.data) /\ \A e \in E : Boxed(e)
  BY ElementsListed
<1>3. PICK F : src \in Seq(F) /\ (\A e \in F : Boxed(e)) /\ (src # <<>> \/ plan.pos = <<>>)
  <2>1. CASE single
    <3>1. PICK b : b = Box(value)
      OBVIOUS
    <3>2. Boxed(b)
      BY <3>1, BoxIsBoxed
    <3>3. PICK G : G = {b}
      OBVIOUS
    <3>4. <<b>> \in Seq(G) /\ <<b>> # <<>> /\ \A e \in G : Boxed(e)
      BY <3>2, <3>3
    <3>5. src = <<b>>
      BY <1>1, <2>1, <3>1
    <3>6. src \in Seq(G) /\ src # <<>>
      BY <3>4, <3>5
    <3> QED BY ONLY <3>4, <3>6
  <2>2. CASE ~single
    <3>1. PICK G : Elements(value) \in Seq(G) /\ Len(Elements(value)) = Len(value.data) /\ \A e \in G : Boxed(e)
      BY ElementsListed
    <3>2. Elements(value) # <<>> \/ plan.pos = <<>>
      <4> SUFFICES ASSUME Elements(value) = <<>>, plan.pos # <<>> PROVE FALSE
        OBVIOUS
      <4>1. Len(value.data) = 0
        BY <3>1
      <4>2. value.data \in Seq(ToSet(value.data))
        BY Opens, FormedParts DEF Whole
      <4>3. value.data = <<>>
        BY <4>1, <4>2
      <4> QED BY <2>2, <4>3
    <3> QED BY <1>1, <2>2, <3>1, <3>2
  <2> QED BY <2>1, <2>2
<1>4. Boxed(none)
  BY <1>1, DeepNull, BoxIsBoxed
<1>5. PICK G : G = E \cup F \cup {none}
  OBVIOUS
<1>6. /\ Elements(v) \in Seq(G) /\ src \in Seq(G) /\ none \in G /\ \A e \in G : Boxed(e)
  <2>1. E \subseteq G /\ F \subseteq G
    BY <1>5
  <2> QED BY <1>2, <1>3, <1>4, <1>5, <2>1, Widened
<1>7. plan.pos \in Seq(Nat) /\ grow \in Nat /\ Len(v.data) <= grow
  BY <1>1, Opens, PlanParts DEF Whole
<1>8. PICK room : room = Pad(Elements(v), grow, none)
  OBVIOUS
<1>9. room \in Seq(G) /\ Len(room) = grow
  <2>1. Len(Elements(v)) <= grow
    BY <1>2, <1>7
  <2> QED BY <1>6, <1>7, <1>8, <2>1, Stretched
<1>10. PICK items : items = Splice(room, plan.pos, src)
  OBVIOUS
<1>11. items \in Seq(G) /\ Len(items) = grow
  BY <1>3, <1>6, <1>7, <1>9, <1>10, SplicedTyped
<1>12. items = [i \in 1..grow |-> items[i]] /\ \A i \in 1..grow : Boxed(items[i])
  BY <1>6, <1>11
<1> QED BY <1>1, <1>8, <1>10, <1>11, <1>12

LEMMA ListNames ==
    ASSUME NEW v, Deep(v), NEW plan, PlanFor(v, plan), NEW c, c = Reach(plan, Len(v.data))
    PROVE  LET padded == Pad(NamesOf(v), Len(NamesOf(v)) + c - Len(v.data), Blank)
           IN  Renamed(padded, plan.fresh) \in Seq(STRING) /\ Len(Renamed(padded, plan.fresh)) <= c
               /\ Len(Renamed(padded, plan.fresh)) \in Nat
<1>1. NamesOf(v) \in Seq(STRING) /\ Len(NamesOf(v)) \in Nat /\ Len(NamesOf(v)) <= Len(v.data) /\ Len(v.data) \in Nat
  BY NamesParts
<1>2. Formed(v)
  BY Opens DEF Whole
<1>3. /\ plan.pos \in Seq(Nat) /\ plan.fresh \in Seq(Nat \X STRING) /\ c \in Nat /\ Len(v.data) <= c
  BY <1>2, PlanParts
<1>4. PICK S, b, names, k : S = STRING /\ b = Blank /\ names = NamesOf(v) /\ k = Len(names) + c - Len(v.data)
  OBVIOUS
<1>5. b \in S /\ names \in Seq(S) /\ k \in Nat /\ Len(names) <= k /\ k <= c
  <2>1. b \in S
    BY <1>4, NamesAssumption
  <2>2. PICK p \in Nat, q \in Nat : p = Len(names) /\ q = Len(v.data) /\ p <= q
    BY <1>1, <1>4
  <2>3. c \in Nat /\ q <= c /\ k = p + c - q
    BY <1>3, <1>4, <2>2
  <2> QED BY <1>1, <1>4, <2>1, <2>2, <2>3
<1>6. PICK padded : padded = Pad(names, k, b)
  OBVIOUS
<1>7. padded \in Seq(S) /\ Len(padded) = k
  BY <1>5, <1>6, Stretched
<1>8. \A j \in 1..Len(plan.fresh) : plan.fresh[j][1] <= c
  <2> SUFFICES ASSUME NEW j \in 1..Len(plan.fresh) PROVE plan.fresh[j][1] <= c
    OBVIOUS
  <2>1. plan.fresh[j] \in ToSet(plan.fresh)
    BY <1>3 DEF ToSet
  <2>2. plan.fresh[j][1] \in ToSet(plan.pos)
    BY <2>1 DEF PlanFor
  <2>3. \A i \in ToSet(plan.pos) : i <= Reach(plan, Len(v.data))
    BY <1>1, <1>3, Reaches
  <2> QED BY <2>2, <2>3
<1>9. /\ Renamed(padded, plan.fresh) \in Seq(S) /\ Len(Renamed(padded, plan.fresh)) <= c
      /\ Len(Renamed(padded, plan.fresh)) \in Nat
  <2>1. Blank \in S /\ plan.fresh \in Seq(Nat \X S) /\ Len(padded) <= c
    BY <1>3, <1>4, <1>5, <1>7
  <2> QED BY <1>3, <1>7, <1>8, <2>1, RenamedWithin
<1> QED BY <1>4, <1>6, <1>9

\* Elements, or values, written into a list.
LEMMA ListMade ==
    ASSUME NEW v, Deep(v), NEW plan, PlanFor(v, plan), NEW value, Deep(value), NEW single,
           single \/ value.data # <<>> \/ plan.pos = <<>>
    PROVE  \E c, d, n, m, a : /\ WriteList(v, plan, value, single) = Rec("List", d, n, m, a, <<>>)
                              /\ Shaped("List", c, d, n, m, a, <<>>)
<1> DEFINE out == WriteList(v, plan, value, single)
           grew == Reach(plan, Len(v.data)) > Len(v.data)
<1>1. Formed(v) /\ Formed(value) /\ Whole(v)
  BY Opens DEF Whole
<1>2. PICK c, src, items : /\ c = Reach(plan, Len(v.data))
                           /\ src = (IF single THEN <<Box(value)>> ELSE Elements(value))
                           /\ items = Splice(Pad(Elements(v), c, Box(NULL)), plan.pos, src)
  OBVIOUS
<1>3. Len(items) = c /\ items = [i \in 1..c |-> items[i]] /\ \A i \in 1..c : Boxed(items[i])
  BY <1>2, ListData, SMTT(30)
<1>4. PICK names : names = Renamed(Pad(NamesOf(v), Len(NamesOf(v)) + c - Len(v.data), Blank), plan.fresh)
  OBVIOUS
<1>5. PICK d, n, m, a : /\ d = items /\ n = names /\ m = (IF grew THEN <<>> ELSE v.dim)
                        /\ a = (IF grew THEN <<>> ELSE v.dimnames)
  OBVIOUS
<1>6. out = Rec("List", d, n, m, a, <<>>)
  <2>1. out = CopyAttrs(v, Named(V("List", items), names), Len(items) > Len(v.data))
    BY <1>2, <1>3, <1>4 DEF WriteList
  <2>2. PICK kind, longer : kind = "List" /\ longer = (Len(items) > Len(v.data))
    OBVIOUS
  <2>3. CopyAttrs(v, Named(V(kind, items), names), longer) =
          [kind |-> kind, data |-> items, names |-> names, dim |-> IF longer THEN <<>> ELSE v.dim,
           dimnames |-> IF longer THEN <<>> ELSE v.dimnames, levels |-> <<>>]
    BY Dressed
  <2>4. longer = grew
    BY <1>2, <1>3, <2>2
  <2> HIDE DEF out, grew
  <2> QED BY <1>5, <2>1, <2>2, <2>3, <2>4 DEF Rec
<1>7. n \in Seq(STRING) /\ Len(n) <= c /\ Len(n) \in Nat
  BY <1>2, <1>4, <1>5, ListNames
<1>8. /\ m \in Seq(Nat) /\ a \in Seq(Seq(STRING)) /\ (m # <<>> => Product(m) = c)
       /\ \A j \in 1..Len(a) : j \in 1..Len(m) /\ Len(a[j]) \in {0, m[j]}
  <2>1. CASE grew
    <3>1. m = <<>> /\ a = <<>>
      BY <1>5, <2>1
    <3>2. <<>> \in Seq(Nat) /\ <<>> \in Seq(Seq(STRING)) /\ Len(<<>>) = 0
      BY EmptySeq
    <3> QED BY <3>1, <3>2
  <2>2. CASE ~grew
    <3>1. m = v.dim /\ a = v.dimnames
      BY <1>5, <2>2
    <3>2. c = Len(v.data)
      <4>1. c \in Nat /\ Len(v.data) <= c /\ Len(v.data) \in Nat
        BY <1>1, <1>2, PlanParts, NamesParts
      <4>2. ~(c > Len(v.data))
        BY <1>2, <2>2
      <4> QED BY <4>1, <4>2
    <3>3. v.dim \in Seq(Nat) /\ v.dimnames \in Seq(Seq(STRING)) /\ (v.dim # <<>> => Product(v.dim) = Len(v.data))
      BY <1>1 DEF Formed
    <3>4. DOMAIN v.dimnames = 1..Len(v.dimnames) /\ DOMAIN v.dim = 1..Len(v.dim)
      BY <3>3
    <3>5. \A j \in 1..Len(v.dimnames) : j \in 1..Len(v.dim) /\ Len(v.dimnames[j]) \in {0, v.dim[j]}
      BY <1>1, <3>4 DEF Whole
    <3> QED BY <3>1, <3>2, <3>3, <3>5
  <2> QED BY <2>1, <2>2
<1>9. c \in Nat
  BY <1>1, <1>2, PlanParts
<1>10. Shaped("List", c, d, n, m, a, <<>>)
  <2>1. <<>> \in Seq(STRING)
    BY EmptySeq
  <2>2. \A i \in 1..c : Fits("List", d[i])
    BY <1>3, <1>5 DEF Fits
  <2>3. "List" \in Kinds \ {"Null"}
    BY DEF Kinds
  <2>4. Len(n) \in {0, c} \/ Len(n) < c
    BY <1>7, <1>9
  <2> QED BY <1>3, <1>5, <1>7, <1>8, <1>9, <2>1, <2>2, <2>3, <2>4 DEF Shaped
<1> HIDE DEF out
<1> QED BY <1>6, <1>10 DEF out
-----------------------------------------------------------------------------
(* Deletion *)

\* Taking out one place.
LEMMA RemovedAt ==
    ASSUME NEW E, NEW s, s \in Seq(E), NEW p \in Nat \ {0}
    PROVE  /\ Without(s, p) \in Seq(E)
           /\ p <= Len(s) => Len(Without(s, p)) = Len(s) - 1
           /\ ~(p <= Len(s)) => Without(s, p) = s
<1>1. CASE p <= Len(s)
  <2>1. PICK n \in Nat : n = Len(s)
    OBVIOUS
  <2>2. Without(s, p) = SubSeq(s, 1, p - 1) \o SubSeq(s, p + 1, n)
    BY <1>1, <2>1 DEF Without, RemoveAt
  <2>3. PICK a : a = SubSeq(s, 1, p - 1)
    OBVIOUS
  <2>4. PICK b : b = SubSeq(s, p + 1, n)
    OBVIOUS
  <2>5. a \in Seq(E) /\ Len(a) = p - 1
    BY <1>1, <2>1, <2>3
  <2>6. b \in Seq(E) /\ Len(b) = n - p
    BY <1>1, <2>1, <2>4
  <2>7. a \o b \in Seq(E) /\ Len(a \o b) = n - 1
    <3>1. a \o b \in Seq(E) /\ Len(a \o b) = Len(a) + Len(b)
      BY <2>5, <2>6
    <3> QED BY <2>5, <2>6, <3>1
  <2> QED BY <1>1, <2>1, <2>2, <2>3, <2>4, <2>7
<1>2. CASE ~(p <= Len(s))
  BY <1>2 DEF Without
<1> QED BY <1>1, <1>2

\* A sequence after the places are removed from it, one after the other.
LEMMA RemovalRuns ==
    ASSUME NEW E, NEW t, t \in Seq(E), NEW s, s \in Seq(Nat \ {0})
    PROVE  \E r \in [0..Len(s) -> Seq(E)] :
             /\ r[0] = t /\ (\A k \in 1..Len(s) : r[k] = Without(r[k - 1], s[k]))
             /\ Stripped(t, s) = r[Len(s)]
<1> DEFINE n == Len(s)
           D == Seq(E)
           P == Nat \ {0}
           Chosen(g) == g = [S \in SUBSET (DOMAIN s) |-> IF S = {} THEN t ELSE Without(g[S \ {Max(S)}], s[Max(S)])]
           step == [c \in D |-> [e \in P |-> Without(c, e)]]
           all == FoldLeft(Without, t, s)
<1>1. all = (CHOOSE g : Chosen(g))[DOMAIN s]
  <2>1. all = MapThenFoldSet(LAMBDA e, acc : Without(acc, e), t, LAMBDA i : s[i], LAMBDA S : Max(S), DOMAIN s)
    BY DEF FoldLeft
  <2>2. MapThenFoldSet(LAMBDA e, acc : Without(acc, e), t, LAMBDA i : s[i], LAMBDA S : Max(S), DOMAIN s)
          = (CHOOSE g : Chosen(g))[DOMAIN s]
    BY DEF MapThenFoldSet
  <2> QED BY <2>1, <2>2
<1>2. DOMAIN s = 1..n /\ n \in Nat /\ s \in Seq(P) /\ \A k \in 1..n : s[k] \in P
  OBVIOUS
<1>3. \A c \in D, e \in P : step[c][e] = Without(c, e) /\ step[c][e] \in D
  BY RemovedAt
<1>4. t \in D
  OBVIOUS
<1> HIDE DEF step, D, P, n
<1>5. \A S \in SUBSET (1..n) : S # {} => Max(S) \in 1..n
  BY <1>2, MaxWithin
<1>6. PICK g : Folds(step, t, s, n, g) /\ \A S \in SUBSET (1..n) : g[S] \in D
  <2>1. \A c \in D, e \in P : step[c][e] \in D
    BY <1>3
  <2>2. t \in D /\ n \in Nat /\ \A i \in 1..n : s[i] \in P
    BY <1>4, <1>2
  <2> QED BY ONLY <2>1, <2>2, FoldsExist
<1>7. Chosen(g)
  <2>1. g = [S \in SUBSET (1..n) |-> IF S = {} THEN t ELSE step[g[S \ {Max(S)}]][s[Max(S)]]]
    BY <1>6 DEF Folds
  <2>2. \A S \in SUBSET (1..n) : S # {} => step[g[S \ {Max(S)}]][s[Max(S)]] = Without(g[S \ {Max(S)}], s[Max(S)])
    BY <1>2, <1>3, <1>5, <1>6
  <2> QED BY <1>2, <2>1, <2>2
<1>8. PICK f : f = (CHOOSE h : Chosen(h))
  OBVIOUS
<1>9. Chosen(f)
  BY <1>7, <1>8
<1>10. ASSUME NEW S \in SUBSET (1..n), S # {}, f[S \ {Max(S)}] \in D
      PROVE  f[S] = step[f[S \ {Max(S)}]][s[Max(S)]]
  <2>1. f[S] = Without(f[S \ {Max(S)}], s[Max(S)])
    BY <1>2, <1>9, <1>10
  <2>2. s[Max(S)] \in P
    BY <1>2, <1>5, <1>10
  <2> QED BY <1>3, <1>10, <2>1, <2>2
<1>11. f[{}] = t
  BY <1>2, <1>9
<1>12. FoldsTo(D, P, step, t, s, f)
  BY <1>4, <1>2, <1>3, <1>10, <1>11 DEF FoldsTo, n
<1>13. PICK r \in [0..n -> D] : Run(step, t, s, r) /\ f[1..n] = r[n]
  BY <1>12, FoldRuns DEF n
<1>14. \A k \in 1..n : r[k] = Without(r[k - 1], s[k])
  <2>1. ASSUME NEW k \in 1..n PROVE r[k] = Without(r[k - 1], s[k])
    <3>1. k - 1 \in 0..n
      BY <1>2
    <3>2. r[k - 1] \in D /\ s[k] \in P
      BY <1>2, <3>1
    <3>3. r[k] = step[r[k - 1]][s[k]]
      BY <1>13 DEF Run, n
    <3> QED BY <1>3, <3>2, <3>3
  <2> QED BY <2>1
<1>15. r[0] = t
  BY <1>13 DEF Run
<1> HIDE DEF all
<1>16. all = r[n]
  BY <1>1, <1>2, <1>8, <1>13
<1> USE DEF all, D, n
<1> QED BY <1>13, <1>14, <1>15, <1>16 DEF Stripped

\* A list and its names lose the same places: the names do not become more.
LEMMA RemovedTogether ==
    ASSUME NEW E, NEW t, t \in Seq(E), NEW F, NEW u, u \in Seq(F), Len(u) <= Len(t), NEW s, s \in Seq(Nat \ {0})
    PROVE  /\ Stripped(t, s) \in Seq(E) /\ Stripped(u, s) \in Seq(F)
           /\ Len(Stripped(u, s)) <= Len(Stripped(t, s))
<1>1. PICK n \in Nat : n = Len(s) /\ \A k \in 1..n : s[k] \in Nat \ {0}
  OBVIOUS
<1>2. PICK p \in [0..Len(s) -> Seq(E)] :
        /\ p[0] = t /\ (\A k \in 1..Len(s) : p[k] = Without(p[k - 1], s[k])) /\ Stripped(t, s) = p[Len(s)]
  <2>1. t \in Seq(E) /\ s \in Seq(Nat \ {0})
    OBVIOUS
  <2> QED BY ONLY <2>1, RemovalRuns
<1>3. PICK q \in [0..Len(s) -> Seq(F)] :
        /\ q[0] = u /\ (\A k \in 1..Len(s) : q[k] = Without(q[k - 1], s[k])) /\ Stripped(u, s) = q[Len(s)]
  <2>1. u \in Seq(F) /\ s \in Seq(Nat \ {0})
    OBVIOUS
  <2> QED BY ONLY <2>1, RemovalRuns
<1> DEFINE T == {k \in Nat : k <= n => Len(q[k]) <= Len(p[k])}
<1>4. 0 \in T
  BY <1>2, <1>3
<1>5. ASSUME NEW k \in Nat, k \in T PROVE k + 1 \in T
  <2> SUFFICES ASSUME k + 1 <= n PROVE Len(q[k + 1]) <= Len(p[k + 1])
    OBVIOUS
  <2>1. k \in 0..n /\ k + 1 \in 1..n /\ k + 1 - 1 = k
    BY <1>1
  <2>2. PICK a, b, c, d, e : a = p[k] /\ b = q[k] /\ c = p[k + 1] /\ d = q[k + 1] /\ e = s[k + 1]
    OBVIOUS
  <2>3. a \in Seq(E) /\ b \in Seq(F) /\ e \in Nat \ {0} /\ c = Without(a, e) /\ d = Without(b, e) /\ Len(b) <= Len(a)
    <3>1. a \in Seq(E) /\ b \in Seq(F) /\ e \in Nat \ {0}
      BY <1>1, <2>1, <2>2
    <3>2. c = Without(a, e)
      BY <1>1, <1>2, <2>1, <2>2
    <3>3. d = Without(b, e)
      BY <1>1, <1>3, <2>1, <2>2
    <3>4. Len(b) <= Len(a)
      BY <1>5, <2>1, <2>2
    <3> QED BY <3>1, <3>2, <3>3, <3>4
  <2>4. /\ e <= Len(a) => Len(c) = Len(a) - 1
        /\ ~(e <= Len(a)) => c = a
    BY <2>3, RemovedAt
  <2>5. /\ e <= Len(b) => Len(d) = Len(b) - 1
        /\ ~(e <= Len(b)) => d = b
    BY <2>3, RemovedAt
  <2>6. PICK i \in Nat, j \in Nat : i = Len(a) /\ j = Len(b) /\ j <= i
    BY <2>3
  <2>7. Len(d) <= Len(c)
    <3>1. CASE e <= j
      <4>1. e <= i
        BY <2>3, <2>6, <3>1
      <4> QED BY <2>4, <2>5, <2>6, <3>1, <4>1
    <3>2. CASE ~(e <= j) /\ e <= i
      <4>1. j <= i - 1
        BY <2>3, <2>6, <3>2
      <4> QED BY <2>4, <2>5, <2>6, <3>2, <4>1
    <3>3. CASE ~(e <= j) /\ ~(e <= i)
      BY <2>4, <2>5, <2>6, <3>3
    <3> QED BY <3>1, <3>2, <3>3
  <2> QED BY <2>2, <2>7
<1>6. n \in T
  <2> HIDE DEF T
  <2>1. Nat \subseteq T
    BY <1>4, <1>5, SetInduction
  <2> QED BY <2>1
<1>7. Len(q[n]) <= Len(p[n])
  BY <1>6
<1>8. n \in 0..n
  OBVIOUS
<1> QED BY <1>1, <1>2, <1>3, <1>7, <1>8

\* A list from which elements are deleted.
LEMMA DeletedMade ==
    ASSUME NEW v, Deep(v), v.kind = "List", NEW plan, PlanFor(v, plan), NEW single
    PROVE  \E d, n : /\ DeleteElements(v, plan, single) = Rec("List", d, n, <<>>, <<>>, <<>>)
                     /\ Shaped("List", Len(d), d, n, <<>>, <<>>, <<>>)
<1>1. PICK down, reach : /\ down = Descending(plan.pos)
                         /\ reach = IF single THEN Len(v.data) ELSE Reach(plan, Len(v.data))
  OBVIOUS
<1>2. down \in Seq(Nat \ {0})
  <2>1. plan.pos \in Seq(Nat \ {0})
    BY DEF PlanFor
  <2> QED BY <1>1, <2>1, Descends
<1>3. reach \in Nat /\ Len(v.data) <= reach
  <2>1. /\ Reach(plan, Len(v.data)) \in Nat /\ Len(v.data) <= Reach(plan, Len(v.data)) /\ Len(v.data) \in Nat
    BY Opens, PlanParts, NamesParts DEF Whole
  <2> QED BY <1>1, <2>1
<1>4. NamesOf(v) \in Seq(STRING) /\ Len(NamesOf(v)) \in Nat /\ Len(NamesOf(v)) <= Len(v.data) /\ Len(v.data) \in Nat
  BY NamesParts
<1>5. PICK E : v.data \in Seq(E) /\ Box(NULL) \in E /\ \A e \in E : Boxed(e)
  <2>1. PICK G : G = ToSet(v.data) \cup {Box(NULL)}
    OBVIOUS
  <2>2. v.data \in Seq(ToSet(v.data)) /\ \A e \in ToSet(v.data) : Boxed(e)
    BY Opens, FormedParts DEF Whole
  <2>3. ToSet(v.data) \subseteq G
    BY <2>1
  <2>4. v.data \in Seq(G)
    BY <2>2, <2>3, Widened
  <2>5. Boxed(Box(NULL))
    BY DeepNull, BoxIsBoxed
  <2> QED BY <2>1, <2>2, <2>4, <2>5
<1>6. PICK S, b, names, k : S = STRING /\ b = Blank /\ names = NamesOf(v) /\ k = Len(names) + reach - Len(v.data)
  OBVIOUS
<1>7. b \in S /\ names \in Seq(S) /\ k \in Nat /\ Len(names) <= k /\ k <= reach
  <2>1. b \in S
    BY <1>6, NamesAssumption
  <2>2. PICK p \in Nat, q \in Nat : p = Len(names) /\ q = Len(v.data) /\ p <= q
    BY <1>4, <1>6
  <2>3. reach \in Nat /\ q <= reach /\ k = p + reach - q
    BY <1>3, <1>6, <2>2
  <2> QED BY <1>4, <1>6, <2>1, <2>2, <2>3
<1>8. PICK none : none = Box(NULL)
  OBVIOUS
<1>9. PICK s, t : s = Pad(v.data, reach, none) /\ t = Pad(names, k, b)
  OBVIOUS
<1>10. s \in Seq(E) /\ Len(s) = reach
  <2>1. none \in E
    BY <1>5, <1>8
  <2> QED BY <1>3, <1>5, <1>9, <2>1, Stretched
<1>11. t \in Seq(S) /\ Len(t) = k
  BY <1>7, <1>9, Stretched
<1>12. PICK d, u : d = Stripped(s, down) /\ u = Stripped(t, down)
  OBVIOUS
<1>13. d \in Seq(E) /\ u \in Seq(S) /\ Len(u) <= Len(d)
  <2>1. Len(t) <= Len(s)
    BY <1>7, <1>10, <1>11
  <2> QED BY <1>2, <1>10, <1>11, <1>12, <2>1, RemovedTogether
<1>14. PICK n : n = IF names = <<>> THEN <<>> ELSE u
  OBVIOUS
<1>15. DeleteElements(v, plan, single) = Named(V("List", d), n)
  <2>1. DeleteElements(v, plan, single) = Deleted(v, plan, single, down)
    BY <1>1 DEF DeleteElements
  <2>2. Deleted(v, plan, single, down) =
          Named(V("List", Stripped(Pad(v.data, reach, Box(NULL)), down)),
                IF names = <<>> THEN <<>> ELSE Stripped(Pad(names, k, Blank), down))
    BY <1>1, <1>6 DEF Deleted
  <2> QED BY <1>6, <1>8, <1>9, <1>12, <1>14, <2>1, <2>2
<1>16. Named(V("List", d), n) = Rec("List", d, n, <<>>, <<>>, <<>>)
  <2>1. PICK kind : kind = "List"
    OBVIOUS
  <2>2. V(kind, d) = Rec(kind, d, <<>>, <<>>, <<>>, <<>>)
    BY DEF V, Rec
  <2>3. Named(V(kind, d), n) = Rec(kind, d, n, <<>>, <<>>, <<>>)
    BY <2>2, RecWith
  <2> QED BY <2>1, <2>3
<1>17. n \in Seq(STRING) /\ Len(n) \in Nat /\ Len(n) <= Len(d)
  <2>1. <<>> \in Seq(STRING) /\ Len(<<>>) = 0 /\ Len(d) \in Nat
    BY <1>13, EmptySeq
  <2>2. u \in Seq(STRING) /\ Len(u) \in Nat
    BY <1>6, <1>13
  <2>3. CASE names = <<>>
    <3>1. n = <<>>
      BY <1>14, <2>3
    <3> QED BY <2>1, <3>1
  <2>4. CASE names # <<>>
    <3>1. n = u
      BY <1>14, <2>4
    <3> QED BY <1>13, <2>2, <3>1
  <2> QED BY <2>3, <2>4
<1>18. Len(d) \in Nat /\ d = [i \in 1..Len(d) |-> d[i]] /\ \A i \in 1..Len(d) : Fits("List", d[i])
  <2>1. Len(d) \in Nat /\ d = [i \in 1..Len(d) |-> d[i]] /\ \A i \in 1..Len(d) : d[i] \in E
    BY <1>13
  <2>2. \A e \in E : Fits("List", e)
    BY <1>5 DEF Fits
  <2> QED BY <2>1, <2>2
<1>19. Shaped("List", Len(d), d, n, <<>>, <<>>, <<>>)
  <2>1. <<>> \in Seq(STRING) /\ <<>> \in Seq(Nat) /\ <<>> \in Seq(Seq(STRING)) /\ Len(<<>>) = 0
    BY EmptySeq
  <2>2. "List" \in Kinds \ {"Null"}
    BY DEF Kinds
  <2>3. Len(n) \in {0, Len(d)} \/ Len(n) < Len(d)
    BY <1>17, <1>18
  <2> QED BY <1>17, <1>18, <2>1, <2>2, <2>3 DEF Shaped
<1> QED BY <1>15, <1>16, <1>19

\* What can be written: an empty value only as the element of a list, or over no
\* element at all.
Writable(v, plan, value, single) ==
    /\ PlanFor(v, plan)
    /\ WritesList(v, value, single) /\ value.kind # "Null" => single \/ value.data # <<>> \/ plan.pos = <<>>

\* The rebuild of a vector is one.
LEMMA RebuildMade ==
    ASSUME NEW v, Deep(v), NEW plan, NEW value, Deep(value), NEW single, Writable(v, plan, value, single)
    PROVE  \E k, c, d, n, m, a : /\ Rebuild(v, plan, value, single) = Rec(k, d, n, m, a, <<>>)
                                 /\ Shaped(k, c, d, n, m, a, <<>>)
<1>1. PlanFor(v, plan)
  BY DEF Writable
<1>2. CASE ~WritesList(v, value, single)
  <2>1. v.kind # "List" /\ value.kind # "List"
    BY <1>2 DEF WritesList
  <2>2. Rebuild(v, plan, value, single) = WriteAtomic(v, plan, value)
    BY <1>2 DEF Rebuild
  <2> QED BY <1>1, <2>1, <2>2, AtomicMade
<1>3. CASE WritesList(v, value, single) /\ value.kind = "Null"
  <2>1. v.kind = "List"
    BY <1>3 DEF WritesList
  <2>2. Rebuild(v, plan, value, single) = DeleteElements(v, plan, single)
    BY <1>3 DEF Rebuild
  <2> QED BY <1>1, <2>1, <2>2, DeletedMade
<1>4. CASE WritesList(v, value, single) /\ value.kind # "Null"
  <2>1. Rebuild(v, plan, value, single) = WriteList(v, plan, value, single)
    BY <1>4 DEF Rebuild
  <2>2. single \/ value.data # <<>> \/ plan.pos = <<>>
    BY <1>4 DEF Writable
  <2> QED BY <1>1, <2>1, <2>2, ListMade
<1> QED BY <1>2, <1>3, <1>4

LEMMA RebuildIsDeep ==
    ASSUME NEW v, Deep(v), NEW plan, NEW value, Deep(value), NEW single, Writable(v, plan, value, single)
    PROVE  Deep(Rebuild(v, plan, value, single)) /\ Rebuild(v, plan, value, single).kind # "Null"
           /\ Rebuild(v, plan, value, single).levels = <<>>
<1>1. PICK k, c, d, n, m, a : /\ Rebuild(v, plan, value, single) = Rec(k, d, n, m, a, <<>>)
                              /\ Shaped(k, c, d, n, m, a, <<>>)
  BY RebuildMade
<1>2. Deep(Rec(k, d, n, m, a, <<>>))
  BY <1>1, DeepMade
<1>3. k # "Null"
  BY <1>1 DEF Shaped
<1> QED BY <1>1, <1>2, <1>3 DEF Rec

\* A write into the vector itself.
LEMMA InPlaceMade ==
    ASSUME NEW v, Deep(v), v.levels = <<>>, NEW plan, NEW value, Deep(value), NEW single,
           Writable(v, plan, value, single), FitsInPlace(v, plan, value, single)
    PROVE  Deep(WriteInPlace(v, plan, value))
<1>1. Formed(v) /\ Formed(value) /\ PlanFor(v, plan)
  BY Opens DEF Whole, Writable
<1>2. PICK here, anew : here = WriteInPlace(v, plan, value) /\ anew = Rebuild(v, plan, value, single)
  OBVIOUS
<1>3. [here EXCEPT !.names = <<>>] = [anew EXCEPT !.names = <<>>]
  <2>1. Agree(v, here, anew)
    BY <1>1, <1>2, InPlaceGivesTheRebuild
  <2> QED BY <2>1 DEF Agree
<1>4. here = Rec(v.kind, here.data, v.names, v.dim, v.dimnames, v.levels)
  BY <1>1, <1>2, InPlaceParts DEF Rec
<1>5. PICK k, c, d, n, m, a : anew = Rec(k, d, n, m, a, <<>>) /\ Shaped(k, c, d, n, m, a, <<>>)
  BY <1>2, RebuildMade
<1>6. v.kind = k /\ here.data = d /\ v.dim = m /\ v.dimnames = a
  <2>1. Named(here, <<>>) = Rec(v.kind, here.data, <<>>, v.dim, v.dimnames, v.levels)
    BY <1>4, RecWith
  <2>2. Named(anew, <<>>) = Rec(k, d, <<>>, m, a, <<>>)
    BY <1>5, RecWith
  <2>3. Named(here, <<>>) = Named(anew, <<>>)
    BY <1>3 DEF Named
  <2>4. Rec(v.kind, here.data, <<>>, v.dim, v.dimnames, v.levels) = Rec(k, d, <<>>, m, a, <<>>)
    BY ONLY <2>1, <2>2, <2>3
  <2> QED BY ONLY <2>4 DEF Rec
<1>7. Len(d) = c
  BY <1>5, DeepMade
<1>8. Around(v, plan, here)
  BY <1>1, <1>2, InPlaceAround
<1>9. c = Reach(plan, Len(v.data))
  BY <1>6, <1>7, <1>8 DEF Around
<1>10. v.names \in Seq(STRING) /\ (Len(v.names) \in {0, c} \/ (k = "List" /\ Len(v.names) < c))
  <2>1. v.kind # "Null"
    BY <1>5, <1>6 DEF Shaped
  <2>2. Shaped(v.kind, Len(v.data), v.data, v.names, v.dim, v.dimnames, v.levels)
    BY <2>1, DeepParts
  <2>3. /\ v.names \in Seq(STRING)
        /\ Len(v.names) \in {0, Len(v.data)} \/ (v.kind = "List" /\ Len(v.names) < Len(v.data))
    BY <2>2 DEF Shaped
  <2>4. c = Len(v.data) \/ v.names = <<>>
    BY <1>9 DEF FitsInPlace
  <2>5. v.names = <<>> => Len(v.names) = 0
    BY EmptySeq
  <2> QED BY <1>6, <2>3, <2>4, <2>5
<1>11. Shaped(k, c, d, v.names, m, a, <<>>)
  BY <1>5, <1>10 DEF Shaped
<1>12. Deep(Rec(k, d, v.names, m, a, <<>>))
  BY <1>11, DeepMade
<1> QED BY <1>2, <1>4, <1>6, <1>12

-----------------------------------------------------------------------------
(* The places of a write *)

\* A plan, and how many it selects.
Plans(v, plan) == PlanFor(v, plan) /\ Len(plan.pos) \in Nat /\ plan.na \in Nat

\* The largest number of a subscript, or of the elements there are.
LEMMA LargestNumber ==
    ASSUME NEW a, Subscript(a), a.kind # "Str", NEW n \in Nat
    PROVE  Max(Numbers(a) \cup {n}) \in Nat
<1>1. /\ Len(a.data) \in Nat /\ DOMAIN a.data = 1..Len(a.data)
      /\ \A i \in 1..Len(a.data) : a.data[i] = NA \/ a.data[i][2] \in Int
  BY SubscriptParts
<1>2. PICK m \in Nat : m = Len(a.data)
  BY <1>1
<1>3. PICK S, d : S = Numbers(a) \cup {n} /\ d = a.data /\ m = Len(a.data)
  BY <1>2
<1>4. \A b \in S : b = n \/ \E i \in 1..m : d[i] # NA /\ b = d[i][2]
  BY <1>1, <1>3 DEF Numbers, ToSet
<1>5. PICK s : s = [i \in 1..m |-> IF d[i] = NA \/ d[i][2] < n THEN n ELSE d[i][2]]
  OBVIOUS
<1>6. s \in Seq(Nat) /\ Len(s) = m
  <2>1. \A i \in 1..m : s[i] \in Nat
    BY <1>1, <1>3, <1>5
  <2>2. s = [i \in 1..m |-> s[i]]
    BY <1>5
  <2> QED BY <2>1, <2>2, Listed
<1>7. PICK u \in Nat : \A i \in 1..m : s[i] <= u
  BY <1>6, Bounded
<1>8. PICK T : T = {b \in S : b \in Nat}
  OBVIOUS
<1>9. T \subseteq Nat /\ n \in T /\ u + n \in Nat
  BY <1>3, <1>8
<1>10. \A b \in T : b <= u + n
  <2> SUFFICES ASSUME NEW b \in T PROVE b <= u + n
    OBVIOUS
  <2>1. b \in S /\ b \in Nat
    BY <1>8
  <2>2. CASE b = n
    BY <2>2
  <2>3. CASE b # n
    <3>1. PICK i \in 1..m : d[i] # NA /\ b = d[i][2]
      BY <1>4, <2>1, <2>3
    <3>2. b <= n \/ b = s[i]
      BY <1>5, <2>1, <3>1
    <3>3. s[i] <= u /\ s[i] \in Nat
      BY <1>6, <1>7
    <3> QED BY <2>1, <3>2, <3>3
  <2> QED BY <2>2, <2>3
<1>11. PICK g \in T : \A b \in T : b <= g
  BY <1>9, <1>10, GreatestElement
<1>12. g \in S /\ g \in Nat /\ n <= g
  BY <1>8, <1>9, <1>11
<1>13. \A b \in S : g >= b
  <2> SUFFICES ASSUME NEW b \in S PROVE g >= b
    OBVIOUS
  <2>1. b \in Int
    BY <1>1, <1>3, <1>4
  <2>2. CASE b \in Nat
    <3>1. b \in T
      BY <1>8, <2>2
    <3> QED BY <1>11, <1>12, <2>2, <3>1
  <2>3. CASE b \notin Nat
    BY <1>12, <2>1, <2>3
  <2> QED BY <2>2, <2>3
<1>14. Max(S) \in S /\ \A b \in S : Max(S) >= b
  BY <1>12, <1>13 DEF Max
<1>15. Max(S) \in Nat
  <2>1. PICK q : q = Max(S)
    OBVIOUS
  <2>2. q \in S /\ q >= n
    BY <1>3, <1>14, <2>1
  <2>3. q \in Int
    BY <1>1, <1>3, <1>4, <2>2
  <2>4. q \in Nat
    BY ONLY <2>2, <2>3, n \in Nat
  <2> QED BY <2>1, <2>4
<1> QED BY <1>3, <1>15

\* The places numbers and flags select are a plan of the vector.
LEMMA NumbersPlanned ==
    ASSUME NEW v, Deep(v), NEW a, Subscript(a), a.kind # "Missing", a.kind # "Str", NEW value,
           NumberPositions(v, a, value).err = ""
    PROVE  Plans(v, NumberPositions(v, a, value))
<1>1. PICK q : q = NumberPositions(v, a, value)
  OBVIOUS
<1>2. PICK n, p : n = Max(Numbers(a) \cup {Len(v.data)}) /\ p = ResolveIndex(a, n, <<>>)
  OBVIOUS
<1>3. PICK t : t = p.val
  OBVIOUS
<1>4. PICK P : P = {i \in DOMAIN t : t[i] # 0}
  OBVIOUS
<1>5. PICK Q, na : Q = {i \in DOMAIN t : t[i] = 0} /\ na = Cardinality(Q)
  OBVIOUS
<1>6. PICK pos, err : /\ pos = Those(t, P)
                      /\ err = IF p.err # "" THEN p.err ELSE IF na > 0 /\ Len(value.data) > 1 THEN "NA" ELSE ""
  OBVIOUS
<1>7. q = [err |-> err, pos |-> pos, na |-> na, fresh |-> <<>>]
  BY <1>1, <1>2, <1>3, <1>4, <1>5, <1>6 DEF NumberPositions
<1>8. q.err = err /\ q.pos = pos /\ q.na = na /\ q.fresh = <<>>
  BY <1>7
<1>9. p.err = ""
  BY <1>1, <1>6, <1>8
<1>10. n \in Nat
  <2>1. Len(v.data) \in Nat
    BY NamesParts
  <2> QED BY <1>2, <2>1, LargestNumber
<1>11. t \in Seq(0..n)
  <2>1. PICK names \in Seq(STRING) : names = <<>> /\ Len(names) = 0
    BY EmptySeq
  <2>2. Len(names) <= n
    <3>1. PICK l : l = Len(names)
      OBVIOUS
    <3>2. l = 0
      BY <2>1, <3>1
    <3>3. l <= n
      BY ONLY <1>10, <3>2
    <3> QED BY <3>1, <3>3
  <2>3. ResolveIndex(a, n, names).err = "" => ResolveIndex(a, n, names).val \in Seq(0..n)
    BY <1>10, <2>2, Resolves
  <2> QED BY <1>2, <1>3, <1>9, <2>1, <2>3
<1>12. PICK E : E = 0..n
  OBVIOUS
<1>13. t \in Seq(E)
  BY <1>11, <1>12
<1>14. PICK m \in Nat : m = Len(t) /\ DOMAIN t = 1..m
  BY ONLY <1>13
<1>15. na \in Nat
  <2>1. IsFiniteSet(1..m) /\ Q \subseteq 1..m
    <3>1. IsFiniteSet(1..m)
      <4>1. 1 \in Int /\ m \in Int
        BY ONLY <1>14, m \in Nat
      <4> QED BY <4>1, FS_Interval
    <3>2. Q \subseteq 1..m
      BY <1>5, <1>14
    <3> QED BY <3>1, <3>2
  <2>2. IsFiniteSet(Q)
    BY <2>1, FS_Subset
  <2> QED BY <1>5, <2>2, FS_CardinalityType
<1>16. pos \in Seq(Nat \ {0}) /\ Len(pos) \in Nat
  <2>1. P \subseteq 1..Len(t) /\ t \in Seq(E)
    BY <1>4, <1>14, <1>13
  <2>2. /\ pos \in Seq(E) /\ Len(pos) = Cardinality(P) /\ Cardinality(P) \in Nat
        /\ \A k \in 1..Cardinality(P) : pos[k] = t[Ascending(P)[k]] /\ Ascending(P)[k] \in P
    <3>1. /\ Those(t, P) \in Seq(E) /\ Len(Those(t, P)) = Cardinality(P) /\ Cardinality(P) \in Nat
          /\ \A k \in 1..Cardinality(P) : /\ Those(t, P)[k] = t[Ascending(P)[k]]
                                           /\ Ascending(P)[k] \in P
      BY ONLY <2>1, ThoseAt
    <3> QED BY ONLY <1>6, <3>1
  <2>3. PICK c \in Nat : c = Cardinality(P)
    BY <2>2
  <2>4. ASSUME NEW k \in 1..c PROVE pos[k] \in Nat \ {0}
    <3>1. pos[k] # 0
      BY <1>4, <2>2, <2>3
    <3>2. pos[k] \in E
      BY ONLY <2>2, <2>3, k \in 1..c
    <3>3. PICK b : b = pos[k]
      OBVIOUS
    <3>4. b \in 0..n /\ b # 0
      BY <1>12, <3>1, <3>2, <3>3
    <3>5. b \in Nat \ {0}
      BY ONLY <1>10, <3>4
    <3> QED BY <3>3, <3>5
  <2>5. pos = [k \in 1..c |-> pos[k]]
    BY ONLY <2>2, <2>3
  <2> QED BY <2>4, <2>5, Listed
<1>17. PlanFor(v, q)
  <2>1. PICK F : F = Nat \X STRING
    OBVIOUS
  <2>2. <<>> \in Seq(F)
    BY EmptySeq
  <2>3. \A f \in ToSet(<<>>) : FALSE
    <3>1. PICK e : e = <<>> /\ e \in Seq(Nat)
      BY EmptySeq
    <3>2. \A i \in DOMAIN e : FALSE
      BY ONLY <3>1
    <3>3. ToSet(e) = {e[i] : i \in DOMAIN e}
      BY DEF ToSet
    <3>4. \A f \in ToSet(e) : FALSE
      BY ONLY <3>2, <3>3
    <3> QED BY <3>1, <3>4
  <2> QED BY <1>8, <1>16, <2>1, <2>2, <2>3 DEF PlanFor
<1> QED BY <1>1, <1>8, <1>15, <1>16, <1>17 DEF Plans

\* What is gathered of the names of a subscript: places, and new names for places
\* past the others.
Gathered(pos, fresh) == [err |-> "", pos |-> pos, na |-> 0, fresh |-> fresh]
Past(n, pos, fresh) == \A f \in ToSet(fresh) : f[1] > n /\ f[1] \in ToSet(pos)
Gatherings(n) == {c \in {Gathered(p, f) : p \in Seq(Nat \ {0}), f \in Seq(Nat \X STRING)} : Past(n, c.pos, c.fresh)}
Gather(names, n, acc, e) ==
    IF e = NA THEN acc
    ELSE IF NameAt(names, e) # 0 THEN [acc EXCEPT !.pos = Append(@, NameAt(names, e))]
    ELSE LET next == n + Len(acc.fresh) + 1
         IN  [acc EXCEPT !.pos = Append(@, next), !.fresh = Append(@, <<next, e[2]>>)]

\* One more element is in a sequence.
LEMMA Appended ==
    ASSUME NEW E, NEW s, s \in Seq(E), NEW e, e \in E
    PROVE  /\ Append(s, e) \in Seq(E) /\ e \in ToSet(Append(s, e))
           /\ \A b \in ToSet(s) : b \in ToSet(Append(s, e))
           /\ \A b \in ToSet(Append(s, e)) : b = e \/ b \in ToSet(s)
<1>1. PICK n \in Nat : n = Len(s)
  OBVIOUS
<1>2. PICK t : n = Len(s) /\ t = Append(s, e)
  BY <1>1
<1>3. t \in Seq(E) /\ DOMAIN t = 1..(n + 1) /\ t[n + 1] = e /\ (\A i \in 1..n : t[i] = s[i]) /\ DOMAIN s = 1..n
  BY <1>2
<1>4. ToSet(t) = {t[i] : i \in 1..(n + 1)} /\ ToSet(s) = {s[i] : i \in 1..n}
  BY <1>3 DEF ToSet
<1>5. n + 1 \in 1..(n + 1) /\ \A i \in 1..(n + 1) : i = n + 1 \/ i \in 1..n
  BY <1>2
<1>6. \A i \in 1..n : i \in 1..(n + 1)
  BY <1>2
<1> QED BY <1>2, <1>3, <1>4, <1>5, <1>6

LEMMA GatheringMade ==
    ASSUME NEW n, NEW p, p \in Seq(Nat \ {0}), NEW f, f \in Seq(Nat \X STRING), Past(n, p, f)
    PROVE  Gathered(p, f) \in Gatherings(n)
<1>1. Gathered(p, f).pos = p /\ Gathered(p, f).fresh = f
  BY DEF Gathered
<1> QED BY <1>1 DEF Gatherings

Moved(c, q) == [c EXCEPT !.pos = q]
Added(c, q, g) == [c EXCEPT !.pos = q, !.fresh = g]
LEMMA GatheredWith ==
    ASSUME NEW p, NEW f, NEW q, NEW g
    PROVE  Moved(Gathered(p, f), q) = Gathered(q, f) /\ Added(Gathered(p, f), q, g) = Gathered(q, g)
<1>1. PICK none, zero : none = "" /\ zero = 0
  OBVIOUS
<1>2. [[err |-> none, pos |-> p, na |-> zero, fresh |-> f] EXCEPT !.pos = q]
        = [err |-> none, pos |-> q, na |-> zero, fresh |-> f]
  OBVIOUS
<1>3. [[err |-> none, pos |-> q, na |-> zero, fresh |-> f] EXCEPT !.fresh = g]
        = [err |-> none, pos |-> q, na |-> zero, fresh |-> g]
  OBVIOUS
<1>4. [Gathered(p, f) EXCEPT !.pos = q, !.fresh = g] = [[Gathered(p, f) EXCEPT !.pos = q] EXCEPT !.fresh = g]
  OBVIOUS
<1>5. [Gathered(p, f) EXCEPT !.pos = q] = Gathered(q, f)
  BY <1>1, <1>2 DEF Gathered
<1>6. [Gathered(q, f) EXCEPT !.fresh = g] = Gathered(q, g)
  BY <1>1, <1>3 DEF Gathered
<1> QED BY ONLY <1>4, <1>5, <1>6 DEF Moved, Added

LEMMA GathersOne ==
    ASSUME NEW S, NEW names, names \in Seq(S), NEW n \in Nat, NEW c, c \in Gatherings(n),
           NEW e, e = NA \/ e[2] \in STRING
    PROVE  Gather(names, n, c, e) \in Gatherings(n)
<1>1. PICK p, f : p \in Seq(Nat \ {0}) /\ f \in Seq(Nat \X STRING) /\ c = Gathered(p, f)
  BY DEF Gatherings
<1>2. c = [err |-> "", pos |-> p, na |-> 0, fresh |-> f]
  BY <1>1 DEF Gathered
<1>3. c.pos = p /\ c.fresh = f
  BY ONLY <1>2
<1>4. Past(n, p, f)
  BY <1>3 DEF Gatherings
<1>5. PICK k : k = NameAt(names, e)
  OBVIOUS
<1>6. CASE e = NA
  BY <1>6 DEF Gather
<1>7. CASE e # NA /\ k # 0
  <2>1. k \in Nat \ {0}
    <3>1. k \in 0..Len(names)
      BY <1>5, Finds
    <3> QED BY <1>7, <3>1
  <2>2. PICK q : q = Append(p, k)
    OBVIOUS
  <2>3. q \in Seq(Nat \ {0}) /\ \A b \in ToSet(p) : b \in ToSet(q)
    BY <1>1, <2>1, <2>2, Appended
  <2>4. Gather(names, n, c, e) = Moved(c, q)
    <3>1. Gather(names, n, c, e) = [c EXCEPT !.pos = Append(@, k)]
      BY <1>5, <1>7 DEF Gather
    <3>2. q = Append(c.pos, k)
      BY ONLY <1>3, <2>2
    <3> QED BY ONLY <3>1, <3>2 DEF Moved
  <2>5. Moved(c, q) = Gathered(q, f)
    BY <1>1, GatheredWith
  <2>6. Past(n, q, f)
    BY <1>4, <2>3 DEF Past
  <2>7. Gathered(q, f) \in Gatherings(n)
    BY <1>1, <2>3, <2>6, GatheringMade
  <2> QED BY <2>4, <2>5, <2>7 DEF Gathered
<1>8. CASE e # NA /\ k = 0
  <2>1. PICK m \in Nat : m = Len(f)
    BY <1>1
  <2>2. PICK next \in Nat : next = n + m + 1 /\ next # 0 /\ next > n
    <3>1. n + m + 1 \in Nat /\ n + m + 1 # 0 /\ n + m + 1 > n
      BY ONLY n \in Nat, m \in Nat
    <3> QED BY <3>1
  <2>3. PICK d, g, q : d = e[2] /\ g = Append(f, <<next, d>>) /\ q = Append(p, next)
    OBVIOUS
  <2>4. PICK E, new : E = Nat \X STRING /\ new = <<next, d>>
    OBVIOUS
  <2>5. new \in E /\ new[1] = next
    BY <1>8, <2>2, <2>3, <2>4
  <2>6. /\ g \in Seq(E) /\ \A b \in ToSet(g) : b = new \/ b \in ToSet(f)
    BY <1>1, <2>3, <2>4, <2>5, Appended
  <2>7. q \in Seq(Nat \ {0}) /\ next \in ToSet(q) /\ \A b \in ToSet(p) : b \in ToSet(q)
    <3>1. next \in Nat \ {0}
      BY <2>2
    <3> QED BY <1>1, <2>3, <3>1, Appended
  <2>8. Gather(names, n, c, e) = Added(c, q, g)
    <3>1. Gather(names, n, c, e) = [c EXCEPT !.pos = Append(@, next), !.fresh = Append(@, <<next, d>>)]
      BY <1>3, <1>5, <1>8, <2>1, <2>2, <2>3 DEF Gather
    <3>2. q = Append(c.pos, next) /\ g = Append(c.fresh, <<next, d>>)
      BY ONLY <1>3, <2>3
    <3> QED BY ONLY <3>1, <3>2 DEF Added
  <2>9. Added(c, q, g) = Gathered(q, g)
    BY <1>1, GatheredWith
  <2>10. Past(n, q, g)
    <3> SUFFICES ASSUME NEW b \in ToSet(g) PROVE b[1] > n /\ b[1] \in ToSet(q)
      BY DEF Past
    <3>1. CASE b = new
      BY <2>2, <2>5, <2>7, <3>1
    <3>2. CASE b \in ToSet(f)
      BY <1>4, <2>7, <3>2 DEF Past
    <3> QED BY <2>6, <3>1, <3>2
  <2>11. Gathered(q, g) \in Gatherings(n)
    BY <2>4, <2>6, <2>7, <2>10, GatheringMade
  <2> QED BY <2>8, <2>9, <2>11 DEF Gathered
<1> QED BY <1>6, <1>7, <1>8

\* The places names select are a plan of the vector.
LEMMA NamesPlanned ==
    ASSUME NEW v, Deep(v), NEW a, Subscript(a), a.kind = "Str"
    PROVE  Plans(v, NamePositions(v, a))
<1>1. PICK names, n : names = NamesOf(v) /\ n = Len(v.data)
  OBVIOUS
<1>2. names \in Seq(STRING) /\ n \in Nat
  BY <1>1, NamesParts
<1> DEFINE s == a.data
           m == Len(s)
           D == Gatherings(n)
           E == ToSet(s)
           none == [err |-> "", pos |-> <<>>, na |-> 0, fresh |-> <<>>]
           Chosen(g) == g = [S \in SUBSET (DOMAIN s) |->
                               IF S = {} THEN none ELSE Gather(names, n, g[S \ {Max(S)}], s[Max(S)])]
           step == [c \in D |-> [e \in E |-> Gather(names, n, c, e)]]
           all == FoldLeft(LAMBDA acc, e : Gather(names, n, acc, e), none, s)
<1>3. NamePositions(v, a) = all
  BY <1>1 DEF NamePositions, Gather
<1>4. all = (CHOOSE g : Chosen(g))[DOMAIN s]
  <2>1. all = MapThenFoldSet(LAMBDA e, acc : Gather(names, n, acc, e), none, LAMBDA i : s[i],
                             LAMBDA S : Max(S), DOMAIN s)
    BY DEF FoldLeft
  <2>2. MapThenFoldSet(LAMBDA e, acc : Gather(names, n, acc, e), none, LAMBDA i : s[i], LAMBDA S : Max(S), DOMAIN s)
          = (CHOOSE g : Chosen(g))[DOMAIN s]
    BY DEF MapThenFoldSet
  <2> QED BY <2>1, <2>2
<1>5. DOMAIN s = 1..m /\ m \in Nat /\ s \in Seq(E) /\ (\A i \in 1..m : s[i] = NA \/ s[i][2] \in STRING)
  BY SubscriptParts
<1>6. \A i \in 1..m : s[i] \in E
  BY <1>5 DEF ToSet
<1>7. \A e \in E : e = NA \/ e[2] \in STRING
  BY <1>5 DEF ToSet
<1>8. \A c \in D, e \in E : step[c][e] = Gather(names, n, c, e) /\ step[c][e] \in D
  <2> SUFFICES ASSUME NEW c \in D, NEW e \in E PROVE Gather(names, n, c, e) \in D
    OBVIOUS
  <2> HIDE DEF E
  <2> QED BY <1>2, <1>7, GathersOne
<1>9. none \in D
  <2>1. PICK P, F : P = Nat \ {0} /\ F = Nat \X STRING
    OBVIOUS
  <2>2. PICK z : z = <<>> /\ z \in Seq(P) /\ z \in Seq(F)
    BY EmptySeq
  <2>3. \A f \in ToSet(z) : FALSE
    <3>1. \A i \in DOMAIN z : FALSE
      BY ONLY <2>2
    <3>2. ToSet(z) = {z[i] : i \in DOMAIN z}
      BY DEF ToSet
    <3> QED BY ONLY <3>1, <3>2
  <2>4. Past(n, z, z)
    BY <2>3 DEF Past
  <2>5. Gathered(z, z) \in Gatherings(n)
    BY <2>1, <2>2, <2>4, GatheringMade
  <2> QED BY <2>2, <2>5 DEF Gathered
<1> HIDE DEF step, D, E, s, none, m
<1>10. \A S \in SUBSET (1..m) : S # {} => Max(S) \in 1..m
  BY <1>5, MaxWithin
<1>11. PICK g : Folds(step, none, s, m, g) /\ \A S \in SUBSET (1..m) : g[S] \in D
  <2>1. \A c \in D, e \in E : step[c][e] \in D
    BY <1>8
  <2>2. none \in D /\ m \in Nat /\ \A i \in 1..m : s[i] \in E
    BY <1>5, <1>6, <1>9
  <2> QED BY ONLY <2>1, <2>2, FoldsExist
<1>12. Chosen(g)
  <2>1. g = [S \in SUBSET (1..m) |-> IF S = {} THEN none ELSE step[g[S \ {Max(S)}]][s[Max(S)]]]
    BY <1>11 DEF Folds
  <2>2. \A S \in SUBSET (1..m) :
           S # {} => step[g[S \ {Max(S)}]][s[Max(S)]] = Gather(names, n, g[S \ {Max(S)}], s[Max(S)])
    BY <1>6, <1>8, <1>10, <1>11
  <2> QED BY <1>5, <2>1, <2>2
<1>13. PICK f : f = (CHOOSE h : Chosen(h))
  OBVIOUS
<1>14. Chosen(f)
  BY <1>12, <1>13
<1>15. ASSUME NEW S \in SUBSET (1..m), S # {}, f[S \ {Max(S)}] \in D
       PROVE  f[S] = step[f[S \ {Max(S)}]][s[Max(S)]]
  <2>1. f[S] = Gather(names, n, f[S \ {Max(S)}], s[Max(S)])
    BY <1>5, <1>14, <1>15
  <2>2. s[Max(S)] \in E
    BY <1>6, <1>10, <1>15
  <2> QED BY <1>8, <1>15, <2>1, <2>2
<1>16. f[{}] = none
  BY <1>5, <1>14
<1>17. FoldsTo(D, E, step, none, s, f)
  BY <1>5, <1>8, <1>9, <1>15, <1>16 DEF FoldsTo, m
<1>18. PICK r \in [0..m -> D] : Run(step, none, s, r) /\ f[1..m] = r[m]
  BY <1>17, FoldRuns DEF m
<1>19. f[1..m] \in D
  <2>1. m \in 0..m
    BY <1>5
  <2> QED BY <1>18, <2>1
<1> HIDE DEF all
<1>20. all = f[1..m]
  BY <1>4, <1>5, <1>13
<1>21. PICK plan : plan = NamePositions(v, a) /\ plan \in D
  BY <1>3, <1>19, <1>20
<1>22. PICK p, q : /\ p \in Seq(Nat \ {0}) /\ q \in Seq(Nat \X STRING)
                   /\ plan = Gathered(p, q) /\ Past(n, plan.pos, plan.fresh)
  BY <1>21 DEF D, Gatherings
<1>23. plan.pos = p /\ plan.fresh = q /\ plan.na = 0
  BY <1>22 DEF Gathered
<1>24. PlanFor(v, plan)
  BY <1>1, <1>22, <1>23 DEF PlanFor, Past
<1>25. Len(plan.pos) \in Nat /\ plan.na \in Nat
  BY <1>22, <1>23
<1> QED BY <1>21, <1>24, <1>25 DEF Plans

\* The places of any subscript are a plan of the vector.
LEMMA PositionsPlanned ==
    ASSUME NEW v, Deep(v), NEW a, Subscript(a), a.kind # "Missing", NEW value,
           WritePositions(v, a, value).err = ""
    PROVE  Plans(v, WritePositions(v, a, value))
<1>1. CASE a.kind = "Str"
  BY <1>1, NamesPlanned DEF WritePositions
<1>2. CASE a.kind # "Str"
  BY <1>2, NumbersPlanned DEF WritePositions
<1> QED BY <1>1, <1>2

\* Numbers, flags and names in a sequence are a subscript.
Selecting(k, e) == e = NA \/ (e = <<Lower(k), e[2]>> /\ e[2] \in IF k = "Str" THEN STRING ELSE Int)
LEMMA SubscriptMade ==
    ASSUME NEW k, k \in {"Lgl", "Int", "Dbl", "Str"}, NEW c \in Nat, NEW d, d = [i \in 1..c |-> d[i]],
           \A i \in 1..c : Selecting(k, d[i])
    PROVE  /\ Subscript(V(k, d)) /\ Deep(V(k, d))
           /\ V(k, d).kind = k /\ V(k, d).data = d /\ Len(d) = c
<1>1. V(k, d) = Rec(k, d, <<>>, <<>>, <<>>, <<>>)
  BY DEF V, Rec
<1>2. Shaped(k, c, d, <<>>, <<>>, <<>>, <<>>)
  <2>1. k \in Kinds \ {"Null"} /\ k # "List"
    BY DEF Kinds
  <2>2. \A i \in 1..c : Fits(k, d[i])
    BY <2>1 DEF Fits, Selecting
  <2>3. <<>> \in Seq(STRING) /\ <<>> \in Seq(Nat) /\ <<>> \in Seq(Seq(STRING)) /\ Len(<<>>) = 0
    BY EmptySeq
  <2> QED BY <2>1, <2>2, <2>3 DEF Shaped
<1>3. Deep(V(k, d)) /\ Len(d) = c
  BY <1>1, <1>2, DeepMade
<1>4. V(k, d).kind = k /\ V(k, d).data = d
  BY DEF V
<1>5. Whole(V(k, d)) /\ V(k, d).kind # "List"
  BY <1>3, <1>4, Opens
<1>6. \A e \in ToSet(V(k, d).data) : e = NA \/ e[2] \in IF V(k, d).kind = "Str" THEN STRING ELSE Int
  <2>1. DOMAIN d = 1..c
    OBVIOUS
  <2> QED BY <1>4, <2>1 DEF ToSet, Selecting
<1>7. Subscript(V(k, d))
  BY <1>5, <1>6 DEF Subscript
<1> QED BY <1>3, <1>4, <1>7

LEMMA OneNumber ==
    ASSUME NEW k \in Int
    PROVE  Subscript(Ints(<<k>>)) /\ Ints(<<k>>).kind = "Int" /\ Len(Ints(<<k>>).data) = 1
<1>1. PICK d : d = [i \in DOMAIN <<k>> |-> <<"int", <<k>>[i]>>]
  OBVIOUS
<1>2. d = [i \in 1..1 |-> d[i]] /\ d[1] = <<"int", k>>
  BY <1>1
<1>3. \A i \in 1..1 : Selecting("Int", d[i])
  BY <1>2 DEF Lower, Selecting
<1>4. Ints(<<k>>) = V("Int", d)
  BY <1>1 DEF Ints
<1>5. PICK n, c : n = "Int" /\ c = 1
  OBVIOUS
<1>6. n \in {"Lgl", "Int", "Dbl", "Str"} /\ c \in Nat /\ d = [i \in 1..c |-> d[i]] /\ \A i \in 1..c : Selecting(n, d[i])
  BY <1>2, <1>3, <1>5
<1>7. Subscript(V(n, d)) /\ V(n, d).kind = n /\ V(n, d).data = d /\ Len(d) = c
  BY <1>6, SubscriptMade
<1> QED BY <1>4, <1>5, <1>7

LEMMA PositionsAreASubscript ==
    ASSUME NEW pos, pos \in Seq(Nat)
    PROVE  /\ Subscript(PositionVector(pos)) /\ Deep(PositionVector(pos))
           /\ PositionVector(pos).kind = "Int" /\ Len(PositionVector(pos).data) = Len(pos)
           /\ DOMAIN PositionVector(pos).data = 1..Len(pos)
           /\ \A i \in 1..Len(pos) : PositionVector(pos).data[i] = IF pos[i] = 0 THEN NA ELSE <<"int", pos[i]>>
<1>1. PICK c \in Nat : c = Len(pos) /\ DOMAIN pos = 1..c
  OBVIOUS
<1>2. PICK d : d = [i \in DOMAIN pos |-> IF pos[i] = 0 THEN NA ELSE <<"int", pos[i]>>]
  OBVIOUS
<1>3. d = [i \in 1..c |-> d[i]] /\ DOMAIN d = 1..c
  BY <1>1, <1>2
<1>4. \A i \in 1..c : d[i] = IF pos[i] = 0 THEN NA ELSE <<"int", pos[i]>>
  BY <1>1, <1>2
<1>5. ASSUME NEW i \in 1..c PROVE Selecting("Int", d[i])
  <2>1. pos[i] \in Nat
    BY <1>1, ElementOfSeq
  <2>2. PICK p, e : p \in Nat /\ p = pos[i] /\ e = d[i]
    BY <2>1
  <2>3. e = IF p = 0 THEN NA ELSE <<"int", p>>
    BY <1>4, <2>2
  <2>4. Selecting("Int", e)
    <3>1. CASE p = 0
      BY <2>3, <3>1 DEF Selecting
    <3>2. CASE p # 0
      <4>1. e = <<"int", p>> /\ e[2] = p /\ p \in Int
        BY <2>2, <2>3, <3>2
      <4> QED BY <4>1 DEF Selecting, Lower
    <3> QED BY <3>1, <3>2
  <2> QED BY <2>2, <2>4
<1>6. PositionVector(pos) = V("Int", d)
  BY <1>2 DEF PositionVector
<1>7. PICK n : n = "Int"
  OBVIOUS
<1>8. n \in {"Lgl", "Int", "Dbl", "Str"} /\ c \in Nat /\ d = [i \in 1..c |-> d[i]] /\ \A i \in 1..c : Selecting(n, d[i])
  BY <1>1, <1>3, <1>5, <1>7
<1>9. Subscript(V(n, d)) /\ Deep(V(n, d)) /\ V(n, d).kind = n /\ V(n, d).data = d /\ Len(d) = c
  BY ONLY <1>8, SubscriptMade
<1> QED BY <1>1, <1>3, <1>4, <1>6, <1>7, <1>9

\* A subscript that is a value is a well-formed one.
LEMMA SubscriptIsDeep ==
    ASSUME NEW a, Subscript(a), a.kind # "Missing"
    PROVE  Deep(a) /\ a.kind # "List"
<1>1. a # Missing
  BY DEF Missing, V
<1>2. Whole(a) /\ a.kind # "List"
  BY <1>1 DEF Subscript
<1> QED BY <1>2, Closes

\* Some of the elements of a subscript are a subscript.
SomeOf(a, c, d) ==
    /\ c \in Nat \ {0} /\ d = [i \in 1..c |-> d[i]]
    /\ \A i \in 1..c : \E j \in 1..Len(a.data) : d[i] = a.data[j]
LEMMA PartOfSubscript ==
    ASSUME NEW a, Subscript(a), a.kind # "Missing", NEW c, NEW d, SomeOf(a, c, d)
    PROVE  /\ Subscript(V(a.kind, d)) /\ V(a.kind, d).kind = a.kind /\ V(a.kind, d).data = d /\ Len(d) = c
<1>1. PICK n : n = Len(a.data)
  OBVIOUS
<1>2. Deep(a) /\ a.kind # "List" /\ c \in Nat \ {0}
  BY SubscriptIsDeep DEF SomeOf
<1>3. a.kind # "Null"
  <2> SUFFICES ASSUME a.kind = "Null" PROVE FALSE
    OBVIOUS
  <2>1. a.data = <<>>
    BY <1>2, NullIs DEF NULL, V
  <2>2. n = 0
    BY <1>1, <2>1, EmptySeq
  <2>3. 1 \in 1..c
    BY ONLY <1>2
  <2>4. \E j \in 1..n : d[1] = a.data[j]
    BY <1>1, <2>3 DEF SomeOf
  <2> QED BY ONLY <2>2, <2>4
<1>4. PICK k : k = a.kind
  OBVIOUS
<1>5. Shaped(k, n, a.data, a.names, a.dim, a.dimnames, a.levels)
  BY <1>1, <1>2, <1>3, <1>4, DeepParts
<1>6. k \in Kinds \ {"Null"} /\ \A i \in 1..n : Fits(k, a.data[i])
  BY <1>5 DEF Shaped
<1>7. k \in {"Lgl", "Int", "Dbl", "Str"}
  BY <1>2, <1>4, <1>6 DEF Kinds
<1>8. \A i \in 1..n : Selecting(k, a.data[i])
  <2>1. \A i \in 1..n : a.data[i] = NA \/ a.data[i][2] \in IF k = "Str" THEN STRING ELSE Int
    BY <1>1, <1>4, SubscriptParts
  <2>2. \A i \in 1..n : a.data[i] = NA \/ a.data[i] = <<Lower(k), a.data[i][2]>>
    BY <1>6, <1>7 DEF Fits
  <2> QED BY <2>1, <2>2 DEF Selecting
<1>9. c \in Nat /\ d = [i \in 1..c |-> d[i]] /\ \A i \in 1..c : Selecting(k, d[i])
  BY <1>1, <1>8 DEF SomeOf
<1>10. Subscript(V(k, d)) /\ V(k, d).kind = k /\ V(k, d).data = d /\ Len(d) = c
  BY ONLY <1>7, <1>9, SubscriptMade
<1> QED BY <1>4, <1>10

\* The subscript of a write is one of positions, names or flags; of [[<- into a
\* vector that is no list, for a value of one element; of several levels only
\* into a list.

Selector(v, value, single, s) ==
    /\ Subscript(s) /\ s.kind # "Missing"
    /\ single => v.kind \in {"List", "Null"} \/ Len(value.data) = 1
    /\ single /\ Len(s.data) > 1 => v.kind = "List"

LEMMA CountsAreNumbers ==
    ASSUME NEW m
    PROVE  0..m \subseteq Nat
OBVIOUS

LEMMA OneIndexIs ==
    ASSUME NEW k \in Int, NEW n, OneIndex(k, n).err = ""
    PROVE  OneIndex(k, n).val \in Int
<1>1. Err("less than one").err = "less than one"
  BY Outcomes
<1>2. Err("more than one").err = "more than one"
  BY Outcomes
<1>3. OneIndex(k, n) \in {Ok(k), Ok(3 + k), Err("less than one"), Err("more than one")}
  BY DEF OneIndex
<1>4. OneIndex(k, n) = Ok(k) \/ OneIndex(k, n) = Ok(3 + k)
  BY <1>1, <1>2, <1>3
<1>5. PICK j : j = 3 + k
  OBVIOUS
<1>6. Ok(k).val = k /\ Ok(j).val = j
  BY Outcomes
<1>7. OneIndex(k, n).val = k \/ OneIndex(k, n).val = j
  BY <1>4, <1>5, <1>6
<1>8. k \in Int /\ j \in Int
  BY ONLY k \in Int, <1>5
<1> QED BY ONLY <1>7, <1>8

\* The one subscript of [[<-, and those of an array, are subscripts.
LEMMA SingleSubscripted ==
    ASSUME NEW v, Deep(v), NEW a, Subscript(a), NEW value, SingleSubscript(v, a, value).err = ""
    PROVE  Selector(v, value, TRUE, SingleSubscript(v, a, value).val)
<1>1. PICK r, at : r = SingleSubscript(v, a, value) /\ at = OneIndex(a.data[1][2], Len(v.data))
  OBVIOUS
<1>2. PICK n : n = Len(a.data)
  OBVIOUS
<1>3. r = IF a.kind = "Missing" THEN Err("missing")
          ELSE IF n <= 1 /\ v.kind \notin {"List", "Null"} /\ Len(value.data) # 1 THEN Err("length")
          ELSE IF n > 1 THEN IF v.kind = "List" THEN Ok(a) ELSE Err("recursive")
          ELSE IF a.data = <<>> THEN Err("less than one")
          ELSE IF a.kind = "Str" THEN Ok(a)
          ELSE IF a.data[1] = NA THEN Err("NA")
          ELSE IF at.err # "" THEN at ELSE Ok(Ints(<<at.val>>))
  BY <1>1, <1>2 DEF SingleSubscript
<1>4. /\ Err("missing").err # "" /\ Err("length").err # "" /\ Err("recursive").err # ""
      /\ Err("less than one").err # "" /\ Err("NA").err # ""
  BY DEF Err
<1>5. r.err = ""
  BY <1>1
<1>6. n \in Nat
  BY <1>2, SubscriptParts
<1>7. a.kind # "Missing" /\ (n <= 1 => v.kind \in {"List", "Null"} \/ Len(value.data) = 1) /\ (n > 1 => v.kind = "List")
  BY <1>3, <1>4, <1>5
<1>8. Ok(a).val = a
  BY Outcomes
<1>9. CASE n > 1
  <2>1. r = Ok(a)
    BY <1>3, <1>4, <1>5, <1>7, <1>9, <1>6
  <2>2. r.val = a /\ Subscript(a)
    BY <2>1, <1>8
  <2> QED BY <1>1, <1>7, <1>9, <2>2 DEF Selector
<1>10. CASE n <= 1
  <2>1. ~(n > 1) /\ ~(n <= 1 /\ v.kind \notin {"List", "Null"} /\ Len(value.data) # 1)
    <3>1. ~(n > 1)
      BY ONLY <1>6, <1>10
    <3> QED BY <1>7, <1>10, <3>1
  <2>2. /\ a.data # <<>> /\ (a.kind = "Str" => r = Ok(a))
        /\ a.kind # "Str" => a.data[1] # NA /\ at.err = "" /\ r = Ok(Ints(<<at.val>>))
    <3>1. r = IF a.data = <<>> THEN Err("less than one")
              ELSE IF a.kind = "Str" THEN Ok(a)
              ELSE IF a.data[1] = NA THEN Err("NA")
              ELSE IF at.err # "" THEN at ELSE Ok(Ints(<<at.val>>))
      BY <1>3, <1>7, <2>1
    <3> QED BY <1>4, <1>5, <3>1
  <2>3. CASE a.kind = "Str"
    <3>1. r.val = a /\ Subscript(a)
      BY <1>8, <2>2, <2>3
    <3>2. ~(Len(a.data) > 1) /\ (v.kind \in {"List", "Null"} \/ Len(value.data) = 1)
      BY <1>2, <1>7, <1>10, <2>1
    <3> QED BY <1>1, <1>7, <3>1, <3>2 DEF Selector
  <2>4. CASE a.kind # "Str"
    <3>1. 1 \in 1..n
      <4>1. a.data \in Seq(ToSet(a.data))
        BY SubscriptParts
      <4>2. PICK d : d = a.data /\ d \in Seq(ToSet(a.data)) /\ d # <<>> /\ n = Len(d)
        BY <1>2, <2>2, <4>1
      <4>3. n # 0
        BY ONLY <4>2
      <4> QED BY ONLY <1>6, <4>3
    <3>2. PICK k \in Int : k = a.data[1][2]
      <4>1. a.data[1] = NA \/ a.data[1][2] \in Int
        BY <1>2, <2>4, <3>1, SubscriptParts
      <4> QED BY <2>2, <2>4, <4>1
    <3>3. PICK j \in Int : j = at.val
      <4>1. OneIndex(k, Len(v.data)).err = ""
        BY <1>1, <2>2, <2>4, <3>2
      <4>2. OneIndex(k, Len(v.data)).val \in Int
        BY <4>1, OneIndexIs
      <4> QED BY <1>1, <3>2, <4>2
    <3>4. r.val = Ints(<<j>>)
      BY <2>2, <2>4, <3>3, Outcomes
    <3>5. Subscript(Ints(<<j>>)) /\ Ints(<<j>>).kind = "Int" /\ Len(Ints(<<j>>).data) = 1
      BY OneNumber
    <3>6. Subscript(r.val) /\ r.val.kind = "Int" /\ Len(r.val.data) = 1
      BY <3>4, <3>5
    <3>7. ~(Len(r.val.data) > 1)
      BY ONLY <3>6
    <3> QED BY <1>1, <1>7, <1>10, <3>6, <3>7 DEF Selector
  <2> QED BY <2>3, <2>4
<1>11. n > 1 \/ n <= 1
  BY ONLY <1>6
<1> QED BY <1>9, <1>10, <1>11

LEMMA CellsSubscripted ==
    ASSUME NEW v, Deep(v), NEW args, Arguments(args), Len(args) >= 2, NEW value, NEW single,
           CellSubscript(v, args, value, single).err = ""
    PROVE  /\ Subscript(CellSubscript(v, args, value, single).val)
           /\ CellSubscript(v, args, value, single).val.kind = "Int"
<1>1. PICK r, cell, p : /\ r = CellSubscript(v, args, value, single)
                        /\ cell = CellOf(v, args, FALSE) /\ p = ArrayPositions(v, args)
  OBVIOUS
<1>2. r.err = ""
  BY <1>1
<1>3. CASE single
  <2>1. r = IF v.kind # "List" /\ Len(value.data) # 1 THEN Err("length")
            ELSE IF cell.err # "" THEN cell ELSE Ok(Ints(<<cell.val>>))
    BY <1>1, <1>3 DEF CellSubscript
  <2>2. Err("length").err # ""
    BY DEF Err
  <2>3. cell.err = "" /\ r = Ok(Ints(<<cell.val>>))
    BY <1>2, <2>1, <2>2
  <2>4. cell.val \in 1..Len(v.data)
    BY <1>1, <2>3, CellIsThere
  <2>5. PICK j \in Int : j = cell.val
    <3>1. PICK m : m = Len(v.data) /\ cell.val \in 1..m
      BY <2>4
    <3>2. cell.val \in Int
      BY ONLY <3>1
    <3> QED BY <3>2
  <2>6. Subscript(Ints(<<j>>)) /\ Ints(<<j>>).kind = "Int"
    BY OneNumber
  <2>7. r.val = Ints(<<j>>)
    BY <2>3, <2>5, Outcomes
  <2> QED BY <1>1, <2>6, <2>7
<1>4. CASE ~single
  <2>1. PICK check : check = ArrayAssignChecks(p.val.cells, value, Len(v.dim) = 2)
    OBVIOUS
  <2>2. r = IF Len(v.dim) # Len(args) THEN Err("dimensions")
            ELSE IF p.err # "" THEN p ELSE IF check # "" THEN Err(check) ELSE Ok(PositionVector(p.val.cells))
    BY <1>1, <1>4, <2>1 DEF CellSubscript
  <2>3. Err("dimensions").err # "" /\ (check # "" => Err(check).err # "")
    BY DEF Err
  <2>4. Len(v.dim) = Len(args) /\ p.err = "" /\ r = Ok(PositionVector(p.val.cells))
    BY <1>2, <2>2, <2>3
  <2>5. v.dim # <<>>
    <3> SUFFICES ASSUME v.dim = <<>> PROVE FALSE
      OBVIOUS
    <3>1. Len(<<>>) = 0 /\ Len(v.dim) = Len(<<>>)
      OBVIOUS
    <3>2. PICK m : m = Len(args) /\ m >= 2 /\ m = 0
      BY <2>4, <3>1
    <3> QED BY ONLY <3>2
  <2>6. p.val.cells \in Seq(0..Len(v.data))
    <3>1. \A k \in 1..Len(args) : Subscript(args[k])
      BY ArgumentsParts
    <3>2. ArrayPositions(v, args).err = "" /\ Len(args) = Len(v.dim)
      BY <1>1, <2>4
    <3>3. LET q == ArrayPositions(v, args).val
               shape == [k \in DOMAIN v.dim |-> Len(q.margins[k])]
           IN  /\ \A k \in 1..Len(v.dim) : q.margins[k] \in Seq(0..v.dim[k])
               /\ shape \in Seq(Nat) /\ Len(shape) = Len(v.dim) /\ Product(shape) \in Nat
               /\ q.cells \in Seq(0..Len(v.data)) /\ Len(q.cells) = Product(shape)
      BY <2>5, <3>1, <3>2, ArraySelects
    <3> QED BY <1>1, <3>3
  <2>7. PICK pos : pos = p.val.cells /\ pos \in Seq(Nat)
    <3>1. PICK m : m = Len(v.data)
      OBVIOUS
    <3>2. p.val.cells \in Seq(0..m)
      BY <2>6, <3>1
    <3>3. 0..m \subseteq Nat
      BY CountsAreNumbers
    <3>4. PICK cells, E : cells = p.val.cells /\ E = 0..m
      OBVIOUS
    <3>5. cells \in Seq(Nat)
      BY <3>2, <3>3, <3>4, Widened
    <3> QED BY <3>4, <3>5
  <2>8. Subscript(PositionVector(pos)) /\ PositionVector(pos).kind = "Int"
    BY <2>7, PositionsAreASubscript
  <2>9. r.val = PositionVector(pos)
    BY <2>4, <2>7, Outcomes
  <2> QED BY <1>1, <2>8, <2>9
<1> QED BY <1>3, <1>4

LEMMA WriteSubscripted ==
    ASSUME NEW v, Deep(v), NEW args, Arguments(args), NEW value, NEW single,
           WriteSubscript(v, args, value, single).err = ""
    PROVE  Selector(v, value, single, WriteSubscript(v, args, value, single).val)
<1>1. PICK a : a = args[1]
  OBVIOUS
<1>2. PICK r, sub, p : /\ r = WriteSubscript(v, args, value, single) /\ p = PositionsRead(v, a)
                       /\ sub = IF Len(args) = 1 THEN Ok(a) ELSE CellSubscript(v, args, value, single)
  OBVIOUS
<1>3. r.err = ""
  BY <1>2
<1>4. Subscript(a) /\ (Len(args) = 1 \/ Len(args) >= 2) /\ (Len(args) >= 2 <=> Len(args) # 1)
  <2>1. PICK n : n = Len(args) /\ n \in Nat \ {0}
    BY ArgumentsParts
  <2>2. (n = 1 \/ n >= 2) /\ (n >= 2 <=> n # 1)
    BY ONLY <2>1
  <2>3. Subscript(a)
    BY <1>1, ArgumentsParts
  <2> QED BY <2>1, <2>2, <2>3
<1>5. ASSUME sub.err = "" PROVE Subscript(sub.val) /\ (~single /\ Len(args) >= 2 => sub.val.kind # "Missing")
  <2>1. CASE Len(args) = 1
    <3>1. sub.val = a
      BY <1>2, <2>1, Outcomes
    <3> QED BY <1>4, <2>1, <3>1
  <2>2. CASE Len(args) >= 2
    <3>1. sub = CellSubscript(v, args, value, single)
      BY <1>2, <1>4, <2>2
    <3>2. Subscript(sub.val) /\ sub.val.kind = "Int"
      BY <1>5, <2>2, <3>1, CellsSubscripted
    <3> QED BY <3>2
  <2> QED BY <1>4, <2>1, <2>2
<1>6. CASE single
  <2>1. r = IF sub.err = "" THEN SingleSubscript(v, sub.val, value) ELSE sub
    <3>1. CASE Len(args) = 1
      <4>1. sub = Ok(args[1])
        BY <1>1, <1>2, <3>1
      <4>2. WriteSubscript(v, args, value, single) =
              IF Ok(args[1]).err = "" THEN SingleSubscript(v, Ok(args[1]).val, value) ELSE Ok(args[1])
        BY ONLY <1>6, <3>1 DEF WriteSubscript
      <4> QED BY <1>2, <4>1, <4>2
    <3>2. CASE Len(args) # 1
      <4>1. sub = CellSubscript(v, args, value, single)
        BY <1>2, <3>2
      <4>2. PICK c : c = CellSubscript(v, args, value, single)
        OBVIOUS
      <4>3. WriteSubscript(v, args, value, single) = IF c.err = "" THEN SingleSubscript(v, c.val, value) ELSE c
        BY ONLY <1>6, <3>2, <4>2 DEF WriteSubscript
      <4> QED BY <1>2, <4>1, <4>2, <4>3
    <3> QED BY <3>1, <3>2
  <2>2. sub.err = "" /\ SingleSubscript(v, sub.val, value).err = "" /\ r = SingleSubscript(v, sub.val, value)
    BY <1>3, <2>1
  <2>3. PICK b : b = sub.val /\ Subscript(b)
    BY <1>5, <2>2
  <2>4. Selector(v, value, TRUE, SingleSubscript(v, b, value).val)
    BY <2>2, <2>3, SingleSubscripted
  <2> QED BY <1>2, <1>6, <2>2, <2>3, <2>4 DEF Selector
<1>7. CASE ~single /\ Len(args) >= 2
  <2>1. r = sub
    BY ONLY <1>2, <1>4, <1>7 DEF WriteSubscript
  <2> QED BY <1>2, <1>3, <1>5, <1>7, <2>1 DEF Selector
<1>8. CASE ~single /\ Len(args) = 1
  <2>1. r = IF a.kind # "Missing" /\ ~IsMatrixSubscript(v, a) THEN Ok(a)
            ELSE IF p.err # "" THEN p ELSE Ok(PositionVector(p.val))
    BY ONLY <1>1, <1>2, <1>4, <1>8 DEF WriteSubscript
  <2>2. CASE a.kind # "Missing" /\ ~IsMatrixSubscript(v, a)
    <3>1. r.val = a
      BY <2>1, <2>2, Outcomes
    <3> QED BY <1>2, <1>4, <1>8, <2>2, <3>1 DEF Selector
  <2>3. CASE ~(a.kind # "Missing" /\ ~IsMatrixSubscript(v, a))
    <3>1. p.err = "" /\ r = Ok(PositionVector(p.val))
      BY <1>3, <2>1, <2>3
    <3>2. p.val \in Seq(0..Len(v.data))
      BY <1>2, <1>4, <3>1, PositionsAreThere
    <3>3. PICK pos : pos = p.val /\ pos \in Seq(Nat)
      <4>1. PICK m : m = Len(v.data)
        OBVIOUS
      <4>2. p.val \in Seq(0..m)
        BY <3>2, <4>1
      <4>3. 0..m \subseteq Nat
        BY CountsAreNumbers
      <4>4. PICK cells, E : cells = p.val /\ E = 0..m
        OBVIOUS
      <4>5. cells \in Seq(Nat)
        BY <4>2, <4>3, <4>4, Widened
      <4> QED BY <4>4, <4>5
    <3>4. Subscript(PositionVector(pos)) /\ PositionVector(pos).kind = "Int"
      BY <3>3, PositionsAreASubscript
    <3>5. r.val = PositionVector(pos)
      BY <3>1, <3>3, Outcomes
    <3> QED BY <1>2, <1>8, <3>4, <3>5 DEF Selector
  <2> QED BY <2>2, <2>3
<1> QED BY <1>4, <1>6, <1>7, <1>8

\* What is planned for a write of a value into a vector.
Well(v, value, single, p) ==
    /\ PlanFor(v, p.plan) /\ Deep(p.value)
    /\ p.value.kind = "Null" => value.kind = "Null"
    /\ p.value = value \/ v.kind = "List"
    /\ p.keep => ~single /\ v.kind = "Null"
    /\ ~p.keep => Writable(v, p.plan, p.value, single)

\* A value that can be planned for is.
ToPlan(v, a, value, single) ==
    Deep(v) /\ Subscript(a) /\ a.kind # "Missing" /\ Deep(value) /\ Plan(v, a, value, single).err = ""
WellPlanned(v, value, single, p) == Well(v, value, single, p) /\ p.value = value
LEMMA PlanMade ==
    ASSUME NEW v, NEW a, NEW value, NEW single, ToPlan(v, a, value, single)
    PROVE  WellPlanned(v, value, single, Plan(v, a, value, single).val)
<1>1. Deep(v) /\ Subscript(a) /\ a.kind # "Missing" /\ Deep(value) /\ Plan(v, a, value, single).err = ""
  BY DEF ToPlan
<1>2. PICK r, plan, empty : /\ r = Plan(v, a, value, single) /\ plan = WritePositions(v, a, value)
                            /\ empty = EmptyValue(v, plan, value, single)
  OBVIOUS
<1>3. r = IF plan.err # "" THEN Err(plan.err) ELSE IF empty = "empty" THEN Err("empty")
          ELSE Ok([plan |-> plan, value |-> value, keep |-> empty = "keep"])
  BY ONLY <1>2 DEF Plan, Planned
<1>4. Err("empty").err # "" /\ (plan.err # "" => Err(plan.err).err # "")
  BY DEF Err
<1>5. plan.err = "" /\ empty # "empty" /\ r = Ok([plan |-> plan, value |-> value, keep |-> empty = "keep"])
  BY <1>1, <1>2, <1>3, <1>4
<1>6. r.val.plan = plan /\ r.val.value = value /\ (r.val.keep <=> empty = "keep")
  <2>1. PICK k : k = (empty = "keep")
    OBVIOUS
  <2>2. r.val = [plan |-> plan, value |-> value, keep |-> k]
    BY <1>5, <2>1, Outcomes
  <2>3. r.val.plan = plan /\ r.val.value = value /\ r.val.keep = k
    BY ONLY <2>2
  <2> QED BY <2>1, <2>3
<1>7. PlanFor(v, plan) /\ Len(plan.pos) \in Nat /\ plan.na \in Nat
  BY <1>1, <1>2, <1>5, PositionsPlanned DEF Plans
<1>8. empty = IF Selected(plan) = 0 \/ value.data # <<>> THEN "write"
              ELSE IF ~single /\ v.kind = "Null" THEN "keep"
              ELSE IF (~single /\ v.kind = "List" /\ value.kind = "Null") \/ (single /\ v.kind \in {"List", "Null"})
              THEN "write" ELSE "empty"
  BY ONLY <1>2 DEF EmptyValue
<1>9. empty = "keep" => ~single /\ v.kind = "Null"
  BY <1>8
<1>10. empty # "keep" => Writable(v, plan, value, single)
  <2>1. ASSUME empty # "keep", value.kind # "Null", ~single, value.data = <<>> PROVE plan.pos = <<>>
    <3>1. Selected(plan) = 0
      BY <1>5, <1>8, <2>1
    <3>2. PICK m \in Nat, n \in Nat : m = Len(plan.pos) /\ n = plan.na
      BY <1>7
    <3>3. m + n = 0
      BY <3>1, <3>2 DEF Selected
    <3>4. m = 0
      BY ONLY <3>3, m \in Nat, n \in Nat
    <3>5. PICK s : s = plan.pos /\ s \in Seq(Nat \ {0}) /\ Len(s) = 0
      BY <1>7, <3>2, <3>4 DEF PlanFor
    <3>6. s = <<>>
      BY ONLY <3>5
    <3> QED BY <3>5, <3>6
  <2> QED BY <1>7, <2>1 DEF Writable
<1> QED BY <1>1, <1>2, <1>6, <1>7, <1>9, <1>10 DEF Well, WellPlanned

\* A write several lists deep is one of the updated inner vector.
LEMMA InnerMade ==
    ASSUME NEW v, Deep(v), NEW a, Subscript(a), a.kind # "Missing", Len(a.data) > 1, NEW value, Deep(value),
           Inner(v, a, value).err = ""
    PROVE  LET r == Inner(v, a, value).val
           IN  Subscript(r.idx) /\ r.idx.kind # "Missing" /\ Deep(r.value) /\ r.value.kind # "Null"
<1>1. PICK r, s, n : r = Inner(v, a, value) /\ s = a.data /\ n = Len(s)
  OBVIOUS
<1>2. n \in Nat /\ n > 1 /\ s \in Seq(ToSet(s)) /\ s = [i \in 1..n |-> s[i]]
  <2>1. n \in Nat /\ n > 1 /\ s \in Seq(ToSet(s))
    BY <1>1, SubscriptParts
  <2>2. s = [i \in 1..n |-> s[i]]
    BY ONLY <1>1, <2>1
  <2> QED BY <2>1, <2>2
<1>3. PICK first, rest : first = V(a.kind, <<Head(s)>>) /\ rest = V(a.kind, Tail(s))
  OBVIOUS
<1>4. Subscript(first) /\ first.kind = a.kind
  <2>1. PICK d, c : d = <<Head(s)>> /\ c = 1
    OBVIOUS
  <2>2. Head(s) = s[1] /\ 1 \in 1..n
    BY ONLY <1>1, <1>2
  <2>3. c \in Nat \ {0} /\ d = [i \in 1..c |-> d[i]] /\ \A i \in 1..c : d[i] = s[1]
    BY ONLY <2>1, <2>2
  <2>4. \A i \in 1..c : \E j \in 1..n : d[i] = s[j]
    BY <2>2, <2>3
  <2>5. Subscript(V(a.kind, d)) /\ V(a.kind, d).kind = a.kind
    <3>1. SomeOf(a, c, d)
      BY <1>1, <2>3, <2>4 DEF SomeOf
    <3> QED BY <3>1, PartOfSubscript
  <2> QED BY <1>3, <2>1, <2>5
<1>5. Subscript(rest) /\ rest.kind = a.kind
  <2>1. PICK d, c : d = Tail(s) /\ c = n - 1
    OBVIOUS
  <2>2. c \in Nat \ {0}
    BY ONLY <1>2, <2>1
  <2>3. d = [i \in 1..c |-> d[i]] /\ \A i \in 1..c : d[i] = s[i + 1] /\ i + 1 \in 1..n
    BY ONLY <1>1, <1>2, <2>1, <2>2
  <2>4. \A i \in 1..c : \E j \in 1..n : d[i] = s[j]
    BY <2>3
  <2>5. Subscript(V(a.kind, d)) /\ V(a.kind, d).kind = a.kind
    <3>1. SomeOf(a, c, d)
      BY <1>1, <2>2, <2>3, <2>4 DEF SomeOf
    <3> QED BY <3>1, PartOfSubscript
  <2> QED BY <1>3, <2>1, <2>5
<1>6. PICK inner : inner = IndexDouble(v, <<first>>)
  OBVIOUS
<1>7. PICK sub : sub = SingleSubscript(inner.val, rest, value)
  OBVIOUS
<1>8. PICK p : p = Plan(inner.val, sub.val, value, TRUE)
  OBVIOUS
<1>9. PICK updated, top : /\ updated = Rebuild(inner.val, p.val.plan, value, TRUE)
                          /\ top = SingleSubscript(v, first, updated)
  OBVIOUS
<1>10. r = IF inner.err # "" THEN inner
           ELSE IF sub.err # "" THEN sub
           ELSE IF p.err # "" THEN p
           ELSE IF top.err # "" THEN top ELSE Ok([idx |-> top.val, value |-> updated])
  BY ONLY <1>1, <1>3, <1>6, <1>7, <1>8, <1>9 DEF Inner
<1>11. inner.err = "" /\ sub.err = "" /\ p.err = "" /\ top.err = "" /\ r = Ok([idx |-> top.val, value |-> updated])
  BY <1>1, <1>10
<1>12. Deep(inner.val)
  <2>1. Arguments(<<first>>)
    <3>1. PICK args, E : args = <<first>> /\ E = ToSet(args)
      OBVIOUS
    <3>2. args = [i \in 1..1 |-> args[i]] /\ DOMAIN args = 1..1 /\ (\A i \in 1..1 : args[i] = first) /\ args # <<>>
      BY ONLY <3>1
    <3>3. \A e \in E : e = first
      BY <3>1, <3>2 DEF ToSet
    <3>4. \A i \in 1..1 : args[i] \in E
      BY <3>1, <3>2 DEF ToSet
    <3>5. args \in Seq(E)
      BY ONLY <3>2, <3>4
    <3> QED BY <1>4, <3>1, <3>2, <3>3, <3>5 DEF Arguments
  <2> QED BY <1>6, <1>11, <2>1, DoubleRead
<1>13. Selector(inner.val, value, TRUE, sub.val)
  BY <1>5, <1>7, <1>11, <1>12, SingleSubscripted
<1>14. Well(inner.val, value, TRUE, p.val) /\ p.val.value = value
  <2>1. PICK w, t, one : w = inner.val /\ t = sub.val /\ one = TRUE
    OBVIOUS
  <2>2. ToPlan(w, t, value, one)
    BY <1>8, <1>11, <1>12, <1>13, <2>1 DEF Selector, ToPlan
  <2>3. WellPlanned(w, value, one, Plan(w, t, value, one).val)
    BY ONLY <2>2, PlanMade
  <2> QED BY <1>8, <2>1, <2>3 DEF WellPlanned
<1>15. Writable(inner.val, p.val.plan, value, TRUE)
  BY <1>14 DEF Well
<1>16. Deep(updated) /\ updated.kind # "Null"
  <2>1. PICK w, plan : w = inner.val /\ plan = p.val.plan
    OBVIOUS
  <2>2. Deep(w) /\ Writable(w, plan, value, TRUE)
    BY <1>12, <1>15, <2>1
  <2>3. Deep(Rebuild(w, plan, value, TRUE)) /\ Rebuild(w, plan, value, TRUE).kind # "Null"
    BY <2>2, RebuildIsDeep
  <2> QED BY <1>9, <2>1, <2>3
<1>17. Selector(v, updated, TRUE, top.val)
  BY <1>4, <1>9, <1>11, SingleSubscripted
<1>18. r.val.idx = top.val /\ r.val.value = updated
  <2>1. PICK q, t : q = r.val /\ t = top.val
    OBVIOUS
  <2>2. q = [idx |-> t, value |-> updated]
    BY <1>11, <2>1, Outcomes
  <2>3. q.idx = t /\ q.value = updated
    BY ONLY <2>2
  <2> QED BY <2>1, <2>3
<1> QED BY <1>1, <1>16, <1>17, <1>18 DEF Selector

\* What assign_index has prepared when it decides to warn or to write.
LEMMA PreparedMade ==
    ASSUME NEW v, Deep(v), NEW args, Arguments(args), NEW value, Deep(value), NEW single,
           Prepared(v, args, value, single).err = ""
    PROVE  /\ Well(v, value, single, Prepared(v, args, value, single).val)
           /\ single => v.kind \in {"List", "Null"} \/ Len(value.data) = 1
<1>1. PICK r, sub : r = Prepared(v, args, value, single) /\ sub = WriteSubscript(v, args, value, single)
  OBVIOUS
<1>2. PICK s, inner : s = sub.val /\ inner = Inner(v, s, value)
  OBVIOUS
<1>3. PICK deeper : deeper = (single /\ Len(s.data) > 1)
  OBVIOUS
<1>4. PICK here, there : /\ here = Plan(v, s, value, single)
                         /\ there = Plan(v, inner.val.idx, inner.val.value, single)
  OBVIOUS
<1>5. r = IF sub.err # "" THEN sub
          ELSE IF deeper THEN IF inner.err # "" THEN inner ELSE there
          ELSE here
  <2>1. CASE deeper
    <3>1. Prepared(v, args, value, single) =
            IF sub.err # "" THEN sub ELSE IF inner.err # "" THEN inner ELSE there
      BY ONLY <1>1, <1>2, <1>3, <1>4, <2>1 DEF Prepared
    <3> QED BY <1>1, <2>1, <3>1
  <2>2. CASE ~deeper
    <3>1. PICK o : o = Ok([idx |-> s, value |-> value])
      OBVIOUS
    <3>2. Prepared(v, args, value, single) =
            IF sub.err # "" THEN sub ELSE IF o.err # "" THEN o ELSE Plan(v, o.val.idx, o.val.value, single)
      BY ONLY <1>1, <1>2, <1>3, <2>2, <3>1 DEF Prepared
    <3>3. o.err = "" /\ o.val.idx = s /\ o.val.value = value
      <4>1. o.err = "" /\ o.val = [idx |-> s, value |-> value]
        BY <3>1, Outcomes
      <4>2. PICK q : q = o.val
        OBVIOUS
      <4>3. q = [idx |-> s, value |-> value]
        BY <4>1, <4>2
      <4>4. q.idx = s /\ q.value = value
        BY ONLY <4>3
      <4> QED BY <4>1, <4>2, <4>4
    <3> QED BY <1>1, <1>4, <2>2, <3>2, <3>3
  <2> QED BY <2>1, <2>2
<1>6. sub.err = ""
  BY <1>1, <1>5
<1>7. Selector(v, value, single, s)
  BY <1>1, <1>2, <1>6, WriteSubscripted
<1>8. single => v.kind \in {"List", "Null"} \/ Len(value.data) = 1
  BY <1>7 DEF Selector
<1>9. CASE deeper
  <2>1. inner.err = "" /\ r = there /\ there.err = ""
    BY <1>1, <1>5, <1>6, <1>9
  <2>2. v.kind = "List" /\ Subscript(s) /\ s.kind # "Missing" /\ Len(s.data) > 1
    BY <1>3, <1>7, <1>9 DEF Selector
  <2>3. PICK idx, updated : idx = inner.val.idx /\ updated = inner.val.value
    OBVIOUS
  <2>4. Subscript(idx) /\ idx.kind # "Missing" /\ Deep(updated) /\ updated.kind # "Null"
    <3>1. Inner(v, s, value).err = ""
      BY <1>2, <2>1
    <3>2. LET q == Inner(v, s, value).val
          IN  Subscript(q.idx) /\ q.idx.kind # "Missing" /\ Deep(q.value) /\ q.value.kind # "Null"
      BY <2>2, <3>1, InnerMade
    <3> QED BY <1>2, <2>3, <3>2
  <2>5. there = Plan(v, idx, updated, single)
    BY <1>4, <2>3
  <2>6. ToPlan(v, idx, updated, single)
    BY <2>1, <2>4, <2>5 DEF ToPlan
  <2>7. WellPlanned(v, updated, single, Plan(v, idx, updated, single).val)
    BY ONLY <2>6, PlanMade
  <2>8. Well(v, updated, single, r.val) /\ r.val.value = updated
    BY <2>1, <2>5, <2>7 DEF WellPlanned
  <2>9. Well(v, value, single, r.val)
    BY <2>2, <2>4, <2>8 DEF Well
  <2> QED BY <1>1, <1>8, <2>9
<1>10. CASE ~deeper
  <2>1. r = here /\ Plan(v, s, value, single).err = ""
    BY <1>1, <1>4, <1>5, <1>6, <1>10
  <2>2. Subscript(s) /\ s.kind # "Missing"
    BY <1>7 DEF Selector
  <2>3. ToPlan(v, s, value, single)
    BY <2>1, <2>2 DEF ToPlan
  <2>4. WellPlanned(v, value, single, Plan(v, s, value, single).val)
    BY ONLY <2>3, PlanMade
  <2> QED BY <1>1, <1>4, <1>8, <2>1, <2>4 DEF WellPlanned
<1> QED BY <1>9, <1>10

-----------------------------------------------------------------------------
(* What a write leaves *)

\* The target of a write.
LEMMA GoalIsDeep ==
    ASSUME NEW v, Deep(v), NEW w
    PROVE  Deep(Goal(v, w)) /\ Goal(v, w).levels = <<>>
<1>1. CASE w.single /\ v.kind = "Null" /\ w.value.kind # "Null"
  <2>1. Goal(v, w) = List(<<>>)
    BY <1>1 DEF Goal
  <2>2. List(<<>>) = Rec("List", <<>>, <<>>, <<>>, <<>>, <<>>)
    <3>1. PICK z : z = <<>>
      OBVIOUS
    <3>2. [i \in DOMAIN z |-> Box(z[i])] = z
      BY ONLY <3>1
    <3> QED BY <3>1, <3>2 DEF List, V, Rec
  <2>3. Shaped("List", 0, <<>>, <<>>, <<>>, <<>>, <<>>)
    <3>1. PICK z : z = <<>>
      OBVIOUS
    <3>2. z = [i \in 1..0 |-> z[i]] /\ Len(z) = 0 /\ \A i \in 1..0 : FALSE
      BY ONLY <3>1
    <3>3. z \in Seq(STRING) /\ z \in Seq(Nat) /\ z \in Seq(Seq(STRING))
      BY <3>1, EmptySeq
    <3>4. "List" \in Kinds \ {"Null"}
      BY DEF Kinds
    <3>5. Shaped("List", 0, z, z, z, z, z)
      BY <3>1, <3>2, <3>3, <3>4 DEF Shaped
    <3> QED BY <3>1, <3>5
  <2>4. Deep(List(<<>>))
    BY <2>2, <2>3, DeepMade
  <2>5. List(<<>>).levels = <<>>
    BY <2>2, RecAt
  <2> QED BY <2>1, <2>4, <2>5
<1>2. CASE ~(w.single /\ v.kind = "Null" /\ w.value.kind # "Null")
  <2>1. Goal(v, w) = Levelled(v, <<>>)
    BY <1>2 DEF Goal, Levelled
  <2>2. CASE v.kind = "Null"
    <3>1. v = NULL
      BY <2>2, NullIs
    <3>2. NULL = Rec("Null", <<>>, <<>>, <<>>, <<>>, <<>>)
      BY DEF NULL, V, Rec
    <3>3. Levelled(v, <<>>) = NULL
      BY <3>1, <3>2, RecWith
    <3>4. NULL.levels = <<>>
      BY <3>2, RecAt
    <3> QED BY <2>1, <3>3, <3>4, DeepNull
  <2>3. CASE v.kind # "Null"
    <3>1. PICK k, d, n, m, a, l, c : v = Rec(k, d, n, m, a, l) /\ Shaped(k, c, d, n, m, a, l)
      <4>1. /\ v = Rec(v.kind, v.data, v.names, v.dim, v.dimnames, v.levels)
            /\ Shaped(v.kind, Len(v.data), v.data, v.names, v.dim, v.dimnames, v.levels)
        BY <2>3, DeepParts
      <4> QED BY <4>1
    <3>2. Shaped(k, c, d, n, m, a, <<>>)
      BY <3>1, EmptySeq DEF Shaped
    <3>3. Levelled(v, <<>>) = Rec(k, d, n, m, a, <<>>)
      BY <3>1, RecWith
    <3>4. Deep(Rec(k, d, n, m, a, <<>>)) /\ Rec(k, d, n, m, a, <<>>).levels = <<>>
      BY <3>2, DeepMade, RecAt
    <3> QED BY <2>1, <3>3, <3>4
  <2> QED BY <2>2, <2>3
<1> QED BY <1>1, <1>2

\* Elements that are codes of labels.
Coded(d, n, l) == \A i \in 1..n : d[i] = NA \/ d[i][2] \in 1..Len(l)

LEMMA FactorCodesMade ==
    ASSUME NEW v, Deep(v), NEW value, Deep(value)
    PROVE  LET codes == FactorCodes(v, value)
           IN  /\ Deep(codes) /\ codes.kind = "Int" /\ Len(codes.data) = Len(value.data)
               /\ Coded(codes.data, Len(codes.data), v.levels)
<1>1. PICK l, n, pos : /\ l = v.levels /\ n = Len(value.data)
                       /\ pos = [i \in DOMAIN value.data |-> NameAt(v.levels, Coerce(value.data[i], 4))]
  OBVIOUS
<1>2. l \in Seq(STRING)
  <2>1. Formed(v)
    BY Opens DEF Whole
  <2> QED BY <1>1, <2>1 DEF Formed
<1>3. n \in Nat /\ DOMAIN value.data = 1..n
  BY <1>1, NamesParts
<1>4. pos = [i \in 1..n |-> pos[i]] /\ \A i \in 1..n : pos[i] \in 0..Len(l)
  <2>1. \A i \in 1..n : pos[i] = NameAt(l, Coerce(value.data[i], 4))
    BY <1>1, <1>3
  <2>2. \A e : NameAt(l, e) \in 0..Len(l)
    BY <1>2, Finds
  <2> QED BY <1>1, <1>3, <2>1, <2>2
<1>5. pos \in Seq(Nat) /\ Len(pos) = n
  <2>1. \A i \in 1..n : pos[i] \in Nat
    BY <1>4, CountsAreNumbers
  <2> QED BY <1>3, <1>4, <2>1, Listed
<1>6. PICK codes : codes = FactorCodes(v, value) /\ codes = PositionVector(pos)
  BY <1>1 DEF FactorCodes
<1>7. /\ Deep(codes) /\ codes.kind = "Int" /\ Len(codes.data) = n
      /\ \A i \in 1..n : codes.data[i] = IF pos[i] = 0 THEN NA ELSE <<"int", pos[i]>>
  BY <1>5, <1>6, PositionsAreASubscript
<1>8. Coded(codes.data, n, l)
  <2> SUFFICES ASSUME NEW i \in 1..n PROVE codes.data[i] = NA \/ codes.data[i][2] \in 1..Len(l)
    BY DEF Coded
  <2>1. PICK p, e, m : p = pos[i] /\ e = codes.data[i] /\ m = Len(l)
    OBVIOUS
  <2>2. p \in 0..m /\ e = IF p = 0 THEN NA ELSE <<"int", p>>
    BY <1>4, <1>7, <2>1
  <2>3. e = NA \/ (e = <<"int", p>> /\ p \in 1..m)
    BY ONLY <2>2
  <2>4. e = NA \/ e[2] \in 1..m
    BY ONLY <2>3
  <2> QED BY <2>1, <2>4
<1> QED BY <1>1, <1>6, <1>7, <1>8

\* Codes written among codes are codes: the labels stay right.
LEMMA FactorWritten ==
    ASSUME NEW v, Deep(v), v.kind = "Int", NEW plan, PlanFor(v, plan), NEW value, Deep(value), value.kind = "Int",
           NEW l, l \in Seq(STRING), Coded(v.data, Len(v.data), l), Coded(value.data, Len(value.data), l)
    PROVE  Deep(Levelled(WriteAtomic(v, plan, value), l))
<1>1. Rank(v) = 2 /\ Rank(value) = 2
  BY DEF Rank
<1>2. Max({Rank(v), Rank(value)}) = 2
  BY <1>1, MaxOfTwo
<1>3. KindOfRank(2) = "Int"
  BY DEF KindOfRank
<1>4. PICK c, d, n, m, a : /\ WriteAtomic(v, plan, value) = Rec("Int", d, n, m, a, <<>>)
                           /\ Shaped("Int", c, d, n, m, a, <<>>)
                           /\ \A i \in 1..c : From(v, value, 2, d[i])
  <2>1. LET rank == Max({Rank(v), Rank(value)})
            kind == IF rank = 0 THEN "Dbl" ELSE KindOfRank(rank)
        IN  \E c, d, n, m, a : /\ WriteAtomic(v, plan, value) = Rec(kind, d, n, m, a, <<>>)
                               /\ Shaped(kind, c, d, n, m, a, <<>>)
                               /\ \A i \in 1..c : From(v, value, rank, d[i])
    BY AtomicMade
  <2>2. PICK rank, kind : rank = Max({Rank(v), Rank(value)}) /\ kind = IF rank = 0 THEN "Dbl" ELSE KindOfRank(rank)
    OBVIOUS
  <2>3. PICK c, d, n, m, a : /\ WriteAtomic(v, plan, value) = Rec(kind, d, n, m, a, <<>>)
                             /\ Shaped(kind, c, d, n, m, a, <<>>)
                             /\ \A i \in 1..c : From(v, value, rank, d[i])
    BY <2>1, <2>2
  <2>4. rank = 2 /\ kind = "Int"
    BY <1>2, <1>3, <2>2
  <2> QED BY ONLY <2>3, <2>4
<1>5. ASSUME NEW w, Deep(w), w.kind = "Int", Coded(w.data, Len(w.data), l), NEW j \in 1..Len(w.data)
      PROVE  Coerce(w.data[j], 2) = NA \/ Coerce(w.data[j], 2)[2] \in 1..Len(l)
  <2>1. Formed(w) /\ Atomic(w) /\ Rank(w) = 2
    BY <1>5, Opens DEF Whole, Atomic, Rank
  <2>2. Coerce(w.data[j], 2) = w.data[j]
    BY <1>5, <2>1, OfItsType
  <2> QED BY <1>5, <2>2 DEF Coded
<1>6. \A i \in 1..c : d[i] = NA \/ d[i][2] \in 1..Len(l)
  BY <1>4, <1>5 DEF From
<1>7. Shaped("Int", c, d, n, m, a, l)
  BY <1>4, <1>6 DEF Shaped
<1>8. Levelled(WriteAtomic(v, plan, value), l) = Rec("Int", d, n, m, a, l)
  BY <1>4, RecWith
<1> QED BY <1>7, <1>8, DeepMade

LEMMA GoalHas ==
    ASSUME NEW v, Deep(v), NEW w
    PROVE  /\ Len(Goal(v, w).data) = Len(v.data)
           /\ v.kind # "Null" => Goal(v, w).kind = v.kind /\ Goal(v, w).data = v.data
<1>1. CASE v.kind = "Null"
  <2>1. v = NULL
    BY <1>1, NullIs
  <2>2. v = Rec("Null", <<>>, <<>>, <<>>, <<>>, <<>>)
    BY <2>1 DEF NULL, V, Rec
  <2>3. v.data = <<>> /\ Levelled(v, <<>>).data = <<>>
    BY <2>2, RecWith, RecAt
  <2>4. List(<<>>).data = <<>>
    <3>1. PICK z : z = <<>>
      OBVIOUS
    <3>2. [i \in DOMAIN z |-> Box(z[i])] = z
      BY ONLY <3>1
    <3>3. List(z) = Rec("List", z, <<>>, <<>>, <<>>, <<>>)
      BY <3>2 DEF List, V, Rec
    <3> QED BY <3>1, <3>3, RecAt
  <2>5. Goal(v, w) = List(<<>>) \/ Goal(v, w) = Levelled(v, <<>>)
    BY DEF Goal, Levelled
  <2>6. Goal(v, w).data = <<>>
    BY <2>3, <2>4, <2>5
  <2> QED BY <1>1, <2>3, <2>6
<1>2. CASE v.kind # "Null"
  <2>1. PICK k, d, n, m, a, l : v = Rec(k, d, n, m, a, l)
    <3>1. v = Rec(v.kind, v.data, v.names, v.dim, v.dimnames, v.levels)
      BY <1>2, DeepParts
    <3> QED BY <3>1
  <2>2. Goal(v, w) = Levelled(v, <<>>)
    BY <1>2 DEF Goal, Levelled
  <2>3. Goal(v, w) = Rec(k, d, n, m, a, <<>>)
    BY <2>1, <2>2, RecWith
  <2>4. Goal(v, w).kind = v.kind /\ Goal(v, w).data = v.data
    BY <2>1, <2>3, RecAt
  <2> QED BY <2>4
<1> QED BY <1>1, <1>2

\* The value that is written: a factor's codes.
Sourced(v, w) == IF IsFactor(v) THEN FactorCodes(v, w.value) ELSE w.value

\* What is prepared of a write to v.
Ready(v, p, w) ==
    /\ PlanFor(v, p.plan) /\ Deep(p.value)
    /\ p.value.kind = "Null" => w.value.kind = "Null"
    /\ p.keep => v.kind = "Null"
    /\ ~p.keep => Writable(Goal(v, w), p.plan, p.value, w.single)
    /\ IsFactor(v) => /\ p.value.kind = "Int" /\ ~p.keep /\ ~WritesList(Goal(v, w), p.value, w.single)
                      /\ Coded(p.value.data, Len(p.value.data), v.levels)

\* What a program is given.
LEMMA ValuesAreDeep ==
    ASSUME NEW v \in Values
    PROVE  Deep(v)
BY InputsAssumption DEF Deep, Nested

LEMMA FactorsAreCodes ==
    ASSUME NEW v, Deep(v), IsFactor(v)
    PROVE  v.kind = "Int" /\ v.levels \in Seq(STRING) /\ Coded(v.data, Len(v.data), v.levels)
<1>1. v.kind = "Int"
  BY Opens DEF Whole
<1>2. Shaped(v.kind, Len(v.data), v.data, v.names, v.dim, v.dimnames, v.levels)
  BY <1>1, DeepParts
<1> QED BY <1>1, <1>2 DEF Shaped, IsFactor, Coded

\* What assign_index prepares is ready.
LEMMA ReadyMade ==
    ASSUME NEW v, Deep(v), NEW w \in Writes,
           Prepared(Goal(v, w), w.args, Sourced(v, w), w.single).err = ""
    PROVE  Ready(v, Prepared(Goal(v, w), w.args, Sourced(v, w), w.single).val, w)
<1>1. PICK g, source, args, single : g = Goal(v, w) /\ source = Sourced(v, w) /\ args = w.args /\ single = w.single
  OBVIOUS
<1>2. Arguments(args) /\ Deep(w.value)
  BY <1>1, InputsAssumption, ValuesAreDeep
<1>3. Deep(g) /\ Len(g.data) = Len(v.data)
  BY <1>1, GoalIsDeep, GoalHas
<1>4. /\ Deep(FactorCodes(v, w.value)) /\ FactorCodes(v, w.value).kind = "Int"
      /\ Len(FactorCodes(v, w.value).data) = Len(w.value.data)
      /\ Coded(FactorCodes(v, w.value).data, Len(FactorCodes(v, w.value).data), v.levels)
  BY <1>2, FactorCodesMade
<1>5. Deep(source) /\ (source.kind = "Null" => w.value.kind = "Null")
  BY <1>1, <1>2, <1>4 DEF Sourced
<1>6. PICK p : p = Prepared(g, args, source, single).val
  OBVIOUS
<1>7. /\ Well(g, source, single, p)
      /\ single => g.kind \in {"List", "Null"} \/ Len(source.data) = 1
  BY <1>1, <1>2, <1>3, <1>5, <1>6, PreparedMade
<1>8. PlanFor(v, p.plan)
  BY <1>3, <1>7 DEF Well, PlanFor
<1>9. ASSUME IsFactor(v)
      PROVE  p.value.kind = "Int" /\ ~p.keep /\ ~WritesList(g, p.value, single)
             /\ Coded(p.value.data, Len(p.value.data), v.levels)
  <2>1. v.kind = "Int"
    BY <1>9, FactorsAreCodes
  <2>2. g.kind = "Int"
    BY <1>1, <2>1, GoalHas
  <2>3. p.value = source /\ ~p.keep
    BY <1>7, <2>2 DEF Well
  <2>4. source = FactorCodes(v, w.value)
    BY <1>1, <1>9 DEF Sourced
  <2>5. single => Len(p.value.data) = 1
    BY <1>7, <2>2, <2>3
  <2>6. p.value.kind = "Int" /\ Coded(p.value.data, Len(p.value.data), v.levels)
    BY <1>4, <2>3, <2>4
  <2>7. single => ~(Len(p.value.data) > 1)
    <3>1. PICK m : m = Len(p.value.data)
      OBVIOUS
    <3>2. single => m = 1
      BY <2>5, <3>1
    <3>3. single => ~(m > 1)
      BY ONLY <3>2
    <3> QED BY <3>1, <3>3
  <2>8. ~WritesList(g, p.value, single)
    BY <2>2, <2>6, <2>7 DEF WritesList
  <2> QED BY <2>3, <2>6, <2>8
<1>10. p.keep => v.kind = "Null"
  BY <1>1, <1>7, GoalHas DEF Well
<1>11. Ready(v, p, w)
  BY <1>1, <1>5, <1>7, <1>8, <1>9, <1>10 DEF Ready, Well
<1> QED BY <1>1, <1>6, <1>11

\* A write leaves a well-formed vector.
LEMMA ResultIsDeep ==
    ASSUME NEW v, Deep(v), NEW p, NEW w, Ready(v, p, w), NEW inplace,
           inplace => ~p.keep /\ FitsInPlace(Goal(v, w), p.plan, p.value, w.single)
    PROVE  Deep(Result(v, p, w, inplace))
<1>1. PICK g, single, plan, value : g = Goal(v, w) /\ single = w.single /\ plan = p.plan /\ value = p.value
  OBVIOUS
<1>2. Deep(g) /\ g.levels = <<>>
  BY <1>1, GoalIsDeep
<1>3. Deep(value) /\ PlanFor(v, plan) /\ (~p.keep => Writable(g, plan, value, single))
  BY <1>1 DEF Ready
<1>4. CASE p.keep
  BY <1>1, <1>2, <1>4 DEF Result
<1>5. CASE ~p.keep /\ inplace
  <2>1. Result(v, p, w, inplace) = WriteInPlace(g, plan, value)
    BY <1>1, <1>5 DEF Result
  <2>2. FitsInPlace(g, plan, value, single)
    BY <1>1, <1>5
  <2>3. Deep(WriteInPlace(g, plan, value))
    BY <1>2, <1>3, <1>5, <2>2, InPlaceMade
  <2> QED BY <2>1, <2>3
<1>6. CASE ~p.keep /\ ~inplace
  <2>1. Result(v, p, w, inplace) = Levelled(Rebuild(g, plan, value, single), v.levels)
    BY <1>1, <1>6 DEF Result, Levelled
  <2>2. CASE IsFactor(v)
    <3>1. Rebuild(g, plan, value, single) = WriteAtomic(g, plan, value)
      BY <1>1, <1>6, <2>2 DEF Ready, Rebuild
    <3>2. v.kind = "Int" /\ v.levels \in Seq(STRING) /\ Coded(v.data, Len(v.data), v.levels)
      BY <2>2, FactorsAreCodes
    <3>3. g.kind = "Int" /\ g.data = v.data
      BY <1>1, <3>2, GoalHas
    <3>4. PICK l : l = v.levels
      OBVIOUS
    <3>5. Coded(g.data, Len(g.data), l) /\ l \in Seq(STRING)
      BY <3>2, <3>3, <3>4
    <3>6. value.kind = "Int" /\ Coded(value.data, Len(value.data), l)
      BY <1>1, <2>2, <3>4 DEF Ready
    <3>7. PlanFor(g, plan)
      BY <1>3, <1>6 DEF Writable
    <3>8. Deep(Levelled(WriteAtomic(g, plan, value), l))
      BY <1>2, <1>3, <3>3, <3>5, <3>6, <3>7, FactorWritten
    <3> QED BY <2>1, <3>1, <3>4, <3>8
  <2>3. CASE ~IsFactor(v)
    <3>1. v.levels = <<>>
      BY <2>3 DEF IsFactor
    <3>2. PICK k, c, d, n, m, a : /\ Rebuild(g, plan, value, single) = Rec(k, d, n, m, a, <<>>)
                                  /\ Shaped(k, c, d, n, m, a, <<>>)
      BY <1>2, <1>3, <1>6, RebuildMade
    <3>3. Levelled(Rebuild(g, plan, value, single), <<>>) = Rec(k, d, n, m, a, <<>>)
      BY <3>2, RecWith
    <3> QED BY <2>1, <3>1, <3>2, <3>3, DeepMade
  <2> QED BY <2>2, <2>3
<1> QED BY <1>4, <1>5, <1>6

\* What the program holds, wrote last and is about to write is well-formed, however
\* deep its lists.
Filled(l) ==
    /\ Deep(l.before) /\ Deep(l.p.value) /\ PlanFor(l.before, l.p.plan)
    /\ l.p.value.kind = "Null" => l.w.value.kind = "Null"
    /\ l.p.keep => l.before.kind = "Null"
Holds ==
    /\ Deep(x) /\ Deep(held)
    /\ pend.on => Ready(x, pend.p, pend.w)
    /\ last.done => Filled(last)

LEMMA PerformHolds ==
    ASSUME NEW p, NEW w, NEW unshared, NEW taken, Deep(x), Deep(held), Ready(x, p, w), Perform(p, w, unshared, taken)
    PROVE  Holds'
<1> DEFINE fits == FitsInPlace(Goal(x, w), p.plan, p.value, w.single)
           inplace == unshared /\ ~p.keep /\ fits
<1>1. Target(w) = Goal(x, w)
  BY DEF Target, Goal
<1>2. /\ x' = Written(p, w, inplace)
      /\ held' = IF same /\ inplace THEN x' ELSE held
      /\ last' = [done |-> TRUE, w |-> w, before |-> x, p |-> p, inplace |-> inplace,
                  taken |-> taken, held |-> held]
      /\ pend' = Idle
  BY <1>1 DEF Perform
<1>3. x' = Result(x, p, w, inplace)
  BY <1>1, <1>2 DEF Written, Result
<1>4. inplace => ~p.keep /\ fits
  OBVIOUS
<1> HIDE DEF inplace
<1>5. Deep(Result(x, p, w, inplace))
  <2>1. PICK v, here : v = x /\ here = inplace
    OBVIOUS
  <2>2. Deep(v) /\ Ready(v, p, w) /\ (here => ~p.keep /\ FitsInPlace(Goal(v, w), p.plan, p.value, w.single))
    BY <1>4, <2>1
  <2>3. Deep(Result(v, p, w, here))
    BY <2>2, ResultIsDeep
  <2> QED BY <2>1, <2>3
<1>6. Deep(x') /\ Deep(held')
  BY <1>2, <1>3, <1>5
<1>7. last'.done /\ last'.w = w /\ last'.before = x /\ last'.p = p /\ ~pend'.on
  BY <1>2 DEF Idle
<1>8. Filled(last')
  BY <1>7 DEF Filled, Ready
<1> QED BY <1>6, <1>7, <1>8 DEF Holds

LEMMA HoldsStays == IInv /\ Holds /\ [Next]_vars => Holds'
<1> SUFFICES ASSUME IInv, Holds, [Next]_vars PROVE Holds'
  OBVIOUS
<1>1. CASE Assign
  <2>1. PICK w \in Writes : \E r \in {Prepared(Target(w), w.args, Source(w), w.single)} :
         LET unshared == ~same /\ ~IsFactor(x) /\ x.kind # "Null"
             warns == ~r.val.keep /\ ~Tiles(r.val.plan, r.val.value, w.single)
         IN  /\ r.err = ""
             /\ IF warns \/ (IsFactor(x) /\ UnknownLabel(x, w.value))
                THEN /\ pend' = [on |-> TRUE, p |-> r.val, w |-> w, unshared |-> unshared,
                                 taken |-> FALSE]
                     /\ last' = NoWrite
                     /\ UNCHANGED <<x, held, same>>
                ELSE Perform(r.val, w, unshared, FALSE)
    BY <1>1 DEF Assign
  <2>2. PICK r, unshared, no :
           /\ r = Prepared(Target(w), w.args, Source(w), w.single) /\ r.err = "" /\ no = FALSE
           /\ \/ /\ pend' = [on |-> TRUE, p |-> r.val, w |-> w, unshared |-> unshared, taken |-> no]
                 /\ last' = NoWrite
                 /\ UNCHANGED <<x, held, same>>
              \/ Perform(r.val, w, unshared, no)
    BY <2>1
  <2>3. PICK v : v = x
    OBVIOUS
  <2>4. Target(w) = Goal(v, w) /\ Source(w) = Sourced(v, w)
    BY <2>3 DEF Target, Goal, Source, Sourced
  <2>5. Deep(v) /\ Deep(held)
    BY <2>3 DEF Holds
  <2>6. Ready(v, r.val, w)
    <3>1. Prepared(Goal(v, w), w.args, Sourced(v, w), w.single).err = ""
      BY <2>2, <2>4
    <3>2. Ready(v, Prepared(Goal(v, w), w.args, Sourced(v, w), w.single).val, w)
      BY <2>5, <3>1, ReadyMade
    <3> QED BY <2>2, <2>4, <3>2
  <2>7. CASE Perform(r.val, w, unshared, no)
    <3>1. PICK p : p = r.val
      OBVIOUS
    <3>2. Deep(x) /\ Deep(held) /\ Ready(x, p, w) /\ Perform(p, w, unshared, no)
      BY <2>3, <2>5, <2>6, <2>7, <3>1
    <3> QED BY ONLY <3>2, PerformHolds
  <2>8. CASE /\ pend' = [on |-> TRUE, p |-> r.val, w |-> w, unshared |-> unshared, taken |-> no]
             /\ last' = NoWrite
             /\ UNCHANGED <<x, held, same>>
    <3>1. x' = v /\ held' = held /\ pend'.p = r.val /\ pend'.w = w /\ ~last'.done
      BY <2>3, <2>8 DEF NoWrite
    <3> QED BY <2>5, <2>6, <3>1 DEF Holds
  <2> QED BY <2>2, <2>7, <2>8
<1>2. CASE HandlerTakes
  <2>1. /\ x' = x /\ held' = x /\ last' = last /\ pend.on /\ pend' = [pend EXCEPT !.taken = TRUE]
        /\ pend = [on |-> TRUE, p |-> pend.p, w |-> pend.w, unshared |-> pend.unshared,
                   taken |-> pend.taken]
    BY <1>2 DEF HandlerTakes, IInv, Alone
  <2>2. PICK p, w, u, t : pend = [on |-> TRUE, p |-> p, w |-> w, unshared |-> u, taken |-> t]
    BY <2>1
  <2>3. pend' = [on |-> TRUE, p |-> p, w |-> w, unshared |-> u, taken |-> TRUE] /\ pend.p = p /\ pend.w = w
    BY <2>1, <2>2
  <2>4. pend'.p = pend.p /\ pend'.w = pend.w
    BY <2>3
  <2> QED BY <2>1, <2>4 DEF Holds
<1>3. CASE Resume
  <2>1. PICK p, w, u, t : p = pend.p /\ w = pend.w /\ u = pend.unshared /\ t = pend.taken
    OBVIOUS
  <2>2. Deep(x) /\ Deep(held) /\ Ready(x, p, w) /\ Perform(p, w, u, t)
    BY <1>3, <2>1 DEF Resume, Holds
  <2> QED BY ONLY <2>2, PerformHolds
<1>4. CASE Abandon
  <2>1. ~pend'.on /\ UNCHANGED <<x, held, same, last>>
    BY <1>4 DEF Abandon, Idle
  <2> QED BY <2>1 DEF Holds
<1>5. CASE Share
  <2>1. x' = x /\ held' = x /\ pend' = pend /\ ~last'.done
    BY <1>5 DEF Share, NoWrite
  <2> QED BY <2>1 DEF Holds
<1>6. CASE Take
  <2>1. PICK r \in Reads : \E out \in {CASE r.how = "single" -> IndexSingle(x, r.args, r.drop)
                                         [] r.how = "double" -> IndexDouble(x, r.args)
                                         [] r.how = "dollar" -> DollarGet(x, r.args[1].data[1][2])} :
                             out.err = "" /\ x' = out.val
    BY <1>6 DEF Take
  <2>2. PICK v, args, drop, name : v = x /\ args = r.args /\ drop = r.drop /\ name = r.args[1].data[1][2]
    OBVIOUS
  <2>3. Deep(v) /\ Deep(held) /\ Arguments(args) /\ r.how \in {"single", "double", "dollar"}
    BY <2>2, InputsAssumption DEF Holds
  <2>4. Deep(x')
    <3>1. CASE r.how = "single"
      <4>1. IndexSingle(v, args, drop).err = "" /\ x' = IndexSingle(v, args, drop).val
        BY <2>1, <2>2, <3>1
      <4> QED BY <2>3, <4>1, SingleRead
    <3>2. CASE r.how = "double"
      <4>1. IndexDouble(v, args).err = "" /\ x' = IndexDouble(v, args).val
        BY <2>1, <2>2, <3>2
      <4> QED BY <2>3, <4>1, DoubleRead
    <3>3. CASE r.how = "dollar"
      <4>1. DollarGet(v, name).err = "" /\ x' = DollarGet(v, name).val
        BY <2>1, <2>2, <3>3
      <4> QED BY <2>3, <4>1, DollarRead
    <3> QED BY <2>3, <3>1, <3>2, <3>3
  <2>5. held' = held /\ pend' = pend /\ ~pend.on /\ ~last'.done
    BY <1>6 DEF Take, NoWrite
  <2> QED BY <2>3, <2>4, <2>5 DEF Holds
<1>7. CASE UNCHANGED vars
  BY <1>7 DEF vars, Holds
<1> QED BY <1>1, <1>2, <1>3, <1>4, <1>5, <1>6, <1>7 DEF Next

LEMMA AlwaysHolds == Spec => []Holds
<1>1. Init => Holds
  <2> SUFFICES ASSUME Init PROVE Holds
    OBVIOUS
  <2>1. x \in Values /\ held = x /\ ~pend.on /\ ~last.done
    BY InputsAssumption DEF Init, Idle, NoWrite
  <2>2. Deep(x)
    BY <2>1, ValuesAreDeep
  <2> QED BY <2>1, <2>2 DEF Holds
<1> QED BY <1>1, HoldsStays, Recorded, PTL DEF Spec

\* What a program holds is a vector: elements of its type, cells as its dimensions
\* say, names that fit, a label for every code.
THEOREM TypesKept == Spec => []TypeOK
<1>1. Holds => TypeOK
  <2>1. \A v : Deep(v) => Formed(v)
    BY Opens DEF Whole
  <2> QED BY <2>1 DEF Holds, TypeOK, Filled
<1> QED BY <1>1, AlwaysHolds, PTL

-----------------------------------------------------------------------------
(* Taking elements out of a list *)

\* The first numbers are that many.
LEMMA FirstNumbers ==
    ASSUME NEW n \in Nat
    PROVE  IsFiniteSet(1..n) /\ Cardinality(1..n) = n
<1>1. PICK i, j : i \in Int /\ j \in Int /\ i = 1 /\ j = n
  OBVIOUS
<1>2. IsFiniteSet(i..j) /\ Cardinality(i..j) = IF i > j THEN 0 ELSE j - i + 1
  BY <1>1, FS_Interval
<1> QED BY <1>1, <1>2

\* A number of a set that as many are no greater than, and no smaller one is, is
\* the k-th.
LEMMA IsInOrder ==
    ASSUME NEW m \in Nat, NEW S, S \subseteq 1..m, NEW k \in 1..Cardinality(S), NEW a \in S,
           Upto(S, a) >= k, \A b \in S : Upto(S, b) >= k => a <= b
    PROVE  Ascending(S)[k] = a
<1>1. PICK b : b = Ascending(S)[k]
  OBVIOUS
<1>2. b \in S /\ Upto(S, b) >= k /\ \A c \in S : Upto(S, c) >= k => b <= c
  <2>1. \A j \in 1..Cardinality(S) :
           /\ Ascending(S)[j] \in {c \in S : Upto(S, c) >= j}
           /\ \A c \in S : Upto(S, c) >= j => Ascending(S)[j] <= c
    BY InOrder
  <2> QED BY <1>1, <2>1
<1>3. a <= b /\ b <= a /\ a \in Nat /\ b \in Nat
  BY <1>2
<1> QED BY <1>1, <1>3

\* How many are no greater, when p is taken out of C, which has all numbers up to p.
Fewer(C, B, p) ==
    /\ Cardinality(C) \in Nat /\ p <= Cardinality(C) /\ Cardinality(B) = Cardinality(C) - 1
    /\ \A a \in C : Upto(C, a) \in Nat /\ Upto(B, a) \in Nat
    /\ \A a \in 1..p : Upto(C, a) = a
    /\ \A a \in C : Upto(B, a) = IF a < p THEN a ELSE Upto(C, a) - 1

LEMMA UptoWithout ==
    ASSUME NEW n \in Nat, NEW C, C \subseteq 1..n, NEW p \in 1..n, 1..p \subseteq C
    PROVE  Fewer(C, C \ {p}, p)
<1> DEFINE To(a) == {c \in C : c <= a}
           Left(a) == {c \in C \ {p} : c <= a}
<1>1. IsFiniteSet(C)
  <2>1. IsFiniteSet(1..n)
    BY FirstNumbers
  <2> QED BY <2>1, FS_Subset
<1>2. p \in C
  OBVIOUS
<1>3. \A a \in C : /\ IsFiniteSet(To(a)) /\ IsFiniteSet(Left(a))
                   /\ Cardinality(To(a)) \in Nat /\ Cardinality(Left(a)) \in Nat
  <2>1. ASSUME NEW a \in C PROVE IsFiniteSet(To(a)) /\ IsFiniteSet(Left(a))
    <3>1. To(a) \in SUBSET C /\ Left(a) \in SUBSET C
      OBVIOUS
    <3> HIDE DEF To, Left
    <3> QED BY <1>1, <3>1, FS_Subset
  <2> HIDE DEF To, Left
  <2> QED BY <2>1, FS_CardinalityType
<1>4. \A a : Upto(C, a) = Cardinality(To(a)) /\ Upto(C \ {p}, a) = Cardinality(Left(a))
  BY DEF Upto
<1>5. ASSUME NEW a \in 1..p PROVE Upto(C, a) = a
  <2>1. To(a) = 1..a
    <3>1. \A b \in 1..a : b \in C /\ b <= a
      OBVIOUS
    <3>2. \A b \in To(a) : b \in 1..a
      OBVIOUS
    <3> QED BY <3>1, <3>2
  <2>2. Cardinality(1..a) = a
    <3>1. a \in Nat
      OBVIOUS
    <3> QED BY <3>1, FirstNumbers
  <2> HIDE DEF To
  <2> QED BY <1>4, <2>1, <2>2
<1>6. ASSUME NEW a \in C PROVE Upto(C \ {p}, a) = IF a < p THEN a ELSE Upto(C, a) - 1
  <2>1. CASE a < p
    <3>1. Left(a) = To(a) /\ a \in 1..p
      BY <2>1
    <3> HIDE DEF Left, To
    <3> QED BY <1>4, <1>5, <2>1, <3>1
  <2>2. CASE ~(a < p)
    <3>1. Left(a) = To(a) \ {p} /\ p \in To(a)
      BY <1>2, <2>2
    <3> HIDE DEF Left, To
    <3>2. Cardinality(Left(a)) = Cardinality(To(a)) - 1
      BY <1>3, <3>1, FS_RemoveElement
    <3> QED BY <1>4, <2>2, <3>2
  <2> QED BY <2>1, <2>2
<1>7. Cardinality(C) \in Nat /\ Cardinality(C \ {p}) = Cardinality(C) - 1
  BY <1>1, <1>2, FS_RemoveElement, FS_CardinalityType
<1>8. p <= Cardinality(C)
  <2>1. Upto(C, p) = p
    BY <1>5
  <2>2. To(p) \in SUBSET C
    OBVIOUS
  <2> HIDE DEF To
  <2>3. Cardinality(To(p)) <= Cardinality(C)
    BY <1>1, <2>2, FS_Subset
  <2> QED BY <1>4, <2>1, <2>3
<1> HIDE DEF To, Left
<1> QED BY <1>3, <1>4, <1>5, <1>6, <1>7, <1>8 DEF Fewer

\* A number below which none is missing stands where it says; without it those above
\* move down by one.
LEMMA OneLess ==
    ASSUME NEW n \in Nat, NEW C, C \subseteq 1..n, NEW p \in 1..n, 1..p \subseteq C
    PROVE  /\ Cardinality(C) \in Nat /\ p <= Cardinality(C) /\ Cardinality(C \ {p}) = Cardinality(C) - 1
           /\ \A k \in 1..(Cardinality(C) - 1) :
                Ascending(C \ {p})[k] = Ascending(C)[IF k < p THEN k ELSE k + 1]
<1>1. PICK B, c : B = C \ {p} /\ c = Cardinality(C)
  OBVIOUS
<1>2. /\ c \in Nat /\ p <= c /\ Cardinality(B) = c - 1
      /\ \A a \in C : Upto(C, a) \in Nat /\ Upto(B, a) \in Nat
      /\ \A a \in 1..p : Upto(C, a) = a
      /\ \A a \in C : Upto(B, a) = IF a < p THEN a ELSE Upto(C, a) - 1
  <2>1. Fewer(C, C \ {p}, p)
    BY UptoWithout
  <2>2. Fewer(C, B, p)
    BY ONLY <1>1, <2>1
  <2> QED BY ONLY <1>1, <2>2 DEF Fewer
<1>3. B \subseteq 1..n /\ B \subseteq C /\ p \in C /\ p \notin B /\ \A a \in C : a # p => a \in B
  BY <1>1
<1>4. ASSUME NEW k \in 1..(c - 1) PROVE Ascending(B)[k] = Ascending(C)[IF k < p THEN k ELSE k + 1]
  <2>1. CASE k < p
    <3>1. k \in C /\ k \in B /\ k \in 1..c /\ k \in 1..Cardinality(B) /\ k \in 1..p
      <4>1. k \in 1..p /\ k # p /\ k \in 1..c /\ k \in 1..Cardinality(B)
        BY <1>2, <2>1
      <4> QED BY <1>3, <4>1
    <3>2. Ascending(C)[k] = k
      <4>1. Upto(C, k) >= k
        BY <1>2, <3>1
      <4>2. ASSUME NEW a \in C, Upto(C, a) >= k PROVE k <= a
        <5>1. CASE a <= p
          <6>1. a \in 1..p
            BY <5>1
          <6> QED BY <1>2, <4>2, <6>1
        <5>2. CASE ~(a <= p)
          BY <2>1, <5>2
        <5> QED BY <5>1, <5>2
      <4> QED BY <1>1, <3>1, <4>1, <4>2, IsInOrder
    <3>3. Ascending(B)[k] = k
      <4>1. Upto(B, k) >= k
        <5>1. Upto(B, k) = k
          BY <1>2, <2>1, <3>1
        <5> QED BY <5>1
      <4>2. ASSUME NEW a \in B, Upto(B, a) >= k PROVE k <= a
        <5>1. a \in C
          BY <1>3
        <5>2. CASE a < p
          <6>1. Upto(B, a) = a
            BY <1>2, <5>1, <5>2
          <6> QED BY <4>2, <6>1
        <5>3. CASE ~(a < p)
          <6>1. a \in Nat
            BY <5>1
          <6> QED BY <2>1, <5>3, <6>1
        <5> QED BY <5>2, <5>3
      <4> QED BY <1>3, <3>1, <4>1, <4>2, IsInOrder
    <3> QED BY <2>1, <3>2, <3>3
  <2>2. CASE ~(k < p)
    <3>1. k + 1 \in 1..c /\ k \in 1..Cardinality(B) /\ c = Cardinality(C)
      BY <1>1, <1>2
    <3>2. PICK a : a = Ascending(C)[k + 1]
      OBVIOUS
    <3>3. a \in C /\ Upto(C, a) >= k + 1 /\ \A b \in C : Upto(C, b) >= k + 1 => a <= b
      <4>1. \A j \in 1..Cardinality(C) :
               /\ Ascending(C)[j] \in {b \in C : Upto(C, b) >= j}
               /\ \A b \in C : Upto(C, b) >= j => Ascending(C)[j] <= b
        BY InOrder
      <4> QED BY <3>1, <3>2, <4>1
    <3>4. a > p
      <4> SUFFICES ASSUME a <= p PROVE FALSE
        BY <3>3
      <4>1. a \in 1..p
        BY <3>3
      <4>2. Upto(C, a) = a
        BY <1>2, <4>1
      <4> QED BY <2>2, <3>3, <4>1, <4>2
    <3>5. a \in B /\ Upto(B, a) >= k
      <4>1. Upto(B, a) = Upto(C, a) - 1 /\ Upto(C, a) \in Nat
        BY <1>2, <3>3, <3>4
      <4> QED BY <1>3, <3>3, <3>4, <4>1
    <3>6. ASSUME NEW b \in B, Upto(B, b) >= k PROVE a <= b
      <4>1. b \in C /\ b # p /\ Upto(C, b) \in Nat
        BY <1>2, <1>3
      <4>2. ~(b < p)
        <5> SUFFICES ASSUME b < p PROVE FALSE
          OBVIOUS
        <5>1. Upto(B, b) = b /\ b \in Nat
          BY <1>2, <4>1
        <5> QED BY <2>2, <3>6, <5>1
      <4>3. Upto(B, b) = Upto(C, b) - 1
        BY <1>2, <4>1, <4>2
      <4>4. Upto(C, b) >= k + 1
        BY <3>6, <4>1, <4>3
      <4> QED BY <3>3, <4>1, <4>4
    <3>7. Ascending(B)[k] = a
      BY <1>3, <3>1, <3>5, <3>6, IsInOrder
    <3> QED BY <2>2, <3>2, <3>7
  <2> QED BY <2>1, <2>2
<1> QED BY <1>1, <1>2, <1>4

\* A sequence after the others have gone, and after one more goes.
LEMMA WithoutOne ==
    ASSUME NEW E, NEW s \in Seq(E), NEW C, C \subseteq 1..Len(s), NEW p \in Nat \ {0}, 1..p \cap 1..Len(s) \subseteq C
    PROVE  Without(Those(s, C), p) = Those(s, C \ {p})
<1>1. PICK n \in Nat : n = Len(s)
  OBVIOUS
<1>2. PICK t, c : t = Those(s, C) /\ c = Cardinality(C)
  OBVIOUS
<1>3. t \in Seq(E) /\ Len(t) = c /\ c \in Nat /\ \A k \in 1..c : t[k] = s[Ascending(C)[k]]
  <2>1. s \in Seq(E) /\ C \subseteq 1..Len(s)
    OBVIOUS
  <2>2. /\ Those(s, C) \in Seq(E) /\ Len(Those(s, C)) = Cardinality(C) /\ Cardinality(C) \in Nat
        /\ \A k \in 1..Cardinality(C) : /\ Those(s, C)[k] = s[Ascending(C)[k]]
                                         /\ Ascending(C)[k] \in C
    BY ONLY <2>1, ThoseAt
  <2> QED BY ONLY <1>2, <2>2
<1>4. CASE p <= n
  <2>1. PICK u, b : u = Those(s, C \ {p}) /\ b = Cardinality(C \ {p})
    OBVIOUS
  <2>2. u \in Seq(E) /\ Len(u) = b /\ b \in Nat /\ \A k \in 1..b : u[k] = s[Ascending(C \ {p})[k]]
    <3>1. PICK B : B = C \ {p}
      OBVIOUS
    <3>2. s \in Seq(E) /\ B \subseteq 1..Len(s)
      BY <3>1
    <3>3. /\ Those(s, B) \in Seq(E) /\ Len(Those(s, B)) = Cardinality(B) /\ Cardinality(B) \in Nat
          /\ \A k \in 1..Cardinality(B) : /\ Those(s, B)[k] = s[Ascending(B)[k]]
                                           /\ Ascending(B)[k] \in B
      BY ONLY <3>2, ThoseAt
    <3> QED BY ONLY <2>1, <3>1, <3>3
  <2>3. /\ p \in 1..n /\ 1..p \subseteq C /\ C \subseteq 1..n
    BY <1>1, <1>4
  <2>4. /\ p <= c /\ b = c - 1
        /\ \A k \in 1..(c - 1) : Ascending(C \ {p})[k] = Ascending(C)[IF k < p THEN k ELSE k + 1]
    <3>1. /\ Cardinality(C) \in Nat /\ p <= Cardinality(C) /\ Cardinality(C \ {p}) = Cardinality(C) - 1
          /\ \A k \in 1..(Cardinality(C) - 1) :
               Ascending(C \ {p})[k] = Ascending(C)[IF k < p THEN k ELSE k + 1]
      BY <2>3, OneLess
    <3> QED BY <1>2, <2>1, <3>1
  <2>5. Without(t, p) = SubSeq(t, 1, p - 1) \o SubSeq(t, p + 1, c)
    BY <1>3, <2>4 DEF Without, RemoveAt
  <2>6. PICK o : o = SubSeq(t, 1, p - 1) \o SubSeq(t, p + 1, c)
    OBVIOUS
  <2>7. o \in Seq(E) /\ Len(o) = c - 1 /\ \A k \in 1..(c - 1) : o[k] = t[IF k < p THEN k ELSE k + 1]
    <3>1. PICK l, h : l = SubSeq(t, 1, p - 1) /\ h = SubSeq(t, p + 1, c)
      OBVIOUS
    <3>2. l \in Seq(E) /\ Len(l) = p - 1 /\ \A k \in 1..(p - 1) : l[k] = t[k]
      BY <1>3, <2>4, <3>1
    <3>3. h \in Seq(E) /\ Len(h) = c - p /\ \A k \in 1..(c - p) : h[k] = t[p + k]
      BY <1>3, <2>4, <3>1
    <3>4. l \o h \in Seq(E) /\ Len(l \o h) = c - 1
      <4>1. l \in Seq(E) /\ h \in Seq(E)
        BY <3>2, <3>3
      <4>2. l \o h \in Seq(E) /\ Len(l \o h) = Len(l) + Len(h)
        BY ONLY <4>1
      <4> QED BY <1>3, <2>4, <3>2, <3>3, <4>2
    <3>5. ASSUME NEW k \in 1..(c - 1) PROVE (l \o h)[k] = t[IF k < p THEN k ELSE k + 1]
      <4>1. CASE k < p
        <5>1. k \in 1..(p - 1)
          BY <4>1
        <5>2. (l \o h)[k] = l[k]
          BY <3>2, <3>3, <5>1
        <5> QED BY <3>2, <4>1, <5>1, <5>2
      <4>2. CASE ~(k < p)
        <5>1. PICK j \in Nat : j = k - (p - 1) /\ j \in 1..(c - p) /\ p + j = k + 1
          BY <1>3, <2>4, <4>2
        <5>2. (l \o h)[k] = h[j]
          BY <1>3, <2>4, <3>2, <3>3, <4>2, <5>1
        <5> QED BY <3>3, <4>2, <5>1, <5>2
      <4> QED BY <4>1, <4>2
    <3> QED BY <2>6, <3>1, <3>4, <3>5
  <2>8. ASSUME NEW k \in 1..b PROVE o[k] = u[k]
    <3>1. k \in 1..(c - 1) /\ (IF k < p THEN k ELSE k + 1) \in 1..c
      BY <1>3, <2>4
    <3>2. PICK i : i = IF k < p THEN k ELSE k + 1
      OBVIOUS
    <3>3. i \in 1..c /\ o[k] = t[i]
      BY <2>7, <3>1, <3>2
    <3>4. u[k] = s[Ascending(C \ {p})[k]] /\ Ascending(C \ {p})[k] = Ascending(C)[i]
      BY <2>2, <2>4, <3>1, <3>2
    <3>5. t[i] = s[Ascending(C)[i]]
      BY <1>3, <3>3
    <3> QED BY <3>3, <3>4, <3>5
  <2>9. o = [k \in 1..b |-> o[k]] /\ u = [k \in 1..b |-> u[k]]
    BY <2>2, <2>4, <2>7
  <2>10. o = u
    BY <2>8, <2>9
  <2> QED BY <1>2, <2>1, <2>5, <2>6, <2>10
<1>5. CASE ~(p <= n)
  <2>1. C \ {p} = C
    BY <1>1, <1>5
  <2>2. c <= n
    <3>1. IsFiniteSet(1..n) /\ Cardinality(1..n) = n /\ C \in SUBSET (1..n)
      BY <1>1, FirstNumbers
    <3> QED BY <1>2, <3>1, FS_Subset
  <2>3. ~(p <= Len(t))
    BY <1>3, <1>5, <2>2
  <2> QED BY <1>2, <2>1, <2>3 DEF Without
<1> QED BY <1>4, <1>5

\* Every place of a sequence.
LEMMA AllThose ==
    ASSUME NEW E, NEW s \in Seq(E)
    PROVE  Those(s, 1..Len(s)) = s
<1>1. PICK n \in Nat : n = Len(s)
  OBVIOUS
<1>2. Cardinality(1..n) = n /\ IsFiniteSet(1..n)
  BY FirstNumbers
<1>3. ASSUME NEW k \in 1..n PROVE Upto(1..n, k) = k
  <2>1. {m \in 1..n : m <= k} = 1..k
    OBVIOUS
  <2>2. Cardinality(1..k) = k
    <3>1. k \in Nat
      OBVIOUS
    <3> QED BY <3>1, FirstNumbers
  <2> QED BY <2>1, <2>2 DEF Upto
<1>4. ASSUME NEW k \in 1..n PROVE Ascending(1..n)[k] = k
  <2>1. PICK S : S = 1..n
    OBVIOUS
  <2>2. Upto(S, k) >= k /\ k \in S /\ k \in 1..Cardinality(S)
    BY <1>2, <1>3, <2>1
  <2>3. \A a \in S : Upto(S, a) >= k => k <= a
    BY <1>3, <2>1
  <2>4. S \subseteq 1..n
    BY <2>1
  <2> QED BY <2>1, <2>2, <2>3, <2>4, IsInOrder
<1>5. PICK t : t = Those(s, 1..n)
  OBVIOUS
<1>6. t \in Seq(E) /\ Len(t) = n /\ \A k \in 1..n : t[k] = s[Ascending(1..n)[k]]
  <2>1. 1..n \subseteq 1..Len(s)
    BY <1>1
  <2> QED BY <1>2, <1>5, <2>1, ThoseAt
<1>7. t = [k \in 1..n |-> t[k]] /\ s = [k \in 1..n |-> s[k]]
  BY <1>1, <1>6
<1>8. t = s
  BY <1>4, <1>6, <1>7
<1> QED BY <1>1, <1>5, <1>8

\* How many of the positions are no smaller.
Downto(s, n) == Cardinality({i \in DOMAIN s : s[i] >= n})

\* The k-th position from the greatest on is the greatest that has k no smaller.
FromTheGreatest(s, d) ==
    /\ DOMAIN d = 1..Len(s)
    /\ \A k \in 1..Len(s) : /\ d[k] \in ToSet(s) /\ Downto(s, d[k]) >= k
                            /\ \A n \in ToSet(s) : Downto(s, n) >= k => n <= d[k]

LEMMA DescendingIs ==
    ASSUME NEW s, s \in Seq(Nat \ {0})
    PROVE  FromTheGreatest(s, Descending(s))
<1> DEFINE P(k) == {n \in ToSet(s) : Downto(s, n) >= k}
           c == Len(s)
<1>1. /\ DOMAIN s = 1..c /\ c \in Nat /\ ToSet(s) \subseteq Nat \ {0} /\ s \in Seq(Nat)
      /\ \A i \in 1..c : s[i] \in Nat
  <2>1. \A i \in 1..Len(s) : s[i] \in Nat \ {0}
    BY ElementOfSeq
  <2>2. s \in Seq(Nat)
    BY SeqMonotonic
  <2> QED BY <2>1, <2>2 DEF ToSet
<1>2. Descending(s) = [k \in 1..c |-> Max(P(k))]
  BY <1>1 DEF Descending, Downto
<1>3. PICK m \in Nat : \A i \in 1..c : s[i] <= m
  BY <1>1, Bounded
<1>4. ASSUME NEW k \in 1..c PROVE Max(P(k)) \in P(k) /\ \A n \in P(k) : n <= Max(P(k))
  <2>1. ToSet(s) # {} /\ ToSet(s) \subseteq Nat
    <3>1. 1 \in DOMAIN s
      BY <1>1
    <3> QED BY <1>1, <3>1 DEF ToSet
  <2>2. PICK a \in ToSet(s) : \A b \in ToSet(s) : a <= b
    BY <2>1, LeastElement
  <2>3. \A i \in 1..c : s[i] >= a
    BY <1>1, <2>1, <2>2 DEF ToSet
  <2>4. {i \in DOMAIN s : s[i] >= a} = 1..c
    BY <1>1, <2>3
  <2>5. Downto(s, a) = c
    <3>1. Cardinality(1..c) = c
      BY <1>1, FirstNumbers
    <3> QED BY <2>4, <3>1 DEF Downto
  <2>6. a \in P(k)
    BY <1>1, <2>5
  <2>7. P(k) \subseteq ToSet(s)
    OBVIOUS
  <2>8. \A b \in ToSet(s) : b <= m
    BY <1>1, <1>3 DEF ToSet
  <2> HIDE DEF P
  <2>9. PICK Q : Q = P(k)
    OBVIOUS
  <2>10. Q \subseteq Nat /\ Q # {} /\ \A b \in Q : b <= m
    BY <2>1, <2>6, <2>7, <2>8, <2>9
  <2>11. Max(Q) \in Q /\ \A n \in Q : n <= Max(Q)
    BY <1>3, <2>10, MaxOf
  <2> QED BY <2>9, <2>11
<1>5. PICK d : d = Descending(s)
  OBVIOUS
<1>6. ASSUME NEW k \in 1..c
      PROVE  d[k] \in ToSet(s) /\ Downto(s, d[k]) >= k /\ \A n \in ToSet(s) : Downto(s, n) >= k => n <= d[k]
  <2>1. d[k] = Max(P(k))
    BY <1>2, <1>5
  <2>2. d[k] \in P(k) /\ \A n \in P(k) : n <= d[k]
    BY <1>4, <2>1
  <2> QED BY <2>2
<1>7. DOMAIN d = 1..c
  BY <1>2, <1>5
<1> HIDE DEF P
<1>8. FromTheGreatest(s, d)
  BY <1>6, <1>7 DEF FromTheGreatest
<1> QED BY <1>5, <1>8

\* Positions that are all different: one place each.
LEMMA OnePlaceEach ==
    ASSUME NEW s, s \in Seq(Nat), Distinct(s)
    PROVE  \A i \in 1..Len(s), j \in 1..Len(s) : s[i] = s[j] => i = j
<1>1. PICK c, T : c \in Nat /\ c = Len(s) /\ T = ToSet(s)
  OBVIOUS
<1>2. s \in Surjection(1..c, T)
  <2>1. DOMAIN s = 1..c /\ s = [i \in 1..c |-> s[i]]
    BY <1>1
  <2>2. T = {s[i] : i \in 1..c}
    BY <1>1, <2>1 DEF ToSet
  <2> QED BY <2>1, <2>2 DEF Surjection
<1>3. IsFiniteSet(1..c) /\ Cardinality(1..c) = c
  BY <1>1, FirstNumbers
<1>4. Cardinality(T) = c
  BY <1>1 DEF Distinct
<1>5. s \in Injection(1..c, T)
  BY <1>2, <1>3, <1>4, FS_Surjection
<1> QED BY <1>1, <1>5 DEF Injection, IsInjective

\* Of different positions one fewer is greater than one of them than are no smaller.
LEMMA OneGreater ==
    ASSUME NEW s, s \in Seq(Nat), Distinct(s), NEW i \in 1..Len(s)
    PROVE  /\ Downto(s, s[i]) \in 1..Len(s)
           /\ IsFiniteSet({j \in DOMAIN s : s[j] > s[i]})
           /\ Cardinality({j \in DOMAIN s : s[j] > s[i]}) = Downto(s, s[i]) - 1
<1>1. PICK c, n : c \in Nat /\ c = Len(s) /\ n = s[i]
  OBVIOUS
<1>2. PICK A, G : A = {j \in DOMAIN s : s[j] >= n} /\ G = {j \in DOMAIN s : s[j] > n}
  OBVIOUS
<1>3. DOMAIN s = 1..c /\ i \in 1..c /\ \A j \in 1..c : s[j] \in Nat
  BY <1>1, ElementOfSeq
<1>4. IsFiniteSet(1..c) /\ Cardinality(1..c) = c
  BY <1>1, FirstNumbers
<1>5. A \in SUBSET (1..c) /\ i \in A
  BY <1>1, <1>2, <1>3
<1>6. G = A \ {i}
  <2>1. \A j \in 1..c : s[j] > n <=> s[j] >= n /\ j # i
    <3>1. \A j \in 1..c : s[j] = s[i] => j = i
      BY <1>1, OnePlaceEach
    <3> QED BY <1>1, <1>3, <3>1
  <2> QED BY <1>2, <1>3, <2>1
<1>7. IsFiniteSet(A) /\ Cardinality(A) <= c /\ Cardinality(A) \in Nat
  BY <1>4, <1>5, FS_Subset, FS_CardinalityType
<1>8. IsFiniteSet(G) /\ Cardinality(G) = Cardinality(A) - 1 /\ Cardinality(G) \in Nat
  BY <1>5, <1>6, <1>7, FS_RemoveElement, FS_CardinalityType
<1>9. Downto(s, n) = Cardinality(A)
  BY <1>2 DEF Downto
<1>10. Downto(s, n) \in 1..c /\ IsFiniteSet(G) /\ Cardinality(G) = Downto(s, n) - 1
  BY <1>1, <1>7, <1>8, <1>9
<1> QED BY ONLY <1>1, <1>2, <1>10

\* Different positions, from the greatest on, become smaller, and are all there.
LEMMA StrictlyDown ==
    ASSUME NEW s, s \in Seq(Nat \ {0}), Distinct(s), NEW d, FromTheGreatest(s, d)
    PROVE  /\ \A k \in 1..Len(s) : k + 1 <= Len(s) => d[k + 1] < d[k]
           /\ \A t \in ToSet(s) : \E k \in 1..Len(s) : d[k] = t
<1>1. PICK c \in Nat : c = Len(s)
  OBVIOUS
<1>2. DOMAIN s = 1..c /\ s \in Seq(Nat) /\ \A i \in 1..c : s[i] \in Nat
  <2>1. \A i \in 1..Len(s) : s[i] \in Nat \ {0}
    BY ElementOfSeq
  <2>2. s \in Seq(Nat)
    BY SeqMonotonic
  <2> QED BY <1>1, <2>1, <2>2
<1>3. \A k \in 1..c : /\ d[k] \in ToSet(s) /\ Downto(s, d[k]) >= k
                      /\ \A n \in ToSet(s) : Downto(s, n) >= k => n <= d[k]
  BY <1>1 DEF FromTheGreatest
<1>4. \A i \in 1..c : /\ Downto(s, s[i]) \in 1..c
                      /\ IsFiniteSet({j \in DOMAIN s : s[j] > s[i]})
                      /\ Cardinality({j \in DOMAIN s : s[j] > s[i]}) = Downto(s, s[i]) - 1
  BY <1>1, <1>2, OneGreater
<1>5. ToSet(s) = {s[i] : i \in 1..c} /\ ToSet(s) \subseteq Nat
  BY <1>2 DEF ToSet
<1>6. ASSUME NEW k \in 1..c, k + 1 <= c PROVE d[k + 1] < d[k]
  <2>1. k + 1 \in 1..c
    BY <1>6
  <2>2. PICK a \in Nat, b \in Nat : a = d[k] /\ b = d[k + 1] /\ a \in ToSet(s) /\ b \in ToSet(s)
    BY <1>3, <1>5, <2>1
  <2>3. Downto(s, b) >= k + 1 /\ \A n \in ToSet(s) : Downto(s, n) >= k => n <= a
    BY <1>3, <2>1, <2>2
  <2>4. PICK i \in 1..c : s[i] = b
    BY <1>5, <2>2
  <2>5. PICK G : G = {j \in DOMAIN s : s[j] > b}
    OBVIOUS
  <2>6. Downto(s, b) \in Nat /\ IsFiniteSet(G) /\ Cardinality(G) = Downto(s, b) - 1 /\ Cardinality(G) >= k
    <3>1. /\ Downto(s, s[i]) \in 1..c /\ IsFiniteSet({j \in DOMAIN s : s[j] > s[i]})
          /\ Cardinality({j \in DOMAIN s : s[j] > s[i]}) = Downto(s, s[i]) - 1
      BY <1>4
    <3>2. Downto(s, b) \in 1..c /\ IsFiniteSet(G) /\ Cardinality(G) = Downto(s, b) - 1
      BY ONLY <2>4, <2>5, <3>1
    <3> QED BY <2>3, <3>2
  <2>7. G # {}
    <3>1. Cardinality({}) = 0
      BY FS_EmptySet
    <3>2. ASSUME G = {} PROVE FALSE
      <4>1. Cardinality(G) = 0
        BY <3>1, <3>2
      <4> QED BY <2>6, <4>1
    <3> QED BY <3>2
  <2>8. PICK H : H = {s[j] : j \in G}
    OBVIOUS
  <2>9. PICK g \in H : \A h \in H : g <= h
    <3>1. H \subseteq Nat /\ H # {}
      BY <1>2, <2>5, <2>7, <2>8
    <3> QED BY <3>1, LeastElement
  <2>10. g \in ToSet(s) /\ g \in Nat /\ g > b
    BY <1>2, <1>5, <2>5, <2>8, <2>9
  <2>11. {j \in DOMAIN s : s[j] >= g} = G
    <3>1. ASSUME NEW j \in 1..c PROVE s[j] >= g <=> s[j] > b
      <4>1. CASE s[j] > b
        <5>1. s[j] \in H
          BY <1>2, <2>5, <2>8, <4>1
        <5> QED BY <1>2, <2>9, <2>10, <4>1, <5>1
      <4>2. CASE ~(s[j] > b)
        BY <1>2, <2>10, <4>2
      <4> QED BY <4>1, <4>2
    <3> QED BY <1>2, <2>5, <3>1
  <2>12. Downto(s, g) >= k
    BY <2>6, <2>11 DEF Downto
  <2> QED BY <2>2, <2>3, <2>10, <2>12
<1>7. ASSUME NEW t \in ToSet(s) PROVE \E k \in 1..c : d[k] = t
  <2>1. PICK i \in 1..c : s[i] = t
    BY <1>5
  <2>2. PICK k : k = Downto(s, t)
    OBVIOUS
  <2>3. k \in 1..c
    BY <1>4, <2>1, <2>2
  <2>4. PICK a \in Nat : /\ a = d[k] /\ a \in ToSet(s) /\ Downto(s, a) >= k
                         /\ \A n \in ToSet(s) : Downto(s, n) >= k => n <= a
    BY <1>3, <1>5, <2>3
  <2>5. t <= a /\ t \in Nat
    <3>1. k \in Nat /\ k >= k
      BY <2>3
    <3> QED BY <1>5, <2>2, <2>4, <3>1
  <2>6. ASSUME t < a PROVE FALSE
    <3>1. PICK G, A : G = {j \in DOMAIN s : s[j] > t} /\ A = {j \in DOMAIN s : s[j] >= a}
      OBVIOUS
    <3>2. A \in SUBSET G
      BY <1>2, <2>5, <2>6, <3>1
    <3>3. IsFiniteSet(G) /\ Cardinality(G) = k - 1
      BY <1>4, <2>1, <2>2, <3>1
    <3>4. Cardinality(A) <= Cardinality(G) /\ Cardinality(A) \in Nat
      BY <3>2, <3>3, FS_Subset, FS_CardinalityType
    <3>5. Cardinality(A) >= k
      BY <2>4, <3>1 DEF Downto
    <3> QED BY <2>3, <3>3, <3>4, <3>5
  <2>7. a = t
    BY <2>5, <2>6
  <2> QED BY <2>3, <2>4, <2>7
<1> QED BY <1>1, <1>6, <1>7

\* Places removed from the greatest on, one after the other: the others remain.
LEMMA OthersRemain ==
    ASSUME NEW E, NEW s, s \in Seq(E), NEW pos, pos \in Seq(Nat \ {0}), Distinct(pos)
    PROVE  Stripped(s, Descending(pos)) = Those(s, 1..Len(s) \ ToSet(pos))
<1>1. PICK d, n, m : d = Descending(pos) /\ n = Len(s) /\ m = Len(pos)
  OBVIOUS
<1>2. n \in Nat /\ m \in Nat
  BY <1>1
<1>3. FromTheGreatest(pos, d)
  BY <1>1, DescendingIs
<1>4. d \in Seq(Nat \ {0}) /\ Len(d) = m /\ \A k \in 1..m : d[k] \in Nat \ {0}
  <2>1. d \in Seq(Nat \ {0}) /\ Len(d) = m
    BY <1>1, Descends
  <2> QED BY <2>1, ElementOfSeq
<1>5. /\ \A k \in 1..m : k + 1 <= m => d[k + 1] < d[k]
      /\ \A t \in ToSet(pos) : \E k \in 1..m : d[k] = t
  BY <1>1, <1>3, StrictlyDown
<1>6. \A k \in 1..m : d[k] \in ToSet(pos)
  BY <1>1, <1>3 DEF FromTheGreatest
<1>7. PICK r \in [0..Len(d) -> Seq(E)] :
             /\ r[0] = s /\ (\A k \in 1..Len(d) : r[k] = Without(r[k - 1], d[k]))
             /\ Stripped(s, d) = r[Len(d)]
  <2>1. s \in Seq(E) /\ d \in Seq(Nat \ {0})
    BY <1>4
  <2> QED BY ONLY <2>1, RemovalRuns
<1> DEFINE D == {k \in Nat : k + 1 <= m => \A j \in 1..k : d[j] > d[k + 1]}
<1>8. 0 \in D
  OBVIOUS
<1>9. ASSUME NEW k \in Nat, k \in D PROVE k + 1 \in D
  <2> SUFFICES ASSUME k + 2 <= m, NEW j \in 1..(k + 1) PROVE d[j] > d[k + 2]
    OBVIOUS
  <2>1. k + 1 \in 1..m /\ k + 2 \in 1..m /\ j \in 1..m /\ k + 1 + 1 = k + 2
    BY <1>2
  <2>2. d[k + 2] < d[k + 1]
    BY <1>5, <2>1
  <2>3. CASE j = k + 1
    BY <2>2, <2>3, <1>4, <2>1
  <2>4. CASE j # k + 1
    <3>1. j \in 1..k /\ k + 1 <= m
      BY <2>1, <2>4
    <3>2. d[j] > d[k + 1]
      BY <1>9, <3>1
    <3> QED BY <1>4, <2>1, <2>2, <3>2
  <2> QED BY <2>3, <2>4
<1>10. \A k \in Nat : k + 1 <= m => \A j \in 1..k : d[j] > d[k + 1]
  <2>1. Nat \subseteq D
    <3> HIDE DEF D
    <3> QED BY <1>8, <1>9, SetInduction
  <2> QED BY <2>1
<1> DEFINE Gone(k) == {d[j] : j \in 1..k}
           T == {k \in Nat : k <= m => r[k] = Those(s, 1..n \ Gone(k))}
<1>11. 0 \in T
  <2>1. 1..n \ Gone(0) = 1..n
    OBVIOUS
  <2>2. Those(s, 1..n) = s
    BY <1>1, AllThose
  <2> HIDE DEF Gone
  <2> QED BY <1>7, <2>1, <2>2
<1>12. ASSUME NEW k \in Nat, k \in T PROVE k + 1 \in T
  <2> SUFFICES ASSUME k + 1 <= m PROVE r[k + 1] = Those(s, 1..n \ Gone(k + 1))
    OBVIOUS
  <2>1. PICK C, p : C = 1..n \ Gone(k) /\ p = d[k + 1]
    OBVIOUS
  <2>2. k + 1 \in 1..m /\ k + 1 - 1 = k /\ k <= m
    BY <1>2
  <2>3. r[k] = Those(s, C)
    BY <1>12, <2>1, <2>2
  <2>4. r[k + 1] = Without(Those(s, C), p)
    BY <1>4, <1>7, <2>1, <2>2, <2>3
  <2>5. p \in Nat \ {0}
    BY <1>4, <2>1, <2>2
  <2>6. 1..p \cap 1..n \subseteq C
    <3>1. \A j \in 1..k : d[j] > p
      BY <1>10, <2>1
    <3>2. ASSUME NEW a \in 1..p \cap 1..n PROVE a \notin Gone(k)
      <4> SUFFICES ASSUME NEW j \in 1..k, a = d[j] PROVE FALSE
        OBVIOUS
      <4>1. d[j] > p /\ d[j] \in Nat
        <5>1. k <= m /\ j \in 1..k
          BY <2>2
        <5>2. j \in 1..m
          BY ONLY <5>1, <1>2, k \in Nat, SMTT(30)
        <5> QED BY <1>4, <3>1, <5>2
      <4> QED BY <2>5, <4>1
    <3> HIDE DEF Gone
    <3> QED BY <2>1, <3>2
  <2>7. Without(Those(s, C), p) = Those(s, C \ {p})
    <3>1. s \in Seq(E) /\ C \subseteq 1..Len(s) /\ p \in Nat \ {0} /\ 1..p \cap 1..Len(s) \subseteq C
      BY <1>1, <2>1, <2>5, <2>6
    <3> QED BY ONLY <3>1, WithoutOne
  <2>8. C \ {p} = 1..n \ Gone(k + 1)
    <3>1. Gone(k + 1) = Gone(k) \cup {p}
      <4>1. 1..(k + 1) = 1..k \cup {k + 1}
        OBVIOUS
      <4> QED BY <2>1, <4>1
    <3> HIDE DEF Gone
    <3> QED BY <2>1, <3>1
  <2> HIDE DEF Gone
  <2> QED BY <2>4, <2>7, <2>8
<1>13. r[m] = Those(s, 1..n \ Gone(m))
  <2>1. Nat \subseteq T
    <3> HIDE DEF T
    <3> QED BY <1>11, <1>12, SetInduction
  <2>2. m \in T /\ m <= m
    BY <1>2, <2>1
  <2> HIDE DEF Gone
  <2> QED BY <2>2
<1>14. Gone(m) = ToSet(pos)
  BY <1>5, <1>6
<1> HIDE DEF Gone
<1> QED BY <1>1, <1>4, <1>7, <1>13, <1>14

\* What is left of a list.
LeftOf(s, n, blank, pos) == Those(Pad(s, n, blank), 1..n \ ToSet(pos))

LEMMA DeletedAre ==
    ASSUME NEW v, Deep(v), v.kind = "List", NEW plan, PlanFor(v, plan), NEW single, Distinct(plan.pos),
           NEW reach, reach = IF single THEN Len(v.data) ELSE Reach(plan, Len(v.data)),
           NEW out, out = DeleteElements(v, plan, single)
    PROVE  /\ \E k, m, a, l : out = [kind |-> k, data |-> out.data, names |-> out.names, dim |-> m,
                                     dimnames |-> a, levels |-> l]
           /\ out.data = LeftOf(v.data, reach, Box(NULL), plan.pos)
           /\ NamesOf(v) = <<>> => out.names = <<>>
           /\ NamesOf(v) # <<>> /\ Len(NamesOf(v)) = Len(v.data)
                => out.names = LeftOf(NamesOf(v), reach, Blank, plan.pos)
<1>1. PICK down, pos : down = Descending(plan.pos) /\ pos = plan.pos
  OBVIOUS
<1>2. pos \in Seq(Nat \ {0}) /\ Distinct(pos)
  BY <1>1 DEF PlanFor
<1>3. reach \in Nat /\ Len(v.data) <= reach
  <2>1. /\ Reach(plan, Len(v.data)) \in Nat /\ Len(v.data) <= Reach(plan, Len(v.data)) /\ Len(v.data) \in Nat
    BY Opens, PlanParts, NamesParts DEF Whole
  <2> QED BY <2>1
<1>4. NamesOf(v) \in Seq(STRING) /\ Len(NamesOf(v)) \in Nat /\ Len(NamesOf(v)) <= Len(v.data) /\ Len(v.data) \in Nat
  BY NamesParts
<1>5. v.data \in Seq(ToSet(v.data))
  BY Opens, FormedParts DEF Whole
<1>6. PICK S, b, names, k : S = STRING /\ b = Blank /\ names = NamesOf(v) /\ k = Len(names) + reach - Len(v.data)
  OBVIOUS
<1>7. PICK E, none : none = Box(NULL) /\ E = ToSet(v.data) \cup {none}
  OBVIOUS
<1>8. v.data \in Seq(E) /\ none \in E
  <2>1. ToSet(v.data) \subseteq E
    BY <1>7
  <2> QED BY <1>5, <1>7, <2>1, Widened
<1>9. PICK s, t : s = Pad(v.data, reach, none) /\ t = Pad(names, k, b)
  OBVIOUS
<1>10. s \in Seq(E) /\ Len(s) = reach
  BY <1>3, <1>8, <1>9, Stretched
<1>11. Stripped(s, down) = LeftOf(v.data, reach, none, pos)
  <2>1. Stripped(s, Descending(pos)) = Those(s, 1..Len(s) \ ToSet(pos))
    BY <1>2, <1>10, OthersRemain
  <2> QED BY <1>1, <1>9, <1>10, <2>1 DEF LeftOf
<1>12. ASSUME Len(names) = Len(v.data) PROVE Stripped(t, down) = LeftOf(names, reach, b, pos)
  <2>1. k = reach
    BY <1>3, <1>4, <1>6, <1>12
  <2>2. b \in S /\ names \in Seq(S)
    BY <1>4, <1>6, NamesAssumption
  <2>3. Len(names) <= reach
    BY <1>3, <1>12
  <2>4. t \in Seq(S) /\ Len(t) = reach
    BY <1>3, <1>9, <2>1, <2>2, <2>3, Stretched, SMTT(30)
  <2>5. Stripped(t, Descending(pos)) = Those(t, 1..Len(t) \ ToSet(pos))
    BY <1>2, <2>4, OthersRemain
  <2> QED BY <1>1, <1>9, <2>1, <2>4, <2>5 DEF LeftOf
<1>13. PICK d, n : d = Stripped(s, down) /\ n = IF names = <<>> THEN <<>> ELSE Stripped(t, down)
  OBVIOUS
<1>14. out = Named(V("List", d), n)
  <2>1. out = Deleted(v, plan, single, down)
    BY <1>1 DEF DeleteElements
  <2>2. Deleted(v, plan, single, down) =
          Named(V("List", Stripped(Pad(v.data, reach, Box(NULL)), down)),
                IF names = <<>> THEN <<>> ELSE Stripped(Pad(names, k, Blank), down))
    BY <1>1, <1>6 DEF Deleted
  <2> QED BY <1>6, <1>7, <1>9, <1>13, <2>1, <2>2
<1>15. out = [kind |-> "List", data |-> d, names |-> n, dim |-> <<>>, dimnames |-> <<>>, levels |-> <<>>]
  <2>1. V("List", d) = [kind |-> "List", data |-> d, names |-> <<>>, dim |-> <<>>, dimnames |-> <<>>, levels |-> <<>>]
    BY DEF V
  <2> QED BY <1>14, <2>1 DEF Named
<1>16. out.data = d /\ out.names = n
  BY ONLY <1>15
<1> QED BY <1>1, <1>6, <1>7, <1>11, <1>12, <1>13, <1>15, <1>16

-----------------------------------------------------------------------------
(* What a write of a program leaves alone *)

\* A write in place during a program gives the vector the rebuild would have given.
THEOREM InPlaceAgrees == Spec => []InPlaceIsTheRebuild
<1>1. IInv /\ TypeOK => InPlaceIsTheRebuild
  <2> SUFFICES ASSUME IInv, TypeOK, last.done, last.inplace
               PROVE  Agree(last.before, x, Rebuild(last.before, last.p.plan, last.p.value, last.w.single))
    BY DEF InPlaceIsTheRebuild, Agree
  <2>1. PICK v, plan, value, single :
           v = last.before /\ plan = last.p.plan /\ value = last.p.value /\ single = last.w.single
    OBVIOUS
  <2>2. Formed(v) /\ PlanFor(v, plan) /\ Formed(value)
    BY <2>1 DEF TypeOK
  <2>3. /\ x = Result(v, last.p, last.w, last.inplace) /\ ~last.p.keep /\ Bare(v)
        /\ FitsInPlace(Goal(v, last.w), plan, value, single)
    BY <2>1 DEF IInv, AsRecorded
  <2>4. Goal(v, last.w) = v /\ v.levels = <<>>
    BY <2>2, <2>3, BareGoal DEF Bare
  <2>5. x = WriteInPlace(v, plan, value) /\ FitsInPlace(v, plan, value, single)
    BY <2>1, <2>3, <2>4 DEF Result
  <2>6. Agree(v, x, Rebuild(v, plan, value, single))
    BY <2>2, <2>4, <2>5, InPlaceGivesTheRebuild
  <2> QED BY <2>1, <2>6
<1> QED BY <1>1, Recorded, TypesKept, PTL

\* A write of a program, in place or not, changes the elements it selects and no
\* other, and no name: for every vector, subscript and value, when nothing is taken
\* out of a list.
THEOREM OthersAreKept == Spec => []OthersStay
<1>1. IInv /\ TypeOK => OthersStay
  <2> SUFFICES ASSUME IInv, TypeOK, last.done, ~Deletes(last)
               PROVE  Kept(last.before, last.p.plan, x)
    BY DEF OthersStay, Kept
  <2>1. PICK v, plan, value, w, p :
           v = last.before /\ plan = last.p.plan /\ value = last.p.value /\ w = last.w /\ p = last.p
    OBVIOUS
  <2>2. /\ Formed(v) /\ PlanFor(v, plan) /\ Formed(value)
        /\ value.kind = "Null" => v.kind # "List" /\ w.value.kind = "Null"
    BY <2>1 DEF TypeOK, Deletes
  <2>3. /\ x = Result(v, p, w, last.inplace)
        /\ last.inplace => /\ ~p.keep /\ Bare(v)
                           /\ FitsInPlace(Goal(v, w), plan, value, w.single)
    BY <2>1 DEF IInv, AsRecorded
  <2>4. PICK g : g = Goal(v, w)
    OBVIOUS
  <2>5. Formed(g) /\ PlanFor(g, plan) /\ g.levels = <<>>
    BY <2>2, <2>4, GoalParts
  <2>6. WritesList(g, value, w.single) => value.kind # "Null"
    <3>1. SUFFICES ASSUME value.kind = "Null" PROVE g.kind # "List"
      BY DEF WritesList
    <3>2. g = [v EXCEPT !.levels = <<>>]
      BY <2>2, <2>4, <3>1 DEF Goal
    <3>3. PICK k, d, n, m, a, l : /\ v = [kind |-> k, data |-> d, names |-> n, dim |-> m,
                                          dimnames |-> a, levels |-> l]
                                  /\ k = v.kind
      BY <2>2, FormedParts
    <3>4. g = [kind |-> k, data |-> d, names |-> n, dim |-> m, dimnames |-> a, levels |-> <<>>]
      BY ONLY <3>2, <3>3
    <3>5. g.kind = k
      BY ONLY <3>4
    <3> QED BY <2>2, <3>1, <3>3, <3>5
  <2>7. CASE p.keep
    <3>1. x = g
      BY <2>3, <2>4, <2>7 DEF Result
    <3>2. Kept(v, plan, g)
      BY <2>2, <2>4, UntouchedIsKept
    <3> QED BY <2>1, <3>1, <3>2
  <2>8. CASE ~p.keep /\ last.inplace
    <3>1. x = WriteInPlace(g, plan, value)
      BY <2>1, <2>3, <2>4, <2>8 DEF Result
    <3>2. Around(g, plan, x)
      <4>1. FitsInPlace(g, plan, value, w.single)
        BY <2>3, <2>4, <2>8
      <4>2. Around(g, plan, WriteInPlace(g, plan, value))
        BY <2>2, <2>5, <4>1, InPlaceAround
      <4> QED BY <3>1, <4>2
    <3>3. Kept(v, plan, x)
      BY <2>2, <2>4, <3>2, AroundIsKept
    <3> QED BY <2>1, <3>3
  <2>9. CASE ~p.keep /\ ~last.inplace
    <3>1. PICK out : out = Rebuild(g, plan, value, w.single)
      OBVIOUS
    <3>2. x = [out EXCEPT !.levels = v.levels]
      BY <2>1, <2>3, <2>4, <2>9, <3>1 DEF Result
    <3>3. Around(g, plan, out)
      BY <2>2, <2>5, <2>6, <3>1, TheRestIsRebuilt
    <3>4. PICK k, d, n, m, a, l :
             out = [kind |-> k, data |-> d, names |-> n, dim |-> m, dimnames |-> a, levels |-> l]
      <4>1. PICK single : single = w.single
        OBVIOUS
      <4>2. WritesList(g, value, single) => value.kind # "Null"
        BY <2>6, <4>1
      <4>3. \E k, d, n, m, a, l : Rebuild(g, plan, value, single) =
               [kind |-> k, data |-> d, names |-> n, dim |-> m, dimnames |-> a, levels |-> l]
        BY <2>5, <4>2, RebuiltParts
      <4> QED BY ONLY <3>1, <4>1, <4>3
    <3>5. Around(g, plan, x)
      BY <3>2, <3>3, <3>4, AlikeAround
    <3>6. Kept(v, plan, x)
      BY <2>2, <2>4, <3>5, AroundIsKept
    <3> QED BY <2>1, <3>6
  <2> QED BY <2>7, <2>8, <2>9
<1> QED BY <1>1, Recorded, TypesKept, PTL

\* NULL assigned to elements of a list takes out these elements and their names, and
\* no others: for every list and every choice of positions, none of them twice.
THEOREM SelectedLeft == Spec => []SelectedLeave
<1>1. IInv /\ Holds => SelectedLeave
  <2> SUFFICES ASSUME IInv, Holds, last.done, Deletes(last), Distinct(last.p.plan.pos) PROVE SelectedLeave
    BY DEF SelectedLeave
  <2>1. PICK v, plan, value, w, p, single :
           /\ v = last.before /\ plan = last.p.plan /\ value = last.p.value /\ w = last.w /\ p = last.p
           /\ single = last.w.single
    OBVIOUS
  <2>2. Deep(v) /\ PlanFor(v, plan) /\ v.kind = "List" /\ value.kind = "Null" /\ Distinct(plan.pos) /\ ~p.keep
    BY <2>1 DEF Holds, Filled, Deletes
  <2>3. x = Result(v, p, w, last.inplace) /\ (last.inplace => FitsInPlace(Goal(v, w), plan, value, single))
    BY <2>1 DEF IInv, AsRecorded
  <2>4. PICK g : g = Goal(v, w)
    OBVIOUS
  <2>5. Deep(g) /\ g.kind = "List" /\ g.data = v.data
    BY <2>2, <2>4, GoalIsDeep, GoalHas
  <2>6. PlanFor(g, plan) /\ NamesOf(g) = NamesOf(v)
    BY <2>2, <2>4, GoalParts, Opens DEF Whole
  <2>7. ~last.inplace
    BY <2>2, <2>3, <2>4, <2>5 DEF FitsInPlace, WritesList
  <2>8. PICK out, reach : /\ out = DeleteElements(g, plan, single)
                          /\ reach = IF single THEN Len(v.data) ELSE Reach(plan, Len(v.data))
    OBVIOUS
  <2>9. x = [out EXCEPT !.levels = v.levels]
    <3>1. Rebuild(g, plan, value, single) = out
      BY <2>2, <2>5, <2>8 DEF Rebuild, WritesList
    <3> QED BY <2>1, <2>2, <2>3, <2>4, <2>7, <3>1 DEF Result
  <2>10. /\ \E k, m, a, l : out = [kind |-> k, data |-> out.data, names |-> out.names, dim |-> m,
                                   dimnames |-> a, levels |-> l]
         /\ out.data = LeftOf(g.data, reach, Box(NULL), plan.pos)
         /\ NamesOf(g) = <<>> => out.names = <<>>
         /\ NamesOf(g) # <<>> /\ Len(NamesOf(g)) = Len(g.data)
              => out.names = LeftOf(NamesOf(g), reach, Blank, plan.pos)
    BY <2>2, <2>5, <2>6, <2>8, DeletedAre, SMTT(60)
  <2>11. x.data = out.data /\ x.names = out.names
    <3>1. PICK k, m, a, l, d, n, o : /\ out = [kind |-> k, data |-> d, names |-> n, dim |-> m,
                                               dimnames |-> a, levels |-> l]
                                     /\ d = out.data /\ n = out.names /\ o = v.levels
      BY <2>10
    <3>2. x = [kind |-> k, data |-> d, names |-> n, dim |-> m, dimnames |-> a, levels |-> o]
      BY ONLY <2>9, <3>1
    <3>3. x.data = d /\ x.names = n
      BY ONLY <3>2
    <3> QED BY <3>1, <3>3
  <2> QED BY <2>1, <2>5, <2>6, <2>8, <2>10, <2>11 DEF SelectedLeave, LeftOf
<1> QED BY <1>1, AlwaysHolds, Recorded, PTL

\* What a write does not select it does not change, other elements, their names and
\* what another name holds; and NULL takes out of a list what it selects.
THEOREM RestKept == Spec => []RestIsKept
<1>1. OtherNameKept /\ SelectedLeave /\ OthersStay => RestIsKept
  BY DEF RestIsKept
<1> QED BY <1>1, OtherNameStays, SelectedLeft, OthersAreKept, PTL

=============================================================================
