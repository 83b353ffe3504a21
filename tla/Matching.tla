------------------------------- MODULE Matching -------------------------------
(***************************************************************************)
(* Which formal each argument of a call goes to: an exact name first, then *)
(* a part of a name, then position.  A tag that is not there is "".        *)
(***************************************************************************)
EXTENDS Integers, Sequences, SequencesExt, FiniteSetsExt

CONSTANTS
    Longer       \* the pairs of a name and a longer name that it begins

FirstOf(S) == IF S = {} THEN 0 ELSE Min(S)
starts_with(p, tag) == p = tag \/ <<tag, p>> \in Longer

\* The formals that come before `...`.
Front_(formals) == {p \in DOMAIN formals : "..." \notin ToSet(SubSeq(formals, 1, p))}

\* A mutant of partial_limit: a part of a name matches behind `...` too.
PartialPastDots(formals) == DOMAIN formals
\* The formals that are matched by a part of their name.
partial_limit(formals) == {p \in DOMAIN formals : "..." \notin ToSet(SubSeq(formals, 1, p))}

(***************************************************************************)
(* Three passes over the arguments.  s.to has the formal of each, 0 for    *)
(* none (it then goes to `...`); the formals in it are taken.              *)
(***************************************************************************)
Position(formals, tag) == FirstOf({p \in DOMAIN formals : formals[p] = tag})
exact(formals, tags, s, a) ==
    LET to(p) == CASE p = 0 -> s
                   [] p # 0 /\ p \in ToSet(s.to) -> [s EXCEPT !.ok = FALSE]
                   [] OTHER -> [s EXCEPT !.to[a] = p]
    IN  IF tags[a] = "" THEN s ELSE to(Position(formals, tags[a]))

Hits(formals, tags, s, a) == {p \in partial_limit(formals) \ ToSet(s.to) : starts_with(formals[p], tags[a])}
partial(formals, tags, s, a) ==
    LET among(hits) == CASE hits = {} -> s
                         [] hits # {} /\ Cardinality(hits) > 1 -> [s EXCEPT !.ok = FALSE]
                         [] OTHER -> [s EXCEPT !.to[a] = Min(hits)]
    IN  IF s.to[a] # 0 \/ tags[a] = "" THEN s ELSE among(Hits(formals, tags, s, a))

fill(formals, tags, s, a) ==
    LET into(free) == IF free = {} THEN s ELSE [s EXCEPT !.to[a] = Min(free)]
    IN  IF s.to[a] # 0 \/ tags[a] # "" THEN s ELSE into(Front_(formals) \ ToSet(s.to))

Step(pass, formals, tags, s, a) ==
    CASE pass = "exact" -> exact(formals, tags, s, a)
      [] pass = "partial" -> partial(formals, tags, s, a)
      [] pass = "fill" -> fill(formals, tags, s, a)
Pass(pass, formals, tags, s) ==
    FoldLeft(LAMBDA t, a : Step(pass, formals, tags, t, a), s, [a \in DOMAIN tags |-> a])

Untouched(tags) == [ok |-> TRUE, to |-> [a \in DOMAIN tags |-> 0]]
match_positions(formals, tags) ==
    LET named == Pass("partial", formals, tags, Pass("exact", formals, tags, Untouched(tags)))
    IN  Pass("fill", formals, tags, named)

(***************************************************************************)
(* R's rule, as a relation: an exact name first, a part of the name of     *)
(* just one formal before `...` that is not taken next, the rest in order. *)
(***************************************************************************)
Exact(formals, tags, a) == tags[a] # "" /\ Contains(formals, tags[a])
ByPart(formals, tags, a) == tags[a] # "" /\ ~Contains(formals, tags[a])
Binds(formals, tags, to) ==
    \A a \in DOMAIN tags :
        /\ to[a] # 0 => \A b \in DOMAIN tags : b # a => to[b] # to[a]
        /\ Exact(formals, tags, a) => to[a] # 0 /\ formals[to[a]] = tags[a]
        /\ ByPart(formals, tags, a) =>
              /\ to[a] # 0 => to[a] \in Front_(formals) /\ starts_with(formals[to[a]], tags[a])
              /\ \A p \in Front_(formals) : (p # to[a] /\ starts_with(formals[p], tags[a])) =>
                    \E b \in DOMAIN tags : to[b] = p /\ tags[b] # "" /\ (Exact(formals, tags, b) \/ b < a)
        /\ (tags[a] = "" /\ to[a] = 0) => \A p \in Front_(formals) : Contains(to, p)
        /\ (tags[a] = "" /\ to[a] # 0) =>
              /\ to[a] \in Front_(formals)
              /\ \A p \in Front_(formals) : p < to[a] =>
                    \E b \in DOMAIN tags : to[b] = p /\ (tags[b] # "" \/ b < a)
\* A call that R refuses: two arguments name one formal, or one gives a part of
\* the names of two.
Refused(formals, tags) ==
    \/ \E a, b \in DOMAIN tags : a # b /\ tags[a] = tags[b] /\ Exact(formals, tags, a)
    \/ \E a \in DOMAIN tags : \E p, q \in Front_(formals) :
          p # q /\ ByPart(formals, tags, a) /\ starts_with(formals[p], tags[a]) /\ starts_with(formals[q], tags[a])
=============================================================================
