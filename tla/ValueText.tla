----------------------------- MODULE ValueText -----------------------------
(***************************************************************************)
(* A value written as the text that makes it, which is what as.call, the   *)
(* tables of substitute and dput go by.  A value is a vector or a list,    *)
(* [type, x, attrs]: the elements of a vector are literals as they are     *)
(* written, those of a list are values; attrs is a sequence of             *)
(* <<name, value>>.  A missing element is the literal NA.                  *)
(***************************************************************************)
EXTENDS Language

CONSTANTS
    Whole,   \* the integers considered, in order, as integers are written
    Doubles      \* and as doubles are

Atomic == {"lgl", "int", "dbl", "str"}
Vector(type, x) == [type |-> type, x |-> x, attrs |-> <<>>]
NullValue == Vector("null", <<>>)
attr(v, name) == LET i == First(v.attrs, name) IN IF i = 0 THEN NullValue ELSE v.attrs[i][2]
set_attr(v, name, value) ==
    LET i == First(v.attrs, name)
    IN  CASE value.type = "null" /\ i = 0 -> v
          [] value.type = "null" /\ i # 0 -> [v EXCEPT !.attrs = RemoveAt(@, i)]
          [] value.type # "null" /\ i = 0 -> [v EXCEPT !.attrs = Append(@, <<name, value>>)]
          [] OTHER -> [v EXCEPT !.attrs[i] = <<name, value>>]

\* The names that can be written inline; <<>> when there are none.
nice_names(v) ==
    LET names == attr(v, "names").x
    IN  IF "NA" \notin ToSet(names) /\ ToSet(names) \ {""} # {} THEN names ELSE <<>>
structure_attrs(v, inline) == SelectSeq(v.attrs, LAMBDA p : ~(inline /\ p[1] = "names"))

\* Whether the elements are consecutive integers, up or down.
int_colon(x) ==
    LET at == [i \in DOMAIN x |-> SelectInSeq(Whole, LAMBDA n : n = x[i])]
    IN  /\ Len(x) >= 2 /\ "NA" \notin ToSet(x)
        /\ at[2] - at[1] \in {1, -1} /\ \A i \in 2 .. Len(x) : at[i] - at[i - 1] = at[2] - at[1]
Plain(n) == [t |-> "num", n |-> Doubles[SelectInSeq(Whole, LAMBDA m : m = n)]]

TypedNA(type) == CASE type = "int" -> "NA_integer_" [] type = "dbl" -> "NA_real_"
                   [] type = "str" -> "NA_character_" [] OTHER -> "NA"
\* A mutant of Cell: a missing element is a bare NA, whatever the vector is.
BareNA(v, i) ==
    CASE v.x[i] = "NA" -> [t |-> "const", n |-> "NA"]
      [] v.x[i] # "NA" /\ v.type = "str" -> [t |-> "str", n |-> v.x[i]]
      [] v.x[i] # "NA" /\ v.type = "lgl" -> [t |-> "const", n |-> v.x[i]]
      [] OTHER -> [t |-> "num", n |-> v.x[i]]
\* One element; a missing one tells its type only where no other does.
Cell(v, i) ==
    CASE v.x[i] = "NA" -> [t |-> "const", n |-> IF ToSet(v.x) = {"NA"} THEN TypedNA(v.type) ELSE "NA"]
      [] v.x[i] # "NA" /\ v.type = "str" -> [t |-> "str", n |-> v.x[i]]
      [] v.x[i] # "NA" /\ v.type = "lgl" -> [t |-> "const", n |-> v.x[i]]
      [] OTHER -> [t |-> "num", n |-> v.x[i]]

Open_(name) == <<Id(name), Tok("(")>>
quote_tag(name) == <<Id(name), Tok("=")>>
Tag(names, i) == IF names = <<>> \/ names[i] = "" THEN <<>> ELSE quote_tag(names[i])
Empty(type) == CASE type = "lgl" -> "logical" [] type = "int" -> "integer" [] type = "str" -> "character"
                 [] OTHER -> "numeric"

deparse_atomic(b, v, names) ==
    LET wrap == Len(v.x) > 1 \/ names # <<>>
        cell(s, i) == print(s, Tag(names, i) \o <<Cell(v, i)>> \o IF i < Len(v.x) THEN <<Tok(",")>> ELSE <<>>)
        cells(s) == FoldLeft(LAMBDA t, i : IF wrap THEN linebreak(cell(t, i)) ELSE cell(t, i),
                             s, [i \in DOMAIN v.x |-> i])
    IN  CASE v.x = <<>> -> print(b, Open_(Empty(v.type)) \o <<[t |-> "num", n |-> "0"], Tok(")")>>)
          [] v.type = "int" /\ int_colon(v.x) -> print(b, <<Plain(v.x[1]), Tok(":"), Plain(Last(v.x))>>)
          [] OTHER -> IF wrap THEN print(cells(print(b, Open_("c"))), <<Tok(")")>>) ELSE cells(b)

\* Names go inline, but for those of an integer run or of an empty vector;
\* every other attribute goes into structure().
RECURSIVE deparse_value_into(_, _)
deparse_value_into(b, v) ==
    LET run == v.type \in Atomic /\ (v.x = <<>> \/ (v.type = "int" /\ int_colon(v.x)))
        names == IF run THEN <<>> ELSE nice_names(v)
        attrs == structure_attrs(v, names # <<>>)
        item(s, i) ==
            LET next == linebreak(IF i = 1 THEN s ELSE print(s, <<Tok(",")>>))
            IN  deparse_value_into(print(next, Tag(names, i)), v.x[i])
        open == IF attrs = <<>> THEN b ELSE print(b, Open_("structure"))
        inside == CASE v.type = "null" -> print(open, <<[t |-> "const", n |-> "NULL"]>>)
                    [] v.type = "list" -> print(FoldLeft(item, print(open, Open_("list")), [i \in DOMAIN v.x |-> i]),
                                                <<Tok(")")>>)
                    [] OTHER -> deparse_atomic(open, v, names)
        attribute(s, p) == deparse_value_into(print(s, <<Tok(",")>> \o quote_tag(p[1])), p[2])
    IN  IF attrs = <<>> THEN inside ELSE print(FoldLeft(attribute, inside, attrs), <<Tok(")")>>)
deparse_value(v) == deparse_value_into(Blank, v).out

\* The tree of a value, for as.call and for the tables of substitute.
value_as_expr(v) == LET r == parse(deparse_value(v)) IN
    IF r.ok /\ Len(r.e.a) = 1 THEN r.e.a[1] ELSE Failed

-----------------------------------------------------------------------------
(***************************************************************************)
(* What R makes of the constructors, for the texts considered: literals,   *)
(* runs, c() of elements of one type, list(), structure() and the empty    *)
(* vectors.  Anything else is no value.                                    *)
(***************************************************************************)
NoValue == Vector("none", <<>>)
Literal(e) ==
    CASE e.k = "str" -> Vector("str", <<e.s>>)
      [] e.k = "num" /\ Contains(Whole, e.s) -> Vector("int", <<e.s>>)
      [] e.k = "num" /\ ~Contains(Whole, e.s) -> Vector("dbl", <<e.s>>)
      [] e.s = "NULL" -> NullValue
      [] e.s \in {"TRUE", "FALSE"} -> Vector("lgl", <<e.s>>)
      [] OTHER -> Vector(CHOOSE t \in Atomic : TypedNA(t) = e.s, <<"NA">>)
\* The vector of some scalars: their one type, but for bare NAs.
Combined(vs) ==
    LET types == {vs[i].type : i \in DOMAIN vs}
        known == {vs[i].type : i \in {j \in DOMAIN vs : vs[j].x # <<"NA">> \/ vs[j].type # "lgl"}}
    IN  IF vs = <<>> THEN NullValue
        ELSE IF (types \ {"lgl"}) \cup known = {} THEN Vector("lgl", [i \in DOMAIN vs |-> vs[i].x[1]])
        ELSE IF Cardinality(known) = 1 /\ types \subseteq known \cup {"lgl"} /\ types \subseteq Atomic
             THEN Vector(CHOOSE t \in known : TRUE, [i \in DOMAIN vs |-> vs[i].x[1]])
        ELSE NoValue
Named(v, tags) == IF ToSet(tags) \subseteq {""} THEN v ELSE set_attr(v, "names", Vector("str", tags))
Span(from, to) ==
    LET at(n) == SelectInSeq(Doubles, LAMBDA m : m = n)
    IN  IF at(from) <= at(to) THEN SubSeq(Whole, at(from), at(to))
        ELSE Reverse(SubSeq(Whole, at(to), at(from)))

RECURSIVE Value(_)
Value(e) ==
    LET vs == [i \in DOMAIN Args(e) |-> IF Values(Args(e))[i] = None THEN NoValue ELSE Value(Values(Args(e))[i])]
        tags == Tags(Args(e))
        scalars == \A i \in DOMAIN vs : vs[i].type \in Atomic /\ Len(vs[i].x) = 1 /\ vs[i].attrs = <<>>
        fits(i) == tags[i] = "names" => Len(vs[i].x) = Len(vs[1].x) /\ vs[i].type = "str"
        structured == FoldLeft(LAMBDA v, i : IF i = 1 THEN v ELSE set_attr(v, tags[i], vs[i]),
                               vs[1], [i \in DOMAIN vs |-> i])
    IN  CASE e.k \in {"num", "str", "const"} -> Literal(e)
          [] e.k = "binary" /\ e.s = ":" /\ Contains(Doubles, e.a[1].s) /\ Contains(Doubles, e.a[2].s) ->
                Vector("int", Span(e.a[1].s, e.a[2].s))
          [] e.k # "call" -> NoValue
          [] e.k = "call" /\ (NoValue \in ToSet(vs) \/ Fun(e).k # "id") -> NoValue
          [] OTHER ->
                CASE Fun(e).s = "c" /\ scalars /\ Combined(vs).type # "none" -> Named(Combined(vs), tags)
                  [] Fun(e).s = "list" -> Named(Vector("list", vs), tags)
                  [] Fun(e).s = "structure" /\ vs # <<>> /\ tags[1] = "" ->
                        IF vs[1].type # "null" /\ \A i \in 2 .. Len(vs) : tags[i] # "" /\ fits(i)
                        THEN structured ELSE NoValue
                  [] \E t \in Atomic : Empty(t) = Fun(e).s -> Vector(CHOOSE t \in Atomic : Empty(t) = Fun(e).s, <<>>)
                  [] OTHER -> NoValue

\* A value written as text is that value when the text is run (the comment on
\* deparse_atomic): the types of missing elements, the names, in whichever
\* place they are, and every other attribute, however the values are nested
\* and on however many lines the text is.
ValuesReadBack ==
    \A e \in Trees :
        LET v == IF e.k \in {"call", "binary"} THEN Value(e) ELSE NoValue
        IN  v.type # "none" => Value(value_as_expr(v)) = v
=============================================================================
