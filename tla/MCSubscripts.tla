----------------------------- MODULE MCSubscripts -----------------------------
EXTENDS Subscripts

Matrix(v, rows, cols) == [v EXCEPT !.dim = <<rows, cols>>]
Plain == Ints(<<1, 2, 3>>)
Flags == Named(Lgls(<<1, 0>>), <<"a", "b">>)
Pair == Named(List(<<Ints(<<1>>), Named(Ints(<<2, 3>>), <<"a", "b">>)>>), <<"a", "b">>)
Square == [Matrix(Ints(<<1, 2, 3, 4>>), 2, 2) EXCEPT !.dimnames = <<<<"a", "b">>, <<"a", "c">>>>]
Table == [Ints(<<1, 2>>) EXCEPT !.dim = <<2>>, !.dimnames = <<<<"a", "b">>>>]
Factor == [V("Int", <<<<"int", 1>>, NA, <<"int", 2>>>>) EXCEPT !.levels = <<"1", "2", "3">>]
MCStarts == {NULL, Plain, Flags, Pair, List(<<Ints(<<1>>), NULL>>), Square, Table, Factor}

Lists == {v \in MCStarts : v.kind = "List"} \cup {List(<<Ints(<<1>>), NULL>>)}
MCValues ==
    MCStarts \cup Lists \cup {NULL, Ints(<<7>>), Strs(<<"2">>), Strs(<<"x">>), Ints(<<1, 2>>), Lgls(<<0, 1, 1>>)}
    \cup UNION {{Unbox(e) : e \in ToSet(l.data)} : l \in Lists}

Holed == V("Int", <<<<"int", 2>>, NA>>)
Coordinates == Matrix(Ints(<<1, 2, 2, 1>>), 2, 2)
Read(how, args, drop) == [how |-> how, args |-> args, drop |-> drop]
MCReads ==
    {Read("single", a, "") : a \in {<<Ints(<<3, 1>>)>>, <<Holed>>, <<Lgls(<<1, 0>>)>>,
        <<Strs(<<"b", "z">>)>>, <<Missing, Ints(<<2>>)>>, <<Ints(<<-1>>), Missing>>,
        <<Strs(<<"b">>), Missing>>, <<Coordinates>>}}
    \cup {Read("single", <<Ints(<<0, 2>>)>>, "TRUE"), Read("single", <<Ints(<<1>>)>>, "FALSE"),
          Read("single", <<Missing, Ints(<<2>>)>>, "FALSE"),
          Read("double", <<Ints(<<2>>)>>, ""), Read("double", <<Strs(<<"b", "a">>)>>, ""),
          Read("double", <<Strs(<<"z">>)>>, ""), Read("dollar", <<Strs(<<"b">>)>>, "")}

Write(args, value, single) == [args |-> args, value |-> value, single |-> single]
MCWrites ==
    {Write(a, v, FALSE) : a \in {<<Ints(<<2>>)>>, <<Ints(<<5, 1>>)>>, <<Ints(<<2, 2>>)>>, <<Holed>>,
        <<Ints(<<-1>>)>>, <<Lgls(<<1, 0, 1>>)>>, <<Strs(<<"b", "z">>)>>, <<Strs(<<"z", "z">>)>>,
        <<Missing>>, <<Ints(<<1>>), Missing>>, <<Coordinates>>},
        v \in {NULL, Ints(<<7>>), Strs(<<"2">>), Ints(<<1, 2>>), Lgls(<<0, 1, 1>>),
               List(<<Ints(<<1>>), NULL>>)}}
    \cup {Write(a, v, TRUE) : a \in {<<Ints(<<2>>)>>, <<Ints(<<4>>)>>, <<Ints(<<-1>>)>>,
        <<Strs(<<"z">>)>>, <<Strs(<<"b", "a">>)>>, <<Ints(<<2>>), Ints(<<-2>>)>>},
        v \in {NULL, Ints(<<7>>), Strs(<<"x">>), Ints(<<1, 2>>)}}
=============================================================================
