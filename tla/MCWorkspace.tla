----------------------------- MODULE MCWorkspace -----------------------------
EXTENDS Workspace

Half == <<1, 2>>
VectorStarts ==
    <<Named(Ints(<<3, 1, 3>>), <<"a", "b", "a">>), Ints(<<2, NA, 2>>), Ints(<<>>),
     Dbls(<<NaN, Half, Inf>>), Named(Strs(<<"b", "2", NA>>), <<"z", "lo", "z">>),
     mk_factor(<<2, NA, 1>>, <<"a", "b", "c">>, FALSE), mk_factor(<<1, 2>>, <<"lo", "b">>, TRUE),
     Named(Lists(<<Ints(<<1, 2>>), Strs(<<"a">>), Null>>), <<"a", "b", "lo">>)>>
VectorPartners ==
    <<Ints(<<-2, NA, 0>>), Dbls(<<Half>>), mk_factor(<<1, 2, NA>>, <<"b", "2">>, FALSE)>>
AllOperators == {"+", "-", "*", "/", "^", "%%", "%/%", "<", ":"}
VectorFunctions ==
    (Rearrangements \cup Measures \cup Conversions \cup Labellings \cup Mappings)
        \ {"sort decreasing", "rep each", "head", "round", "trunc"}

\* A matrix with labels on both margins, headed; one with a missing cell and
\* labels on one; an array of three margins; a vector of doubles.
ArrayStarts ==
    <<[Ints(<<1, 2, 3, 4>>) EXCEPT !.dim = <<2, 2>>, !.dn = <<<<"a", "b">>, <<"c", "z">>>>, !.dnn = <<"lo", "">>],
      [Ints(<<1, NA, 3, 0, 2, 2>>) EXCEPT !.dim = <<3, 2>>, !.dn = <<<<"a", "b", "c">>, <<>>>>],
      [Ints(<<1, 2, 3, 4, 5, 6, 7, 0>>) EXCEPT !.dim = <<2, 2, 2>>, !.dn = <<<<"a", "b">>, <<>>, <<"c", "z">>>>],
      [Dbls(<<Half, Whole(2), Whole(-1)>>) EXCEPT !.dim = <<1, 3>>], Named(Dbls(<<Half, Whole(3)>>), <<"a", "b">>),
      Lgls(<<1, 0, 1>>)>>
ArrayPartners ==
    <<Ints(<<2>>), Ints(<<1, 0>>), [Ints(<<1, 2, 0, 1>>) EXCEPT !.dim = <<2, 2>>, !.dn = <<<<>>, <<"b", "c">>>>],
      [Dbls(<<Half, Whole(-1)>>) EXCEPT !.dim = <<2, 1>>]>>
ArrayOperators == {"+", "*", "%/%", "<"}
ArrayFunctions == Arrangements \cup {"dim", "no dim", "rownames", "dimnames", "is.na", "as.numeric", "table", "unique", "tail", "unlist", "sapply"}
=============================================================================
