----------------------------- MODULE MCCompiled -----------------------------
(***************************************************************************)
(* Programs to compile and run.                                            *)
(***************************************************************************)
EXTENDS Compiled

n(v) == [k |-> "num", v |-> v]
str(c) == [k |-> "const", c |-> Vec("str", <<c>>)]
lgl(b) == [k |-> "const", c |-> Lgl(b)]
null == [k |-> "const", c |-> Null]
x(v) == [k |-> "id", n |-> v]
do(xs) == [k |-> "block", xs |-> xs]
paren(e) == [k |-> "paren", x |-> e]
minus(e) == [k |-> "neg", x |-> e]
bin(op, l, r) == [k |-> "bin", op |-> op, l |-> l, r |-> r]
both(op, l, r) == [k |-> "logic2", op |-> op, l |-> l, r |-> r]
at(o, i) == [k |-> "at", obj |-> o, i |-> i]
if(c, t, e) == [k |-> "if", c |-> c, t |-> t, e |-> e]
while(c, b) == [k |-> "while", c |-> c, b |-> b]
repeat(b) == [k |-> "repeat", b |-> b]
for(v, s, b) == [k |-> "for", var |-> v, seq |-> s, b |-> b]
break == [k |-> "break"]
next == [k |-> "next"]
set(t, v) == [k |-> "assign", to |-> t, v |-> v]
switch(e, names, vs) == [k |-> "switch", x |-> e,
                         bs |-> [j \in DOMAIN vs |-> [name |-> names[j], v |-> vs[j]]]]
call(f, e) == [k |-> "call", f |-> f, x |-> e]
cat(e) == call("cat", e)
try(b) == [k |-> "try", b |-> b]
to(a, b) == bin(":", a, b)

\* Loops over a range: forwards, backwards, to a variable, over a vector, one
\* in another, with the variable and the bound changed inside.
Ranges == {
    <<for("i", to(n(1), n(3)), cat(x("i"))), x("i")>>,
    <<for("i", to(n(2), n(0)), do(<<cat(x("i")), set(x("i"), n(9))>>)), x("i")>>,
    <<set(x("m"), n(2)), for("i", to(n(1), x("m")), do(<<set(x("m"), bin("+", x("m"), n(1))), cat(x("i"))>>)), x("m")>>,
    <<set(x("m"), n(0)), for("i", to(n(1), x("m")), cat(x("i"))), x("i")>>,
    <<set(x("v"), to(n(3), n(1))), for("i", x("v"), for("j", to(x("i"), n(2)), cat(bin("*", x("i"), x("j")))))>>,
    <<for("i", to(n(1), n(2)), for("i", to(n(3), n(4)), cat(x("i")))), x("i")>>,
    <<set(x("s"), n(0)), for("i", to(n(1), n(3)), for("j", to(n(1), n(2)), set(x("s"), bin("+", x("s"), x("j"))))), x("s")>>,
    <<for("i", call("length", to(n(1), n(3))), cat(x("i")))>>,
    <<for("i", to(n(1), n(2)), for("j", to(n(1), n(2)), do(<<if(bin("==", x("j"), n(2)), next, null), cat(x("i"))>>)))>>}

\* break and next, in branches, in conditions, in operands and outside loops.
Jumps == {
    <<set(x("i"), n(0)), repeat(do(<<set(x("i"), bin("+", x("i"), n(1))), if(bin("<", x("i"), n(2)), next, null), cat(x("i")), if(bin("==", x("i"), n(3)), break, null)>>)), x("i")>>,
    <<for("i", to(n(1), n(3)), do(<<if(bin("==", x("i"), n(2)), next, None), cat(x("i"))>>))>>,
    <<for("i", to(n(1), n(3)), set(x("y"), bin("+", n(1), if(bin("==", x("i"), n(2)), next, x("i"))))), x("y")>>,
    <<set(x("a"), n(0)), while(if(bin("<", x("a"), n(2)), lgl(1), break), set(x("a"), bin("+", x("a"), n(1)))), x("a")>>,
    <<cat(n(1)), break, cat(n(2))>>,
    <<if(bin("<", n(2), n(1)), break, cat(n(2))), if(lgl(0), next, None)>>,
    <<for("i", to(n(1), n(2)), while(lgl(1), do(<<cat(x("i")), break>>)))>>,
    <<for("i", to(n(1), n(3)), switch(x("i"), <<"", "", "">>, <<next, cat(x("i")), break>>)), x("i")>>}

\* Lazy bodies: errors stop at try, jumps in them reach the loop around them.
Lazies == {
    <<try(cat(x("no"))), cat(n(1))>>,
    <<for("i", to(n(1), n(3)), do(<<try(if(bin("==", x("i"), n(2)), next, null)), cat(x("i"))>>))>>,
    <<for("i", to(n(1), n(3)), do(<<set(x("r"), try(do(<<if(bin("==", x("i"), n(2)), break, x("i"))>>))), cat(x("r"))>>)), x("r")>>,
    <<for("i", to(n(1), n(2)), try(for("j", to(n(1), n(2)), if(bin("==", x("j"), n(1)), next, cat(x("j"))))))>>,
    <<for("i", to(n(1), n(2)), do(<<try(try(if(bin("==", x("i"), n(1)), next, null))), cat(x("i"))>>))>>,
    <<try(break), try(set(x("y"), x("no"))), set(x("y"), n(1)), x("y")>>,
    <<repeat(do(<<try(do(<<cat(n(1)), break>>)), cat(n(2))>>))>>}

\* Values: && and ||, switch, what is echoed, complex assignment.
Values == {
    <<both("&&", lgl(NA), lgl(0)), both("&&", lgl(0), cat(n(1))), both("||", lgl(NA), x("no"))>>,
    <<both("||", lgl(0), bin("<", n(1), n(2))), both("||", lgl(1), cat(n(1))), both("&&", to(n(1), n(2)), lgl(1))>>,
    <<switch(str("b"), <<"a", "b", "c", "">>, <<cat(n(1)), None, cat(n(2)), n(4)>>), switch(str("z"), <<"a", "">>, <<cat(n(1)), n(4)>>),
      switch(n(3), <<"a", "b">>, <<n(1), n(2)>>), switch(n(2), <<"a", "b">>, <<n(7), None>>)>>,
    <<do(<<set(x("a"), n(1)), n(3)>>), do(<<>>), paren(set(x("a"), n(5))), set(x("b"), set(x("c"), n(2))), x("b")>>,
    <<if(lgl(0), n(1), None), if(lgl(1), do(<<set(x("a"), n(1)), x("a")>>), None), if(lgl(NA), n(1), n(2)), cat(n(9))>>,
    <<set(x("v"), to(n(1), n(3))), set(at(x("v"), do(<<cat(n(7)), n(2)>>)), do(<<cat(n(8)), n(9)>>)), x("v")>>,
    <<set(x("v"), to(n(1), n(3))), set(at(call("rev", x("v")), n(1)), n(8)), x("v"), set(call("rev", x("v")), to(n(4), n(6))), x("v")>>,
    <<set(x("v"), to(n(1), n(2))), set(at(at(x("v"), n(2)), n(1)), n(5)), set(at(x("v"), n(4)), minus(n(1))), cat(n(1))>>,
    <<set(x("w"), bin("+", to(n(1), n(3)), n(1))), at(x("w"), n(2)), bin("-", x("w"), n(1)), cat(minus(x("w")))>>}

Correct == Ranges \cup Jumps \cup Lazies \cup Values
=============================================================================
