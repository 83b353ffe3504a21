------------------------------ MODULE MCSyntax ------------------------------
EXTENDS ValueText

A == Id("a")
String == [t |-> "str", n |-> "b"]
Special == [t |-> "special", n |-> "in"]
All(kinds) == {<<Tok(k)>> : k \in kinds}
Before(kinds) == {<<Tok(k), A>> : k \in kinds}
Open(head) == <<Id(head), Tok("(")>>
\* The arguments of a call, each with the comma or the parenthesis after it.
Listed(written) == {a \o <<Tok(t)>> : a \in written, t \in {",", ")"}}
Tagged(tag, name) == <<Id(tag), Tok("="), Id(name)>>

Digits(n) == [t |-> "num", n |-> n]
Const(n) == [t |-> "const", n |-> n]
Pair(x, y) == Open("c") \o x \o <<Tok(",")>> \o y \o <<Tok(")")>>
Vectors ==
    {Pair(<<Digits("1L")>>, <<Digits("2L")>>), Pair(<<Const("NA_integer_")>>, <<Const("NA")>>),
     Pair(<<Id("a"), Tok("="), Const("NA_character_")>>, <<Const("NA")>>),
     Open("integer") \o <<Digits("0"), Tok(")")>>}
Names == <<Tok(","), Id("names"), Tok("=")>> \o Pair(<<String>>, <<[t |-> "str", n |-> ""]>>) \o <<Tok(")")>>
MCLonger == {<<"al", "alpha">>, <<"al", "alps">>, <<"be", "beta">>}
MCSignatures == <<<<"alpha", "alps", "...", "beta">>, <<"alpha", "beta">>, <<"...", "alpha">>, <<"beta", "al", "alpha">>>>
MCWritten == <<Node("num", "1", <<>>), Node("binary", "+", <<Name("b"), Name("c")>>),
               Node("unary", "-", <<Name("b")>>), Node("call", "", <<Name("f"), Arg("a", Name("b"))>>)>>
MCIntegers == <<"1L", "2L", "3L">>
MCDoubles == <<"1", "2", "3">>
MCSpecials ==
    [name \in {"local", "with", "evalq", "delayedAssign", "quote", "missing", "substitute", "tryCatch", "try", "on.exit", "library", "rm"} |->
        CASE name = "local" -> <<"expr", "envir">> [] name = "with" -> <<"data", "expr", "...">>
          [] name = "evalq" -> <<"expr", "envir", "enclos">>
          [] name = "delayedAssign" -> <<"x", "value", "eval.env", "assign.env">>
          [] name = "missing" -> <<"x">> [] name = "quote" -> <<"expr">> [] name = "substitute" -> <<"expr", "env">>
          [] name = "tryCatch" -> <<"expr", "...", "finally">> [] name = "try" -> <<"expr", "silent", "outFile">>
          [] name = "on.exit" -> <<"expr", "add", "after">> [] name = "library" -> <<"package", "...">>
          [] name = "rm" -> <<"...", "list", "envir">>]

MCVocabulary ==
    [f \in {"arithmetic", "logic", "arrows", "branches", "calls", "subscripts", "loops",
            "functions", "heads", "matching", "special", "labels", "values"} |->
        CASE f = "arithmetic" ->
                {<<A>>, <<Special, A>>} \cup Before({"+", "-", "*", "^"}) \cup All({"!", "-", "^"})
          [] f = "logic" ->
                {<<A>>} \cup Before({"|", "&&", "==", "~", "<-", "=", "|>"}) \cup All({"!", "~"})
          [] f = "arrows" -> {<<A>>, <<Id("b")>>} \cup All({"->", "<-"})
          [] f = "branches" ->
                {Toks(<<"if", "(">>) \o <<A, Tok(")")>>, <<A>>, <<Newline>>}
                \cup All({"else", "{", "}", "(", ")"}) \cup Before({"-"})
          [] f = "calls" ->
                {<<A>>, Open("a"), <<A, Tok("=")>>, <<String, Tok("=")>>, Toks(<<"...", "=">>),
                 <<Tok("...")>>} \cup All({")", ",", "|>", "(", "$"})
          [] f = "subscripts" -> {<<A>>, <<A, Tok("=")>>, Toks(<<"$">>) \o <<String>>}
                                 \cup All({"[", "[[", "]", ",", "-"})
          [] f = "loops" ->
                {Toks(<<"for", "(">>) \o <<A, Tok("in")>>, Toks(<<"while", "(">>), <<A>>,
                 <<A, Tok(")")>>} \cup Before({"+"}) \cup All({"repeat", "break", "(", ")", "{", "}"})
          [] f = "functions" ->
                {Toks(<<"function", "(">>), <<A>>, <<A, Tok("=")>>, <<Tok("...")>>}
                \cup All({")", ",", "{", "}"})
          [] f = "heads" ->
                {Open("^"), Open("-"), Open("*"), <<A>>, <<A, Tok(",")>>, <<Tok(","), A, Tok(")")>>,
                 <<Tok(")")>>}
          [] f = "matching" ->
                {<<Tok(";")>> \o Open("f")} \cup
                Listed({<<Id("p")>>, <<Id("q")>>, Tagged("al", "r"), Tagged("alpha", "s"), Tagged("beta", "t"),
                        <<Tok("...")>>, <<>>})
          [] f = "special" ->
                {<<Tok(";")>> \o Open(name) \o (IF name = "delayedAssign" THEN <<Id("x"), Tok(",")>> ELSE <<>>) :
                    name \in DOMAIN MCSpecials \ {"library", "rm"}} \cup
                Listed({<<Id("p")>>, Tagged("expr", "q"), Tagged("envir", "r"), Tagged("value", "s"),
                        Tagged("finally", "t")})
          [] f = "labels" ->
                {<<Tok(";")>> \o Open(name) : name \in {"table", "cbind", "library", "rm"}} \cup
                Listed({<<A>>, Tagged("list", "b"), <<Tok("...")>>, <<Tok("-"), A>>, <<String>>})
          [] f = "values" ->
                {Open("structure"), Open("list"), Open("structure") \o Open("list"), Open("list") \o <<Id("a"), Tok("=")>>}
                \cup Listed(Vectors) \cup {v \o Names : v \in Vectors} \cup {v \o <<Tok(")")>> \o Names : v \in Vectors}]

MCLongest ==
    [f \in DOMAIN MCVocabulary |->
        CASE f \in {"arithmetic", "logic", "loops", "calls", "special", "labels"} -> 4 [] f = "values" -> 3
          [] f = "subscripts" -> 6 [] OTHER -> 5]
=============================================================================
