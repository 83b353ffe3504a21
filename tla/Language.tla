------------------------------ MODULE Language ------------------------------
(***************************************************************************)
(* Calls as data: the parts of a call and the call of some parts, quoting, *)
(* substitution and bquote, the matching of arguments to formals, and what *)
(* the compiler makes of the calls whose arguments are not all values.     *)
(* A constant is the literal that writes it; a tag that is not there is "".*)
(***************************************************************************)
EXTENDS Syntax, Matching

CONSTANTS
    Primitives   \* the functions R implements as primitives

Pairs(names, values) == [i \in DOMAIN names |-> <<names[i], values[i]>>]
Tags(actuals) == [i \in DOMAIN actuals |-> actuals[i].s]
Values(actuals) == [i \in DOMAIN actuals |-> actuals[i].a[1]]
Name(n) == Node("id", n, <<>>)
Call(fun, actuals) == Node("call", "", <<fun>> \o actuals)
Fun(call) == call.a[1]
Args(call) == Tail(call.a)
Failed == Node("error", "", <<>>)
First(pairs, n) == FirstOf({i \in DOMAIN pairs : pairs[i][1] = n})
\* The first argument with a tag, or with none.
FirstTagged(actuals, tag) == FirstOf({i \in DOMAIN actuals : actuals[i].s = tag})

-----------------------------------------------------------------------------
(***************************************************************************)
(* A call taken apart and put together.  A part is <<tag, tree>>.          *)
(***************************************************************************)
lang_len(e) ==
    CASE e.k \in {"call", "[", "[[", "$", "@"} ->
            Len(e.a) + (IF e.k = "call" THEN 0 ELSE 1)
      [] e.k \in {"binary", "special", "assign", "while"} -> 3
      [] e.k \in {"unary", "paren", "repeat"} -> 2
      [] e.k = "block" -> 1 + Len(e.a)
      [] e.k = "if" -> 3 + (IF e.a[3] = None THEN 0 ELSE 1)
      [] e.k = "for" -> 4
      [] OTHER -> 1

\* A name after `$` or `@` is the name and not its text.
subscript_part(e, x) == <<x.s, IF e.k \in {"$", "@"} /\ x.a[1].k = "str" THEN Name(x.a[1].s) ELSE x.a[1]>>
\* A mutant of subscript_parts: a subscript that is left out is dropped.
NoEmptyParts(e) ==
    LET there == SelectSeq(Tail(e.a), LAMBDA x : x.a[1] # None)
    IN  [i \in DOMAIN there |-> subscript_part(e, there[i])]
subscript_parts(e) == [i \in 1 .. Len(e.a) - 1 |-> subscript_part(e, e.a[i + 1])]

lang_parts(e) ==
    LET headed(head, xs) == <<<<"", Name(head)>>>> \o [i \in DOMAIN xs |-> <<"", xs[i]>>]
        spelled == IF e.s \in Range(SpecialNamed) THEN CHOOSE h \in DOMAIN SpecialNamed : SpecialNamed[h] = e.s
                   ELSE e.s
    IN  CASE e.k = "call" -> <<<<"", Fun(e)>>>> \o Pairs(Tags(Args(e)), Values(Args(e)))
          [] e.k \in {"binary", "unary", "assign"} -> headed(e.s, e.a)
          [] e.k = "special" -> headed(spelled, e.a)
          [] e.k = "paren" -> headed("(", e.a)
          [] e.k = "block" -> headed("{", e.a)
          [] e.k \in {"if", "while", "repeat"} -> headed(e.k, SelectSeq(e.a, LAMBDA x : x # None))
          [] e.k = "for" -> headed("for", <<Name(e.s)>> \o e.a)
          [] e.k \in {"[", "[[", "$", "@"} ->
                headed(e.k, <<e.a[1]>>) \o subscript_parts(e)
          [] OTHER -> <<<<"", e>>>>

call_from_parts(parts) ==
    IF parts = <<>> \/ parts[1][2] = None THEN Failed
    ELSE call_syntax(parts[1][2], [i \in 1 .. Len(parts) - 1 |-> Arg(parts[i + 1][1], parts[i + 1][2])])

\* as.character of a call: the name itself, or the text of every part.
lang_text(e) == IF e.k = "id" THEN <<<<Id(e.s)>>>>
                ELSE LET written(parts) ==
                             [i \in DOMAIN parts |-> IF parts[i][2] = None THEN <<>> ELSE deparse_lines(parts[i][2])]
                     IN  written(lang_parts(e))
\* The list of the parts, with names only when a part has a tag.
lang_as_list(e) ==
    LET list(parts) == [items |-> [i \in DOMAIN parts |-> parts[i][2]],
                        names |-> IF \A i \in DOMAIN parts : parts[i][1] = "" THEN <<>>
                                  ELSE [i \in DOMAIN parts |-> parts[i][1]]]
    IN  list(lang_parts(e))
list_as_call(list) ==
    call_from_parts([i \in DOMAIN list.items |->
                        <<IF list.names = <<>> THEN "" ELSE list.names[i], list.items[i]>>])
\* e[positions] and e[[i]] <- value of a call go by the list of its parts.
lang_index(e, positions) ==
    LET at(s) == [k \in DOMAIN positions |-> s[positions[k]]]
        picked(list) == [items |-> at(list.items), names |-> IF list.names = <<>> THEN <<>> ELSE at(list.names)]
    IN  list_as_call(picked(lang_as_list(e)))
lang_get(e, i) == lang_parts(e)[i][2]
\* call(name, ...), whose values are parts, and as.call(x).
built_call(name, values) == call_from_parts(<<<<"", Name(name)>>>> \o values)
as_call(x) == CASE "items" \notin DOMAIN x -> x
                [] "items" \in DOMAIN x /\ x.items # <<>> -> list_as_call(x)
                [] OTHER -> Failed
lang_assign(e, i, value) == list_as_call([lang_as_list(e) EXCEPT !.items[i] = value])

-----------------------------------------------------------------------------
(***************************************************************************)
(* The matching of arguments to formals (Matching), by those who use it.   *)
(***************************************************************************)
Placed(formals, actuals) == match_positions(formals, Tags(actuals))
Leftover(actuals, to) ==
    LET left(at) == [k \in DOMAIN at |-> actuals[at[k]]]
    IN  left(SelectSeq([a \in DOMAIN to |-> a], LAMBDA a : to[a] = 0))
\* The arguments that go to formals, in the order of the formals, as <<formal, tree>>.
Matched(formals, actuals, to) ==
    LET pairs(supplied) == [k \in DOMAIN supplied |->
            <<formals[supplied[k]], actuals[FirstOf({a \in DOMAIN to : to[a] = supplied[k]})].a[1]>>]
    IN  pairs(SelectSeq([p \in DOMAIN formals |-> p], LAMBDA p : formals[p] # "..." /\ p \in ToSet(to)))

\* The frame of a call: the formals that are bound, and what `...` holds; an
\* empty argument leaves its formal unbound.
match_args(formals, actuals) ==
    LET frame(m, bound, left) == [ok |-> m.ok /\ (left = <<>> \/ Contains(formals, "...")),
                                  bound |-> SelectSeq(bound, LAMBDA b : b[2] # None), dots |-> left]
        of(m) == frame(m, Matched(formals, actuals, m.to), Leftover(actuals, m.to))
    IN  of(Placed(formals, actuals))

matched_call(e, formals) ==
    LET placed(named, left) == [k \in DOMAIN named |-> Arg(named[k][1], named[k][2])] \o left
        of(m) == IF ~m.ok THEN Failed
                 ELSE Call(Fun(e), placed(Matched(formals, Args(e), m.to), Leftover(Args(e), m.to)))
    IN  IF e.k # "call" THEN Failed ELSE of(Placed(formals, Args(e)))

\* match.call() in a frame; a call that is not written as one is itself.
match_call(e, formals) == IF e.k # "call" THEN e ELSE matched_call(e, formals)

\* A primitive's own access to its arguments: by name, else the i-th untagged.
get(actuals, i, name) ==
    LET tagged == SelectSeq(actuals, LAMBDA x : x.s = name)
        untagged == SelectSeq(actuals, LAMBDA x : x.s = "")
    IN  IF tagged # <<>> THEN tagged[1].a[1]
        ELSE IF i \in DOMAIN untagged THEN untagged[i].a[1] ELSE None
rest(actuals, i) ==
    LET untagged(k) == Cardinality({j \in 1 .. k : actuals[j].s = ""})
        kept == SelectSeq([k \in DOMAIN actuals |-> k], LAMBDA k : actuals[k].s # "" \/ untagged(k) > i)
    IN  [k \in DOMAIN kept |-> actuals[kept[k]]]

(***************************************************************************)
(* missing().  A frame is [caller, formals, bound, defaulted]: the frame   *)
(* its arguments were written in, 0 for none, and as <<formal, tree>> the  *)
(* promises the call and the defaults made, which nothing has forced yet.  *)
(***************************************************************************)
promise_of(frame, name) ==
    LET at(all, i) == IF i = 0 THEN None ELSE all[i][2]
        in(all) == at(all, First(all, name))
    IN  in(frame.bound \o frame.defaulted)
\* The frame a promise of the name `name` reads, when it is just a name.
promise_env(frames, k, name) == IF First(frames[k].bound, name) # 0 THEN frames[k].caller ELSE k
unsupplied_formal(frame, name) == promise_of(frame, name) = None /\ Contains(frame.formals, name)

RECURSIVE is_missing_in(_, _, _)
is_missing_in(frames, k, name) ==
    LET e == promise_of(frames[k], name)
    IN  /\ k # 0
        /\ \/ unsupplied_formal(frames[k], name)
           \/ e.k = "id" /\ LET at == promise_env(frames, k, name)
                            IN  (e.s = name /\ at = k) \/ is_missing_in(frames, at, e.s)
missing(frames, name) ==
    LET k == Len(frames)
        e == promise_of(frames[k], name)
    IN  \/ e = None \/ First(frames[k].defaulted, name) # 0
        \/ e.k = "id" /\ is_missing_in(frames, promise_env(frames, k, name), e.s)

\* match.arg(arg, choices): the choices each element names or alone begins.
pmatch(x, choices) ==
    LET begun == {i \in DOMAIN choices : starts_with(choices[i], x)}
    IN  CASE Contains(choices, x) -> SelectInSeq(choices, LAMBDA c : c = x)
          [] ~Contains(choices, x) /\ Cardinality(begun) = 1 -> Min(begun)
          [] OTHER -> 0
match_arg(arg, choices, several_ok) ==
    LET hits == [i \in DOMAIN arg |-> pmatch(arg[i], choices)]
        found == SelectSeq(hits, LAMBDA h : h # 0)
    IN  CASE ~several_ok /\ arg = choices -> SubSeq(arg, 1, 1)
          [] ~several_ok /\ arg # choices /\ Len(arg) # 1 -> <<>>
          [] OTHER -> [k \in DOMAIN found |-> choices[found[k]]]

\* The formals of a closure are read back from its source, and so is its body.
one_tree(r) == IF r.ok /\ Len(r.e.a) = 1 THEN r.e.a[1] ELSE Failed
reparsed(src) == one_tree(parse(src))
closure_params(src) == LET of(f) == IF f.k = "function" THEN Args(f) ELSE <<>> IN of(reparsed(src))
formals_list(src) == LET of(ps) == Pairs(Tags(ps), Values(ps)) IN of(closure_params(src))
body(src) == LET of(f) == IF f.k = "function" THEN f.a[1] ELSE Failed IN of(reparsed(src))
\* The choices match.arg has when it is given none: the default of the formal
\* its first argument names.
default_choices(call, src) ==
    LET tagged == SelectSeq(Args(call), LAMBDA x : x.s = "arg")
        written == tagged \o SelectSeq(Args(call), LAMBDA x : x.s = "")
        default(list, at) == IF at = 0 THEN Failed ELSE list[at][2]
        of(list) == default(list, First(list, written[1].a[1].s))
    IN  IF written = <<>> \/ written[1].a[1].k # "id" THEN Failed ELSE of(formals_list(src))

-----------------------------------------------------------------------------
(***************************************************************************)
(* substitute() and bquote().  A table is a sequence of <<name, tree>>.    *)
(***************************************************************************)
frame_substitutions(formals, call) ==
    LET with(bound, dots) == bound \o (IF dots = <<>> THEN <<>> ELSE <<<<"...", Call(Name("..."), dots)>>>>)
        of(frame) == with(frame.bound, frame.dots)
    IN  of(match_args(formals, Args(call)))

RECURSIVE substitute_in(_, _)
substitute_args(actuals, map) ==
    LET dots == First(map, "...")
        one(x) == CASE x.a[1].k = "..." -> IF dots = 0 THEN <<x>> ELSE Args(map[dots][2])
                    [] x.a[1] = None -> <<x>>
                    [] OTHER -> <<Arg(x.s, substitute_in(x.a[1], map))>>
    IN  FlattenSeq([i \in DOMAIN actuals |-> one(actuals[i])])
Walked == {"binary", "special", "unary", "paren", "block", "if"}
substitute_in(e, map) ==
    LET at == First(map, e.s)
    IN  CASE e.k = "id" -> IF at = 0 THEN e ELSE map[at][2]
          [] e.k \in {"call", "[", "[[", "$", "@"} ->
                [e EXCEPT !.a = <<substitute_in(e.a[1], map)>> \o substitute_args(Tail(e.a), map)]
          [] e.k \in Walked -> [e EXCEPT !.a = [i \in DOMAIN e.a |-> substitute_in(e.a[i], map)]]
          [] OTHER -> e

\* substitute() of a text, by the table it is given or the one of its frame.
rlang_substitute(src, table) ==
    LET of(e) == IF e = Failed THEN Failed ELSE substitute_in(e, table) IN of(reparsed(src))

\* values: what the names in .() are worth, as trees.
RECURSIVE bquote_in(_, _)
bquote_in(e, values) ==
    LET parts == [e EXCEPT !.a = [i \in DOMAIN e.a |-> bquote_in(e.a[i], values)]]
        spliced == e.k = "call" /\ Fun(e) = Name(".") /\ Tags(Args(e)) = <<"">> /\ Values(Args(e))[1] # None
    IN  CASE spliced -> values[First(values, Values(Args(e))[1].s)][2]
          [] e.k \in Walked \cup {"call", "arg", "assign", "[", "[[", "$", "@"} -> parts
          [] OTHER -> e

-----------------------------------------------------------------------------
(***************************************************************************)
(* The calls the compiler lowers itself, where names are not slots.  Each  *)
(* argument is handed over in some way: "now", evaluated before the call;  *)
(* "promise", as a closure forced when read; "lazy", as the closure of a   *)
(* lazy body; "thunk", as a closure called at once; "text", as the source  *)
(* that is parsed back; "name", as its own name; "label", made up from the *)
(* arguments as they are written.                                          *)
(***************************************************************************)
Way(how, tag, e) == [how |-> how, tag |-> tag, e |-> e]
Lowered(fun, actuals) == [fun |-> fun, args |-> actuals]
makes_context(name) == name \notin Primitives
is_literal(e) == e.k \in {"num", "str", "const"}
reread(e) == reparsed(deparse_lines(e))
quoted(e) == Way("text", "", reread(e))

BodyTags(name) ==
    CASE name \in {"tryCatch", "withCallingHandlers"} -> {"expr", "finally"}
      [] name \in {"try", "on.exit", "withRestarts", "suppressWarnings", "suppressMessages",
                   "suppressPackageStartupMessages"} -> {"expr"}
      [] OTHER -> {}

\* A mutant of thunk_lazy_args: the body is looked for at the first place only.
FirstIsTheBody(name, actuals) ==
    LET body_at(i) == /\ BodyTags(name) # {} /\ ~Contains(Values(actuals), None)
                      /\ actuals[i].s \in BodyTags(name) \/ (i = 1 /\ actuals[i].s = "")
                      /\ actuals[i].a[1].k # "..."
    IN  [i \in DOMAIN actuals |-> Way(IF body_at(i) THEN "lazy" ELSE "now", actuals[i].s, actuals[i].a[1])]

\* The bodies are the tagged ones and the first argument without a tag; an
\* empty argument leaves the call to the eager path.
thunk_lazy_args(name, actuals) ==
    LET body_at(i) == /\ BodyTags(name) # {} /\ ~Contains(Values(actuals), None)
                      /\ actuals[i].s \in BodyTags(name) \/ i = FirstTagged(actuals, "")
                      /\ actuals[i].a[1].k # "..."
    IN  [i \in DOMAIN actuals |-> Way(IF body_at(i) THEN "lazy" ELSE "now", actuals[i].s, actuals[i].a[1])]

\* The names library() and rm() take unevaluated.
nse_names(name, ways) ==
    LET by_name(i) == \/ name \in {"library", "require", "requireNamespace", "loadNamespace"} /\ i = 1
                      \/ name \in {"rm", "remove"} /\ ways[i].tag = ""
    IN  [i \in DOMAIN ways |-> IF by_name(i) /\ ways[i].e.k = "id" THEN [ways[i] EXCEPT !.how = "name"]
                               ELSE ways[i]]

promise_args(name, ways) ==
    LET deferred(w) == /\ makes_context(name) /\ w.how = "now" /\ w.e # None
                       /\ w.e.k # "..." /\ ~is_literal(w.e)
    IN  [i \in DOMAIN ways |-> IF deferred(ways[i]) THEN [ways[i] EXCEPT !.how = "promise"] ELSE ways[i]]

Symbol(e) == IF e.k = "id" THEN Node("str", e.s, <<>>) ELSE Node("const", "NA", <<>>)
\* table's dimension names, and the labels of cbind and rbind.
table_dnn(actuals) ==
    LET names == SelectSeq(actuals, LAMBDA x : x.s = "")
        dnn == [i \in DOMAIN names |-> Arg("", IF names[i].a[1].k = "id" THEN Symbol(names[i].a[1])
                                               ELSE Node("str", "", <<>>))]
    IN  CASE Len(dnn) = 1 -> IF dnn[1].a[1].s = "" THEN <<>> ELSE <<Way("label", ".dnn", dnn[1].a[1])>>
          [] OTHER -> <<Way("label", ".dnn", Call(Name("c"), dnn))>>
bind_labels(actuals) ==
    LET labels(of(_)) == Call(Name("c"), [i \in DOMAIN actuals |-> Arg("", of(actuals[i].a[1]))])
    IN  IF actuals = <<>> \/ Contains(Values(actuals), None) THEN <<>>
        ELSE <<Way("label", ".deparse.sym", labels(Symbol)),
               Way("label", ".deparse.txt", labels(LAMBDA e : Node("text", "", deparse_lines(e))))>>
Labels(name, actuals) ==
    IF \E i \in DOMAIN actuals : actuals[i].a[1].k = "..." THEN <<>>
    ELSE CASE name = "table" -> table_dnn(actuals)
           [] name \in {"cbind", "rbind"} -> bind_labels(actuals)
           [] OTHER -> <<>>

plain_call(name, actuals) ==
    Lowered(name, promise_args(name, nse_names(name, thunk_lazy_args(name, actuals))) \o Labels(name, actuals))

\* local(expr, envir), with(data, expr) and evalq(expr, envir): eval of the
\* expression as text.
Given(actuals) == [i \in DOMAIN actuals |-> Way("now", actuals[i].s, actuals[i].a[1])]
eval_in(e, actuals) == Lowered("eval", <<quoted(e)>> \o promise_args("eval", Given(actuals)))
local_expr_at(actuals) ==
    IF FirstTagged(actuals, "expr") # 0 THEN FirstTagged(actuals, "expr")
    ELSE IF FirstTagged(actuals, "envir") = 1 THEN 2 ELSE 1
\* What eval is given of local, with and evalq: the expression and the rest.
eval_parts(name, actuals) ==
    LET at == CASE name = "local" -> local_expr_at(actuals) [] name = "with" -> 2 [] OTHER -> 1
    IN  <<actuals[at].a[1], <<Arg("", actuals[3 - at].a[1])>> \o SubSeq(actuals, 3, Len(actuals))>>

\* Arguments picked one after the other, by tag or as the first untagged.
Pick(actuals, tag) ==
    IF FirstTagged(actuals, tag) # 0 THEN FirstTagged(actuals, tag) ELSE FirstTagged(actuals, "")
\* s.took has what the tags picked, None for nothing; s.left what is left.
PickNext(s, tag) ==
    LET of(at) == IF at = 0 THEN [s EXCEPT !.took = Append(@, None)]
                  ELSE [took |-> Append(s.took, s.left[at]), left |-> RemoveAt(s.left, at)]
    IN  of(Pick(s.left, tag))
delayedAssign(actuals) ==
    LET made(x, value, env) ==
            IF None \in {x, value} \/ value.a[1] = None THEN plain_call("delayedAssign", actuals)
            ELSE Lowered("assign", promise_args("assign", Given(<<Arg("", x.a[1])>>))
                     \o <<Way("promise", "", value.a[1])>>
                     \o promise_args("assign", Given(IF env = None THEN <<>> ELSE <<Arg("envir", env.a[1])>>)))
        of(s) == made(s.took[1], s.took[2], s.took[4])
    IN  of(FoldLeft(PickNext, [took |-> <<>>, left |-> actuals], <<"x", "value", "eval.env", "assign.env">>))

\* The calls that take their argument for what is written.
lowered_written(call) ==
    LET name == Fun(call).s
        v == Values(Args(call))
    IN  CASE name = "missing" /\ Len(v) = 1 /\ v[1].k = "id" -> Lowered("missing", <<Way("name", "", v[1])>>)
          [] /\ name \in {"quote", "bquote", "substitute"} /\ v # <<>> /\ v[1] # None
             /\ name = "substitute" \/ Len(v) = 1 ->
                Lowered(IF name = "substitute" THEN ".rlang_substitute" ELSE ".rlang_quote",
                        <<quoted(v[1])>> \o Given(Tail(Args(call))))
          [] OTHER -> plain_call(name, Args(call))

\* call_expr, for a call of a name.
lowered(call) ==
    LET name == Fun(call).s
        actuals == Args(call)
        n == Len(actuals)
        v == Values(actuals)
        evaluates == CASE name = "local" -> n = 2 /\ None \notin ToSet(v) [] name = "with" -> n >= 2 /\ v[2] # None
                       [] name = "evalq" -> n >= 2 /\ v[1] # None [] OTHER -> FALSE
        evaluated(parts) == eval_in(parts[1], parts[2])
    IN  CASE name = "local" /\ n = 1 /\ v[1] # None -> Lowered("", <<Way("thunk", "", v[1])>>)
          [] evaluates -> evaluated(eval_parts(name, actuals))
          [] name = "delayedAssign" /\ n >= 2 -> delayedAssign(actuals)
          [] OTHER -> lowered_written(call)

-----------------------------------------------------------------------------
(***************************************************************************)
(* Properties of every program typed.                                      *)
(***************************************************************************)
CONSTANTS
    Signatures,  \* the formals that calls of `f` are matched to, in a sequence
    Written,     \* the trees that take the place of the name `a`
    Specials     \* the formals R gives the functions lowered in a way of their own

Trees == IF program.ok THEN UNION {Subtrees(program.e.a[i]) : i \in DOMAIN program.e.a} ELSE {}
Compound == {"call", "binary", "special", "unary", "paren", "block", "if", "while", "repeat", "for",
             "assign", "[", "[[", "$", "@"}

\* A tree as built parses back from what is written of it, but for the
\* parentheses that have to be added.
Survives(e) == LET back(r) == r # Failed /\ Bare(r) = Bare(e) IN back(reread(e))
Dotted(e) == substitute_in(e, <<<<"a", Call(Name("."), <<Arg("", Name("a"))>>)>>>>)
\* Where substitute goes, and the deparser has parentheses to give.
Substitutable(e) ==
    \A x \in Subtrees(e) : x.k \in Walked \cup {"call", "[", "[[", "$", "@", "arg", "none"} \cup Literals
                           /\ (x.k = "call" => Fun(x).k = "id" /\ Fun(x).s # "a")
\* A call is the list of its parts: what it is taken apart into, by whichever
\* of the ways, makes the same call again; a call written with quoted heads is
\* the node its syntax has (ast.rs 178-189); what substitute and bquote put
\* into it is one tree, which the text that eval runs still is; and a closure's
\* formals, body and choices are read back from its text as they were written.
CallsAreTheSyntax ==
    /\ HeadsAreTheSyntax
    /\ \A e \in Trees : e.k \in Compound =>
          LET taken(n, parts) ==
                  /\ n = Len(parts)
                  /\ parts[1][2].k = "id" => built_call(parts[1][2].s, Tail(parts)) = e
                  /\ Len(lang_text(e)) = n
                  /\ lang_index(e, [i \in 1 .. n |-> i]) = e
                  /\ \A i \in 1 .. n : lang_assign(e, i, lang_get(e, i)) = e
          IN  as_call(lang_as_list(e)) = e /\ as_call(e) = e /\ taken(lang_len(e), lang_parts(e))
    /\ \A e \in Trees : (e.k \in Compound /\ Name("a") \in Subtrees(e) /\ Substitutable(e)) =>
          \A i \in DOMAIN Written :
              \A r \in {rlang_substitute(deparse_lines(e), <<<<"a", Written[i]>>>>)} :
                  Survives(r) /\ Bare(bquote_in(Dotted(e), <<<<"a", Written[i]>>>>)) = Bare(r)
    /\ \A f \in Trees : f.k = "function" =>
          LET src == deparse_lines(f)
              asked(p) == Call(Name("match.arg"), <<Arg("several.ok", Node("const", "TRUE", <<>>)), Arg("", Name(p))>>)
          IN  /\ body(src) = f.a[1]
              /\ formals_list(src) = Pairs(Tags(Args(f)), Values(Args(f)))
              /\ \A i \in DOMAIN Args(f) :
                    default_choices(asked(Args(f)[i].s), src)
                      = Args(f)[FirstTagged(Args(f), Args(f)[i].s)].a[1]

\* What missing() answers where a formal was passed on: whether going from name
\* to name, in the frame each was written in, comes to one that was left out.
\* Here `g`'s x is a formal of `f`, and `f`'s last formal is by default its first.
Forwarded(frame, formals) ==
    LET last == Last(formals)
        f == [caller |-> 0, formals |-> formals, bound |-> frame.bound,
              defaulted |-> IF First(frame.bound, last) # 0 THEN <<>> ELSE <<<<last, Name(formals[1])>>>>]
        called(e) == <<f, [caller |-> 1, formals |-> <<"x">>, bound |-> <<<<"x", e>>>>, defaulted |-> <<>>]>>
        left_out == {p \in ToSet(formals) : First(frame.bound, p) = 0}
    IN  \A p \in ToSet(formals) \ {"..."} :
            /\ missing(<<f>>, p) <=> p \in left_out
            /\ missing(called(Name(p)), "x") <=> p \in left_out /\ (p = last => formals[1] \in left_out)
            /\ ~missing(called(Node("paren", "", <<Name(p)>>)), "x")
AllTagged(actuals, k) == \A i \in DOMAIN actuals : (actuals[i].s = "") <=> i <= k

\* Every argument goes to the formal R says, however the question is asked:
\* by a call, by match.call() (again, too), by substitute(), by missing() of it
\* or of what it is passed on as, by a primitive's own look at its arguments
\* and by match.arg.
ArgumentsFindTheirFormals ==
    \A e \in Trees : (e.k = "call" /\ Fun(e) = Name("f")) =>
        \A s \in DOMAIN Signatures :
            LET formals == Signatures[s]
                actuals == Args(e)
                tags == Tags(actuals)
                supplied(frame) == [k \in DOMAIN frame.bound |-> Arg(frame.bound[k][1], Name(frame.bound[k][1]))]
                list(frame) ==
                    Call(Name("f"), supplied(frame) \o IF frame.dots = <<>> THEN <<>> ELSE <<Arg("", Leaf(Tok("...")))>>)
                untagged == Cardinality({i \in DOMAIN tags : tags[i] = ""})
                asked(frame, again) ==
                    /\ match_call(again, formals) = again
                    /\ match_args(formals, Args(again)) = frame
                    /\ (None \notin ToSet(Values(actuals)))
                         => substitute_in(list(frame), frame_substitutions(formals, e)) = again
                    /\ (/\ AllTagged(actuals, untagged) /\ untagged <= Cardinality(Front_(formals))
                        /\ ToSet(tags) \ {""} \subseteq ToSet(SubSeq(formals, untagged + 1, Len(formals)))) =>
                          \A k \in DOMAIN frame.bound :
                             get(actuals, FirstOf({p \in DOMAIN formals : formals[p] = frame.bound[k][1]}),
                                 frame.bound[k][1]) = frame.bound[k][2]
                    /\ formals[1] # "..." => Forwarded(frame, formals)
                chosen(tag, alone) == match_arg(<<tag>>, formals, FALSE)
                            = IF alone.ok /\ alone.to[1] # 0 THEN <<formals[alone.to[1]]>> ELSE <<>>
                found(m) == m.ok =>
                    /\ Binds(formals, tags, m.to)
                    /\ asked(match_args(formals, actuals), match_call(e, formals))
                    /\ \A k \in 0 .. untagged : Len(rest(actuals, k)) = Len(actuals) - k
                    /\ \A i \in DOMAIN tags : (tags[i] # "" /\ ~Contains(formals, "...")) =>
                          chosen(tags[i], match_positions(formals, <<tags[i]>>))
                refused(m) == ~m.ok => Refused(formals, tags)
            IN  ~Contains(tags, "...") =>
                    found(match_positions(formals, tags)) /\ refused(match_positions(formals, tags))

\* The written trees a lowered call hands over; a constant evaluates to itself.
Handed(ways, hows) == SelectSeq(ways, LAMBDA w : w.how \in hows /\ w.e # None)
Expressions(ways) == [i \in DOMAIN ways |-> ways[i].e]
Deferring == {"lazy", "text", "thunk"}
BodyFormals(name) == CASE name = "tryCatch" -> {"expr", "finally"} [] name = "delayedAssign" -> {"value"}
                       [] name = "missing" -> {"x"} [] name = "library" -> {"package"} [] OTHER -> {"expr"}
\* The forms that go by place alone take tags in their own places only, and a
\* lazy form has its body under its tag or without one, not both.
PlainlyWritten(name, to, actuals) ==
    /\ ToSet(Tags(actuals)) \ {""} \subseteq ToSet(Specials[name])
    /\ None \notin ToSet(Values(actuals)) /\ \A i \in DOMAIN actuals : actuals[i].a[1].k # "..."
    /\ name \in {"with", "evalq", "substitute", "library"} => \A a \in DOMAIN to : to[a] = a
    /\ BodyTags(name) # {} => ~(Contains(Tags(actuals), "expr") /\ Contains(Tags(actuals), ""))
    /\ Contains(to, 0) => Contains(Specials[name], "...")
    /\ name = "evalq" => Len(actuals) > 1
    /\ name = "delayedAssign" => Len(actuals) \in {2, 4}
    /\ name = "missing" => Values(actuals)[1].k = "id"
    /\ name \in {"library", "rm"} => \A i \in DOMAIN actuals : actuals[i].a[1].k = "id"
\* The label an argument of cbind, rbind or table is read by: at its own place
\* among all the arguments, or among those without a tag.
Label(name, ways, actuals, i) ==
    LET given == SelectSeq(ways, LAMBDA w : w.tag \in {".deparse.sym", ".dnn"})[1].e
        place == IF name = "table" THEN Cardinality({j \in 1 .. i : actuals[j].s = ""}) ELSE i
    IN  IF given.k = "str" THEN given ELSE Args(given)[place].a[1]
LabelsAreTheirs(name, ways, actuals) ==
    (\E i \in DOMAIN ways : ways[i].how = "label") =>
        \A i \in DOMAIN actuals : actuals[i].s = "" =>
            LET e == actuals[i].a[1]
                label == Label(name, ways, actuals, i)
            IN  (label.k = "str" /\ label.s # "") <=> (e.k = "id" /\ label.s = e.s)
\* The expression R does not evaluate before the call is the one the compiler
\* defers, as a closure or as text that reads back, wherever in the call it is
\* written; every other argument is handed over once and stays an argument;
\* and the labels made up for a call's arguments are read by the argument whose
\* they are.
BodiesAreDeferred ==
    \A e \in Trees :
        LET name == Fun(e).s
            actuals == Args(e)
            written(at) == LET in_order(places) == [k \in DOMAIN places |-> actuals[places[k]].a[1]]
                           IN  in_order(SetToSortSeq(at, <))
            assigned(made, to, held) ==
                /\ made[2].how = "promise" /\ <<made[2].e>> = written(held)
                /\ <<made[1].e>> = written({a \in DOMAIN to : to[a] = 1})
                /\ Len(made) = 3 => <<made[3].e>> = written({a \in DOMAIN to : to[a] = 4})
            handed(fun, made, others, held) ==
                /\ Expressions(Handed(made, Deferring \cup {"name"})) = written(held)
                /\ Expressions(Handed(made, {"now", "promise"})) = written(others)
                /\ \A i \in DOMAIN made : (made[i].how = "now" /\ makes_context(fun) /\ fun # ".rlang_substitute")
                                              => is_literal(made[i].e)
            held_back(to) == {a \in DOMAIN to : IF to[a] = 0 THEN name = "rm" /\ actuals[a].s = ""
                                                ELSE Specials[name][to[a]] \in BodyFormals(name)}
            deferred(low, to, held) ==
                (held # {} /\ PlainlyWritten(name, to, actuals)) =>
                    IF name = "delayedAssign" THEN low.fun = "assign" /\ assigned(low.args, to, held)
                    ELSE handed(low.fun, low.args, DOMAIN to \ held, held)
            matched(low, m) == m.ok => deferred(low, m.to, held_back(m.to))
        IN  (e.k = "call" /\ Fun(e).k = "id" /\ Fun(e).s \in {"cbind", "table"} \cup DOMAIN Specials) =>
                \A low \in {lowered(e)} :
                    IF name \in DOMAIN Specials THEN matched(low, match_positions(Specials[name], Tags(actuals)))
                    ELSE LabelsAreTheirs(name, low.args, actuals)

=============================================================================
