------------------------------- MODULE Syntax -------------------------------
(***************************************************************************)
(* What a text means and how a tree is written back: the newline rule of   *)
(* src/lexer.rs, the precedence ladder of src/parser.rs, the folding of a  *)
(* call with a backtick-quoted head into the syntax it spells              *)
(* (src/ast.rs), and the layout and parentheses of src/deparse.rs.         *)
(*                                                                         *)
(* A text is a sequence of tokens, records [t, n]: the kind, and the name  *)
(* of an identifier, string, number or %operator%.  How characters make a  *)
(* token (escapes, numbers, the longest operator) is not modelled.  A tree *)
(* is a record [k, s, a]: kind, name and the sequence of its parts, with   *)
(* None for an absent part.  A parser gives [ok, e, p]: whether the text   *)
(* was accepted, the tree, and the place after it or of the failure.       *)
(*                                                                         *)
(* The machine types a text phrase by phrase as long as it can still become  *)
(* a program; the properties read, write and regroup every program typed.  *)
(***************************************************************************)
EXTENDS Integers, Sequences, SequencesExt, FiniteSetsExt

CONSTANTS
    Families,   \* the names of the vocabularies
    Broken,      \* those of them whose texts are also broken across lines
    Vocabulary, \* the phrases, sequences of tokens, of each family
    Longest,    \* how many phrases a text of each family has at most
    MaxExprs,   \* how many top-level expressions a text has at most
    Cutoff      \* the length of a line, in tokens, past which it is broken

ASSUME CutoffAssumption == Cutoff \in Nat

VARIABLES
    family,     \* the vocabulary in use
    typed,      \* how many phrases have been typed
    text,       \* their tokens
    program     \* what parse makes of them

vars == <<family, typed, text, program>>

Tok(t) == [t |-> t, n |-> ""]
Id(name) == [t |-> "id", n |-> name]
Newline == Tok("nl")
Toks(kinds) == [i \in DOMAIN kinds |-> Tok(kinds[i])]

Node(k, s, parts) == [k |-> k, s |-> s, a |-> parts]
None == Node("none", "", <<>>)
Leaf(t) == Node(t.t, t.n, <<>>)
Arg(name, value) == Node("arg", name, <<value>>)

-----------------------------------------------------------------------------
(***************************************************************************)
(* The lexer's part: the stack of open brackets, and the newlines that are *)
(* dropped while the innermost is a parenthesis or a square bracket.       *)
(***************************************************************************)

brackets(stack, t) ==
    CASE t.t \in {"(", "{", "["} -> Append(stack, t.t)
      [] t.t = "[[" -> stack \o <<"[", "[">>
      [] t.t \in {")", "}", "]"} /\ stack # <<>> -> Front(stack)
      [] OTHER -> stack

newline_significant(stack) == stack = <<>> \/ Last(stack) \notin {"(", "["}

lex(raw) ==
    FoldLeft(LAMBDA s, t :
        [out |-> IF t = Newline /\ ~newline_significant(s.open) THEN s.out ELSE Append(s.out, t),
         open |-> brackets(s.open, t)],
        [out |-> <<>>, open |-> <<>>], raw).out

-----------------------------------------------------------------------------
(***************************************************************************)
(* call_syntax: a call whose head is the quoted name of an operator or a   *)
(* keyword is the node that syntax has, if it has a spelling.              *)
(***************************************************************************)

Comparisons == {"==", "!=", "<", ">", "<=", ">="}
BinaryHeads == {"+", "-", "*", "/", "^", "&", "|", "&&", "||", ":"} \cup Comparisons
SpecialNamed == [h \in {"%in%", "%%", "%/%"} |->
    CASE h = "%in%" -> "in" [] h = "%%" -> "" [] OTHER -> "/"]

Member(head, obj, name) == Node(head, "", <<obj, Arg("", Node("str", name, <<>>))>>)

\* op is the head's name, v the n arguments when they are plain.
headed_syntax(fun, op, args, v, n, plain) ==
    CASE fun.k # "id" -> Node("call", "", <<fun>> \o args)
      [] plain /\ op \in BinaryHeads /\ n = 2 -> Node("binary", op, v)
      [] plain /\ op \in {"-", "+", "!"} /\ n = 1 -> Node("unary", op, v)
      [] plain /\ op \in DOMAIN SpecialNamed /\ n = 2 -> Node("special", SpecialNamed[op], v)
      [] plain /\ op = "(" /\ n = 1 -> Node("paren", "", v)
      [] plain /\ op = "{" -> Node("block", "", v)
      [] plain /\ op = "if" /\ n \in {2, 3} ->
            Node("if", "", IF n = 2 THEN Append(v, None) ELSE v)
      [] plain /\ op = "while" /\ n = 2 -> Node("while", "", v)
      [] plain /\ op = "repeat" /\ n = 1 -> Node("repeat", "", v)
      [] plain /\ op = "for" /\ n = 3 /\ v[1].k = "id" -> Node("for", v[1].s, Tail(v))
      [] plain /\ op \in {"<-", "<<-"} /\ n = 2 -> Node("assign", op, v)
      [] plain /\ op \in {"$", "@"} /\ n = 2 /\ v[2].k \in {"id", "str"} ->
            Member(op, v[1], v[2].s)
      [] op \in {"[", "[["} /\ n > 0 /\ args[1].s = "" /\ args[1].a[1] # None ->
            Node(op, "", <<v[1]>> \o Tail(args))
      [] OTHER -> Node("call", "", <<fun>> \o args)
call_syntax(fun, args) ==
    headed_syntax(fun, fun.s, args, [i \in DOMAIN args |-> args[i].a[1]], Len(args),
                  \A i \in DOMAIN args : args[i].s = "" /\ args[i].a[1] # None)

-----------------------------------------------------------------------------
(***************************************************************************)
(* The parser.  Level(n, ...) is rung n of the ladder, from ~ to ^.        *)
(***************************************************************************)

At(T, p) == IF p \in DOMAIN T THEN T[p] ELSE Tok("eof")
Is(T, p, t) == At(T, p).t = t
Past(T, p, kinds) == CHOOSE q \in p .. Len(T) + 1 :
    At(T, q).t \notin kinds /\ \A r \in p .. q - 1 : At(T, r).t \in kinds
nl(T, p) == IF p > Len(T) THEN p ELSE Past(T, p, {"nl"})
seps(T, p) == IF p > Len(T) THEN p ELSE Past(T, p, {"nl", ";"})

Done(e, p) == [ok |-> TRUE, e |-> e, p |-> p]
Fail(p) == [ok |-> FALSE, e |-> None, p |-> p]
Bind(r, F(_)) == IF r.ok THEN F(r) ELSE r
Wrap(r, F(_)) == IF r.ok THEN Done(F(r.e), r.p) ELSE r
expect(T, p, t, e) == IF Is(T, p, t) THEN Done(e, p + 1) ELSE Fail(p)

RangeLevel == 8
Rungs == <<{"|", "||"}, {"&", "&&"}, {"!"}, Comparisons, {"+", "-"}, {"*", "/"},
           {"special", "|>"}, {":"}>>

bin(op, lhs, rhs) ==
    IF op.t = "special" THEN Node("special", op.n, <<lhs, rhs>>) ELSE Node("binary", op.t, <<lhs, rhs>>)

RECURSIVE Level(_, _, _), operand_or_not(_, _, _), Chain(_, _, _), power(_, _), primary(_, _),
          postfix(_, _), arguments(_, _, _, _), parameters(_, _, _), statements(_, _, _),
          assign_arrow(_, _), expr(_, _), program_from(_, _, _)

Level(n, T, p) ==
    CASE n = 0 -> Bind(IF Is(T, p, "~") THEN Done(None, p) ELSE Level(1, T, p), LAMBDA l :
                     IF Is(T, l.p, "~")
                     THEN Wrap(Level(1, T, nl(T, l.p + 1)), LAMBDA e : Node("formula", "", <<l.e, e>>))
                     ELSE l)
      [] n = 3 /\ Is(T, p, "!") -> Wrap(Level(3, T, nl(T, p + 1)), LAMBDA e : Node("unary", "!", <<e>>))
      [] n = 3 /\ ~Is(T, p, "!") -> Level(4, T, p)
      [] n = 9 /\ At(T, p).t \in {"-", "+"} ->
            Wrap(operand_or_not(9, T, nl(T, p + 1)), LAMBDA e : Node("unary", At(T, p).t, <<e>>))
      [] n = 9 /\ At(T, p).t \notin {"-", "+"} -> power(T, p)
      [] OTHER -> Bind(Level(n + 1, T, p), LAMBDA l : Chain(n, T, l))

operand_or_not(n, T, p) == IF Is(T, p, "!") THEN Level(3, T, p) ELSE Level(n, T, p)

pipe_into(l, r) ==
    IF r.e.k = "call"
    THEN Done(Node("call", "", <<r.e.a[1], Arg("", l.e)>> \o Tail(r.e.a)), r.p)
    ELSE Fail(r.p)

Chain(n, T, l) ==
    LET op == At(T, l.p)
        q == nl(T, l.p + 1)
    IN  CASE op.t \notin Rungs[n] -> l
          [] op.t = "|>" ->
                Bind(Level(RangeLevel, T, q), LAMBDA r : Bind(pipe_into(l, r), LAMBDA c : Chain(n, T, c)))
          [] OTHER ->
                Bind(IF n > 3 THEN operand_or_not(n + 1, T, q) ELSE Level(n + 1, T, q),
                     LAMBDA r : Chain(n, T, Done(bin(op, l.e, r.e), r.p)))

\* A mutant of power: ^ groups to the left.
LeftPower(T, p) ==
    LET RECURSIVE More(_)
        More(l) == IF Is(T, l.p, "^")
                   THEN Bind(primary(T, nl(T, l.p + 1)), LAMBDA e : Bind(postfix(T, e),
                            LAMBDA r : More(Done(Node("binary", "^", <<l.e, r.e>>), r.p))))
                   ELSE l
    IN  Bind(primary(T, p), LAMBDA e : Bind(postfix(T, e), More))

power(T, p) ==
    Bind(primary(T, p), LAMBDA e : Bind(postfix(T, e), LAMBDA l :
        IF Is(T, l.p, "^")
        THEN Wrap(operand_or_not(9, T, nl(T, l.p + 1)), LAMBDA r : Node("binary", "^", <<l.e, r>>))
        ELSE l))

bracket_args(args) == IF args = <<>> THEN <<Arg("", None)>> ELSE args

args(T, p, close) ==
    IF Is(T, nl(T, p), close) THEN Done(None, nl(T, p)) ELSE arguments(T, p, close, <<>>)

arg_tag(T, p) ==
    IF At(T, p).t \in {"id", "str", "..."} /\ Is(T, p + 1, "=")
    THEN IF Is(T, p, "...") THEN "..." ELSE At(T, p).n
    ELSE ""

value_or_none(T, q, close) == IF At(T, q).t \in {close, ","} THEN Done(None, q) ELSE expr(T, q)
arguments(T, p, close, read) ==
    LET so_far(more, next) == IF Is(T, next, ",") THEN arguments(T, next + 1, close, more)
                              ELSE Done(Node("args", "", more), next)
        from(first, tag) ==
            Bind(value_or_none(T, nl(T, IF tag = "" THEN first ELSE first + 2), close),
                 LAMBDA v : so_far(Append(read, Arg(tag, v.e)), nl(T, v.p)))
    IN  from(nl(T, p), arg_tag(T, nl(T, p)))

\* One call, subscript or member after l.
postfix_once(T, l, t) ==
    LET close == IF t = "(" THEN ")" ELSE "]"
        tree(list) == IF t = "(" THEN call_syntax(l.e, list) ELSE Node(t, "", <<l.e>> \o bracket_args(list))
        \* What ends with its last bracket, two of them for [[.
        closed(r) == Bind(IF t = "[[" THEN expect(T, r.p, "]", None) ELSE r,
                          LAMBDA last : expect(T, last.p, close, tree(r.e.a)))
        member(name) == IF At(T, name).t \in {"id", "str"}
                        THEN Done(Member(t, l.e, At(T, name).n), name + 1) ELSE Fail(name)
    IN  CASE t \in {"(", "[", "[["} -> Bind(args(T, l.p + 1, close), closed)
          [] t \in {"$", "@"} -> member(nl(T, l.p + 1))
          [] t = "::" -> primary(T, l.p + 1)
postfix(T, l) ==
    IF At(T, l.p).t \in {"(", "[", "[[", "$", "@", "::"}
    THEN Bind(postfix_once(T, l, At(T, l.p).t), LAMBDA c : postfix(T, c)) ELSE l

Literals == {"num", "str", "const", "...", "id", "break", "next"}

\* A mutant of condition: the newlines after it are left.
NewlineAfterConditionKept(T, p) ==
    Bind(expect(T, nl(T, p), "(", None), LAMBDA o :
        Bind(expr(T, o.p), LAMBDA c : expect(T, c.p, ")", c.e)))

\* The parenthesised condition of if and while, and the newlines after it.
condition(T, p) ==
    Bind(expect(T, nl(T, p), "(", None), LAMBDA o :
        Bind(expr(T, o.p), LAMBDA c :
            Bind(expect(T, c.p, ")", c.e), LAMBDA d : Done(d.e, nl(T, d.p)))))

if_else(T, p) ==
    Bind(condition(T, p), LAMBDA c : Bind(expr(T, c.p), LAMBDA then :
        IF Is(T, seps(T, then.p), "else")
        THEN Wrap(expr(T, nl(T, seps(T, then.p) + 1)), LAMBDA els : Node("if", "", <<c.e, then.e, els>>))
        ELSE Done(Node("if", "", <<c.e, then.e, None>>), then.p)))

for_in(T, p) ==
    Bind(expect(T, nl(T, p), "(", None), LAMBDA o :
        IF ~Is(T, o.p, "id") THEN Fail(o.p)
        ELSE Bind(expect(T, o.p + 1, "in", None), LAMBDA i :
            Bind(expr(T, i.p), LAMBDA xs : Bind(expect(T, xs.p, ")", None), LAMBDA c :
                Wrap(expr(T, nl(T, c.p)), LAMBDA body : Node("for", At(T, o.p).n, <<xs.e, body>>))))))

params(T, p) ==
    IF Is(T, nl(T, p), ")") THEN Done(None, nl(T, p)) ELSE parameters(T, p, <<>>)

default_or_none(T, q) == IF Is(T, q, "=") THEN expr(T, nl(T, q + 1)) ELSE Done(None, q)
parameters(T, p, read) ==
    LET name(t) == IF t.t = "..." THEN "..." ELSE t.n
        so_far(more, next) == IF Is(T, next, ",") THEN parameters(T, next + 1, more)
                              ELSE Done(Node("params", "", more), next)
        from(first) ==
            IF At(T, first).t \notin {"id", "..."} THEN Fail(first)
            ELSE Bind(default_or_none(T, nl(T, first + 1)),
                      LAMBDA d : so_far(Append(read, Arg(name(At(T, first)), d.e)), nl(T, d.p)))
    IN  from(nl(T, p))

function_expr(T, p) ==
    Bind(expect(T, nl(T, p), "(", None), LAMBDA o :
        Bind(params(T, o.p), LAMBDA ps : Bind(expect(T, ps.p, ")", None), LAMBDA c :
            Wrap(expr(T, nl(T, c.p)), LAMBDA body : Node("function", "", <<body>> \o ps.e.a)))))

statements(T, p, read) ==
    IF At(T, p).t \in {"}", "eof"} THEN expect(T, p, "}", Node("block", "", read))
    ELSE Bind(expr(T, p), LAMBDA e : statements(T, seps(T, e.p), Append(read, e.e)))

primary(T, p) ==
    LET t == At(T, p).t
    IN  CASE t \in Literals -> Done(Leaf(At(T, p)), p + 1)
          [] t = "(" -> Bind(expr(T, nl(T, p + 1)), LAMBDA e :
                            expect(T, nl(T, e.p), ")", Node("paren", "", <<e.e>>)))
          [] t = "{" -> statements(T, seps(T, p + 1), <<>>)
          [] t = "if" -> if_else(T, p + 1)
          [] t = "for" -> for_in(T, p + 1)
          [] t = "while" -> Bind(condition(T, p + 1), LAMBDA c :
                                Wrap(expr(T, c.p), LAMBDA body : Node("while", "", <<c.e, body>>)))
          [] t = "repeat" -> Wrap(expr(T, nl(T, p + 1)), LAMBDA body : Node("repeat", "", <<body>>))
          [] t = "function" -> function_expr(T, p + 1)
          [] OTHER -> Fail(p)

formula_expr(T, p) == Level(0, T, p)

assign_arrow(T, p) ==
    Bind(formula_expr(T, p), LAMBDA l :
        LET t == At(T, l.p).t
            tree(e) == IF t \in {"<-", "<<-"} THEN Node("assign", t, <<l.e, e>>)
                       ELSE Node("assign", IF t = "->" THEN "<-" ELSE "<<-", <<e, l.e>>)
        IN  IF t \in {"<-", "<<-", "->", "->>"} THEN Wrap(assign_arrow(T, nl(T, l.p + 1)), tree) ELSE l)

expr(T, p) ==
    Bind(assign_arrow(T, p), LAMBDA l :
        IF Is(T, l.p, "=")
        THEN Wrap(expr(T, nl(T, l.p + 1)), LAMBDA e : Node("assign", "<-", <<l.e, e>>))
        ELSE l)

program_from(T, p, read) ==
    IF p > Len(T) THEN Done(Node("program", "", read), p)
    ELSE Bind(expr(T, p), LAMBDA e : program_from(T, seps(T, e.p), Append(read, e.e)))

parse_tokens(T) == program_from(T, seps(T, 1), <<>>)
parse(raw) == parse_tokens(lex(raw))

-----------------------------------------------------------------------------
(***************************************************************************)
(* The deparser.  A buffer is [out, len, curly]: the tokens written, how   *)
(* many are on the current line, and how many blocks are open.             *)
(* Indentation is left out: it separates nothing.                          *)
(***************************************************************************)

PREC_LEFT == 2
PREC_TILDE == 4
PREC_NOT == 7
PREC_COMPARE == 8
PREC_PERCENT == 11
PREC_SIGN == 13
PREC_POWER == 14
PREC_SUBSET == 15

binop_prec(op) ==
    CASE op \in {"|", "||"} -> 5
      [] op \in {"&", "&&"} -> 6
      [] op \in Comparisons -> PREC_COMPARE
      [] op \in {"+", "-"} -> 9
      [] op \in {"*", "/"} -> 10
      [] op = ":" -> 12
      [] op = "^" -> PREC_POWER

\* A mutant of needs_parens: the side on which equal operators group is the wrong one.
ParensOnTheOtherSide(main, e, left) ==
    e.k = "binary" /\ LET p == binop_prec(e.s) IN main > p \/ (main = p /\ left = (main # PREC_POWER))

needs_parens(main, e, left) ==
    LET outranks(p) == main > p \/ (main = p /\ left = (main = PREC_POWER))
    IN  CASE e.k = "binary" ->
                \/ main = PREC_COMPARE /\ e.s \in Comparisons
                \/ outranks(binop_prec(e.s))
          [] e.k = "special" -> outranks(PREC_PERCENT)
          [] e.k = "formula" -> (e.a[1] # None \/ left) /\ outranks(PREC_TILDE)
          [] e.k = "unary" -> left /\ outranks(IF e.s = "!" THEN PREC_NOT ELSE PREC_SIGN)
          [] e.k = "assign" -> outranks(PREC_LEFT)
          [] e.k \in {"[", "[[", "$", "@"} -> outranks(PREC_SUBSET)
          [] e.k \in {"if", "for", "while", "repeat"} -> left
          [] OTHER -> FALSE

print(b, tokens) == [b EXCEPT !.out = @ \o tokens, !.len = @ + Len(tokens)]
writeline(b) == [b EXCEPT !.out = Append(@, Newline), !.len = 0]
linebreak(b) == IF b.len > Cutoff THEN writeline(b) ELSE b
Curly(b, by) == [b EXCEPT !.curly = @ + by]

NameTok(name) == IF name = "..." THEN Tok("...") ELSE Id(name)

RECURSIVE deparse(_, _)

\* Arguments or formals: name, =, value, and a line may end after a comma.
write_args(b, list, formals) ==
    FoldLeft(LAMBDA s, i :
        LET name == list[i].s
            value == list[i].a[1]
            tagged == IF name = "" THEN s
                      ELSE print(s, <<NameTok(name)>> \o
                                    IF formals /\ value = None THEN <<>> ELSE <<Tok("=")>>)
            valued == IF value = None THEN tagged ELSE deparse(tagged, value)
        IN  IF i < Len(list) THEN linebreak(print(valued, <<Tok(",")>>)) ELSE valued,
        b, [i \in DOMAIN list |-> i])

operand(b, e, main, left) ==
    IF needs_parens(main, e, left)
    THEN print(deparse(print(b, <<Tok("(")>>), e), <<Tok(")")>>)
    ELSE deparse(b, e)

\* An infix operator; a spaced one may end the line.
infix(b, l, op, r, main, spaced) ==
    LET first == print(operand(b, l, main, TRUE), <<op>>)
    IN  operand(IF spaced THEN linebreak(first) ELSE first, r, main, FALSE)

deparse_if(b, e) ==
    LET head == print(deparse(print(b, Toks(<<"if", "(">>)), e.a[1]), Toks(<<")">>))
        inside == b.curly > 0
        then == deparse(IF inside /\ e.a[2].k # "block" THEN writeline(head) ELSE head, e.a[2])
    IN  IF e.a[3] = None THEN then
        ELSE deparse(print(IF inside THEN writeline(then) ELSE then, Toks(<<"else">>)), e.a[3])

block(b, e) ==
    LET open == writeline(Curly(print(b, Toks(<<"{">>)), 1))
        body == FoldLeft(LAMBDA s, x : writeline(deparse(s, x)), open, e.a)
    IN  Curly(print(body, Toks(<<"}">>)), -1)

deparse(b, e) ==
    CASE e.k \in Literals -> print(b, <<[t |-> e.k, n |-> e.s]>>)
      [] e.k = "paren" -> print(deparse(print(b, Toks(<<"(">>)), e.a[1]), Toks(<<")">>))
      [] e.k = "call" ->
            print(write_args(print(deparse(b, e.a[1]), Toks(<<"(">>)), Tail(e.a), FALSE), Toks(<<")">>))
      [] e.k = "function" ->
            deparse(print(write_args(print(b, Toks(<<"function", "(">>)), Tail(e.a), TRUE),
                          Toks(<<")">>)), e.a[1])
      [] e.k = "if" -> deparse_if(b, e)
      [] e.k = "for" ->
            deparse(print(deparse(print(b, Toks(<<"for", "(">>) \o <<Id(e.s), Tok("in")>>), e.a[1]),
                          Toks(<<")">>)), e.a[2])
      [] e.k = "while" ->
            deparse(print(deparse(print(b, Toks(<<"while", "(">>)), e.a[1]), Toks(<<")">>)), e.a[2])
      [] e.k = "repeat" -> deparse(print(b, Toks(<<"repeat">>)), e.a[1])
      [] e.k = "block" -> block(b, e)
      [] e.k = "assign" -> deparse(print(deparse(b, e.a[1]), Toks(<<e.s>>)), e.a[2])
      [] e.k = "formula" /\ e.a[1] = None -> operand(print(b, Toks(<<"~">>)), e.a[2], PREC_TILDE, FALSE)
      [] e.k = "formula" /\ e.a[1] # None -> infix(b, e.a[1], Tok("~"), e.a[2], PREC_TILDE, TRUE)
      [] e.k = "binary" ->
            infix(b, e.a[1], Tok(e.s), e.a[2], binop_prec(e.s), e.s \notin {"/", "^", ":"})
      [] e.k = "special" ->
            infix(b, e.a[1], [t |-> "special", n |-> e.s], e.a[2], PREC_PERCENT, e.s \notin {"", "/"})
      [] e.k = "unary" ->
            operand(print(b, Toks(<<e.s>>)), e.a[1], IF e.s = "!" THEN PREC_NOT ELSE PREC_SIGN, FALSE)
      [] e.k \in {"[", "[["} ->
            LET inner == write_args(print(operand(b, e.a[1], PREC_SUBSET, TRUE), Toks(<<e.k>>)),
                                    Tail(e.a), FALSE)
            IN  print(inner, Toks(IF e.k = "[" THEN <<"]">> ELSE <<"]", "]">>))
      [] e.k \in {"$", "@"} ->
            print(operand(b, e.a[1], PREC_SUBSET, TRUE), <<Tok(e.k), Id(e.a[2].a[1].s)>>)

Blank == [out |-> <<>>, len |-> 0, curly |-> 0]
deparse_lines(e) == deparse(Blank, e).out

\* How print shows a closure: its header on a line of its own.
deparse_closure(f) ==
    deparse(writeline(print(write_args(print(Blank, Toks(<<"function", "(">>)), Tail(f.a), TRUE),
                            Toks(<<")">>))), f.a[1]).out

-----------------------------------------------------------------------------
(***************************************************************************)
(* The machine.                                                            *)
(***************************************************************************)

Init ==
    /\ family \in Families
    /\ typed = 0
    /\ text = <<>>
    /\ program = parse(<<>>)

\* A text that failed before its end can never become a program.
Type(phrase) ==
    /\ typed < Longest[family]
    /\ typed' = typed + 1
    /\ text' = text \o phrase
    /\ program' = parse(text')
    /\ IF program'.ok THEN Len(program'.e.a) <= MaxExprs ELSE program'.p > Len(lex(text'))
    /\ UNCHANGED family

Next == \E phrase \in Vocabulary[family] : Type(phrase)

Spec == Init /\ [][Next]_vars

-----------------------------------------------------------------------------
(***************************************************************************)
(* Properties.                                                             *)
(***************************************************************************)

Count(tokens, Test(_)) == Cardinality({i \in DOMAIN tokens : Test(tokens[i])})

RECURSIVE Bare(_), Subtrees(_)
\* The tree without its parentheses.
Bare(e) == IF e.k = "paren" THEN Bare(e.a[1]) ELSE [e EXCEPT !.a = [i \in DOMAIN @ |-> Bare(@[i])]]
Subtrees(e) == {e} \cup UNION {Subtrees(e.a[i]) : i \in DOMAIN e.a}

Heads == BinaryHeads \cup DOMAIN SpecialNamed
         \cup {"!", "(", "{", "if", "while", "repeat", "for", "<-", "<<-", "$", "@", "[", "[["}

\* Whether the deparser may have to add parentheses: calls spelled with a quoted head,
\* and comparisons of comparisons, which R does not have.
Rebuilt(T) ==
    \/ Count(T, LAMBDA t : t.t = "id" /\ t.n \in Heads) > 0
    \/ Count(T, LAMBDA t : t.t \in Comparisons) > 1

\* An assignment whose target is an assignment (`a <- b = c`): no way to write it.
AssignsToAssignment(e) == e.k = "assign" /\ e.a[1].k = "assign"

\* What the deparser writes for an expression, parsed again, is that expression
\* (deparse.rs 488: "R source that parses back to the same tree"), on whatever lines
\* the layout puts it, and as the body and header of a printed closure; parentheses
\* are added only where the tree was not one the syntax gives (deparse.rs 24-30).
ReadsBack ==
    program.ok =>
        \A i \in DOMAIN program.e.a :
            LET e == program.e.a[i]
                same(tokens) ==
                    LET back == parse(tokens)
                    IN  /\ back.ok /\ Len(back.e.a) = 1
                        /\ IF Rebuilt(text) THEN Bare(back.e.a[1]) = Bare(e) ELSE back.e.a[1] = e
            IN  (\A x \in Subtrees(e) : ~AssignsToAssignment(x)) =>
                    same(deparse_lines(e)) /\ (e.k = "function" => same(deparse_closure(e)))

(***************************************************************************)
(* Operator grammar.  The table of the header of parser.rs, read by an     *)
(* operator-precedence parser: an operator takes what stands before it as  *)
(* far as that binds tighter.                                              *)
(***************************************************************************)

Table(op) ==
    CASE op = "=" -> 1 [] op \in {"<-", "<<-"} -> 2 [] op \in {"->", "->>"} -> 3 [] op = "~" -> 4
      [] op \in {"special"} -> 11 [] OTHER -> binop_prec(op)
RightToLeft == {"=", "<-", "<<-", "^"}

Operand(t) == t.t \in Literals
Prefix == {"-", "+", "!", "~"}
Infix == BinaryHeads \cup {"=", "<-", "<<-", "->", "->>", "~", "special"}
OperatorText(T) == \A i \in DOMAIN T : Operand(T[i]) \/ T[i].t \in Prefix \cup Infix

PrefixPrec(op) == CASE op = "!" -> PREC_NOT [] op = "~" -> PREC_TILDE [] OTHER -> PREC_SIGN

\* One operator applied to the operands on the stack.
Reduced(s) ==
    LET op == Last(s.ops)
        left == Front(s.done)
        r == Last(s.done)
        tree == CASE op.prefix /\ op.tok.t = "~" -> Node("formula", "", <<None, r>>)
                  [] op.prefix /\ op.tok.t # "~" -> Node("unary", op.tok.t, <<r>>)
                  [] op.tok.t = "~" /\ ~op.prefix -> Node("formula", "", <<Last(left), r>>)
                  [] op.tok.t \in {"=", "<-"} -> Node("assign", "<-", <<Last(left), r>>)
                  [] op.tok.t = "<<-" -> Node("assign", "<<-", <<Last(left), r>>)
                  [] op.tok.t = "->" -> Node("assign", "<-", <<r, Last(left)>>)
                  [] op.tok.t = "->>" -> Node("assign", "<<-", <<r, Last(left)>>)
                  [] OTHER -> bin(op.tok, Last(left), r)
    IN  [s EXCEPT !.ops = Front(@),
                  !.done = Append(IF op.prefix THEN left ELSE Front(left), tree)]

Prec(op) == IF op.prefix THEN PrefixPrec(op.tok.t) ELSE Table(op.tok.t)

RECURSIVE Closed(_, _), Grouped(_, _, _)
Closed(s, prec) ==
    IF /\ s.ops # <<>>
       /\ \/ Prec(Last(s.ops)) > prec
          \/ Prec(Last(s.ops)) = prec /\ Last(s.ops).tok.t \notin RightToLeft
    THEN Closed(Reduced(s), prec)
    ELSE s

Grouped(T, i, s) ==
    LET t == T[i]
        prefix == i = 1 \/ ~Operand(T[i - 1])
        ready == IF prefix THEN s ELSE Closed(s, Table(t.t))
    IN  CASE i > Len(T) -> Last(Closed(s, 0).done)
          [] i <= Len(T) /\ Operand(t) -> Grouped(T, i + 1, [s EXCEPT !.done = Append(@, Leaf(t))])
          [] OTHER ->
                Grouped(T, i + 1, [ready EXCEPT !.ops = Append(@, [tok |-> t, prefix |-> prefix])])

\* A text of operands and operators that is one expression is grouped as the table of
\* operators of parser.rs 5-17 says, wherever signs and `!` stand in it (parser.rs
\* 205-207: a `!` to the right of a tighter operator keeps its own precedence).
GroupedByTheTable ==
    (program.ok /\ text # <<>> /\ OperatorText(text) /\ Len(program.e.a) = 1) =>
        program.e.a[1] = Grouped(text, 1, [ops |-> <<>>, done |-> <<>>])

\* The tokens since the innermost bracket that is open.
RECURSIVE SinceOpen(_, _)
SinceOpen(T, i) ==
    IF i = 0 THEN T
    ELSE LET rest == SubSeq(T, i + 1, Len(T))
         IN  IF T[i].t \in {"(", "{", "[", "[["}
                /\ \A j \in DOMAIN rest : Len(FoldLeft(brackets, <<T[i].t>>, SubSeq(rest, 1, j))) > 0
                /\ (T[i].t = "[[" => Count(rest, LAMBDA t : t.t = "]") = 0)
             THEN rest ELSE SinceOpen(T, i - 1)

\* With %in% for |>, which is complete whatever follows it.
Unpiped(T) == [i \in DOMAIN T |-> IF T[i].t = "|>" THEN [t |-> "special", n |-> "in"] ELSE T[i]]

\* A newline ends an expression only when that is complete (parser.rs 20-22): put
\* anywhere into a program, it means a semicolon after a complete expression outside
\* of parentheses and square brackets, and nothing at all anywhere else.
NewlineEndsOnlyComplete ==
    (program.ok /\ family \in Broken) =>
        \A i \in 0 .. Len(text) :
            LET before == SubSeq(text, 1, i)
                after == SubSeq(text, i + 1, Len(text))
                open == FoldLeft(brackets, <<>>, before)
                ends == newline_significant(open) /\ parse(Unpiped(SinceOpen(before, i))).ok
                with(t) == LET r == parse(before \o <<t>> \o after) IN <<r.ok, r.e>>
            IN  with(Newline) = IF ends THEN with(Tok(";")) ELSE <<TRUE, program.e>>

\* The same expression with every operator, keyword and bracket as a quoted head.
RECURSIVE Prefixed(_)
Prefixed(e) ==
    LET listed(parts) ==
            FoldLeft(LAMBDA s, i :
                s \o (IF parts[i].k # "arg" THEN Prefixed(parts[i])
                      ELSE (IF parts[i].s = "" THEN <<>> ELSE <<NameTok(parts[i].s), Tok("=")>>)
                           \o IF parts[i].a[1] = None THEN <<>> ELSE Prefixed(parts[i].a[1]))
                  \o (IF i < Len(parts) THEN <<Tok(",")>> ELSE <<>>),
                <<>>, [i \in DOMAIN parts |-> i])
        headed(head, parts) == <<Id(head), Tok("(")>> \o listed(parts) \o <<Tok(")")>>
    IN  CASE e.k \in Literals -> <<[t |-> e.k, n |-> e.s]>>
          [] e.k \in {"binary", "unary", "assign"} -> headed(e.s, e.a)
          [] e.k = "special" -> headed(CHOOSE h \in DOMAIN SpecialNamed : SpecialNamed[h] = e.s, e.a)
          [] e.k = "paren" -> headed("(", e.a)
          [] e.k = "block" -> headed("{", e.a)
          [] e.k = "if" -> headed("if", SelectSeq(e.a, LAMBDA x : x # None))
          [] e.k \in {"while", "repeat", "[", "[["} -> headed(e.k, e.a)
          [] e.k = "for" -> headed("for", <<Node("id", e.s, <<>>)>> \o e.a)
          [] e.k \in {"$", "@"} -> headed(e.k, <<e.a[1], Node("id", e.a[2].a[1].s, <<>>)>>)
          [] e.k = "call" -> Prefixed(e.a[1]) \o <<Tok("(")>> \o listed(Tail(e.a)) \o <<Tok(")")>>
          [] e.k = "formula" ->
                (IF e.a[1] = None THEN <<>> ELSE Prefixed(e.a[1])) \o <<Tok("~")>> \o Prefixed(e.a[2])
          [] e.k = "function" ->
                Toks(<<"function", "(">>) \o listed(SelectSeq(Tail(e.a), LAMBDA x : TRUE))
                \o <<Tok(")")>> \o Prefixed(e.a[1])

\* A call written with quoted heads is the node its syntax has (ast.rs 178-189): every
\* expression, spelled with heads all through, is read as the very same tree.
HeadsAreTheSyntax ==
    program.ok =>
        \A i \in DOMAIN program.e.a :
            LET e == program.e.a[i]
                back == parse(Prefixed(e))
                bare(x) == x.k = "arg" /\ x.a[1] = None /\ x.s # ""
            IN  (\A x \in Subtrees(e) : ~bare(x)) => back.ok /\ back.e.a = <<e>>
=============================================================================
