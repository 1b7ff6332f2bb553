--------------------------- MODULE MCFrontEnd ---------------------------
(* Programs for TLC. A program is a term; its text, the tree it should be  *)
(* parsed into and the tree that should be left of it are computed from    *)
(* the term, by the grammar and not by the code's algorithms. Left out are *)
(* the shapes the parser is known to misread (README, "Misread programs"). *)
EXTENDS FrontEnd

T(kind, raw, kids) == [kind |-> kind, raw |-> raw, kids |-> kids]
Id(name) == T("ident", name, <<>>)
Lit(raw) == T("literal", raw, <<>>)
True == T("bool", "true", <<>>)
NullE == T("null", "null", <<>>)
This == Id("this")
Op(l, o, r) == T("op", o, <<l, r>>)
Call(f, args) == T("call", "", <<Id(f)>> \o args)
Dot(l, r) == T("memberaccess", "", <<l, r>>)
Index(l, i) == T("arraccess", "", <<l, i>>)
Arr(items) == T("newarr", "", items)
Assign(l, r) == T("assignment", "=", <<l, r>>)
Inc(l, o) == T("standalone_op", o, <<l>>)
Dic(entries) == T("dic", "", entries)

Block(statements) == T("block", "", statements)
Single(statements) == T("single", "", statements)    \* a body without braces
If(cond, body) == T("if", "", <<cond, body>>)
Else(body) == T("else", "", <<body>>)
For(init, cond, step, body) == T("for", "", <<init, cond, step, body>>)
ForIn(name, of, body) == T("foreach", "", <<Id(name), of, body>>)
While(cond, body) == T("while", "", <<cond, body>>)
Try(body) == T("try", "", <<body>>)
Catch(name, body) == T("catch", "", <<Id(name), body>>)
Return(e) == T("return", "", <<e>>)
Throw(e) == T("throw", "", <<e>>)

Method(attribute, name, params, body) == T("method", attribute, <<Id(name), T("params", "", params), body>>)
Annotation(name) == T("annotation", "", <<Id(name)>>)
Class(name, members) == T("class", "", <<Id(name)>> \o members)
Derived(name, bases, members) ==
  T("class", "", <<Id(name), T("inherit", "", bases)>> \o members)
Program(classes) == T("root", "", classes)

-----------------------------------------------------------------------------
(* The text of a term. *)

Each(F(_), s) == [i \in DOMAIN s |-> F(s[i])]
Commas(texts) == FoldLeft(LAMBDA acc, s : IF acc = <<>> THEN s ELSE acc \o <<",">> \o s,
                          <<>>, texts)
Concat(texts) == FoldLeft(LAMBDA acc, s : acc \o s, <<>>, texts)

\* A starred parameter and an attribute are two tokens.
Spelled(raw) ==
  CASE \E n \in Names : raw = Starred(n) -> <<"*", Plain(raw)>>
    [] \E n \in Names : raw = "@" \o n   -> <<"@", CHOOSE n \in Names : raw = "@" \o n>>
    [] OTHER                             -> <<raw>>

RECURSIVE Text(_), Statement(_)
Texts(terms) == [i \in DOMAIN terms |-> Text(terms[i])]
Statement(s) ==
  IF s.kind \in {"if", "else", "for", "foreach", "while", "try", "catch", "block"}
  THEN Text(s) ELSE Text(s) \o <<";">>
Statements(ss) == Concat([i \in DOMAIN ss |-> Statement(ss[i])])
Text(s) ==
  LET k(i) == Text(s.kids[i])
      Rest(from) == Texts(SubSeq(s.kids, from, Len(s.kids)))
      Members(from) == Concat([i \in from..Len(s.kids) |->
                         IF s.kids[i].kind = "assignment" THEN k(i) \o <<";">> ELSE k(i)])
  IN  CASE s.kind \in {"ident", "literal", "bool", "null"} -> Spelled(s.raw)
        [] s.kind \in {"op", "assignment"} -> k(1) \o <<s.raw>> \o k(2)
        [] s.kind = "standalone_op" -> k(1) \o <<s.raw>>
        [] s.kind = "call"          -> k(1) \o <<"(">> \o Commas(Rest(2)) \o <<")">>
        [] s.kind = "memberaccess"  -> k(1) \o <<".">> \o k(2)
        [] s.kind = "arraccess"     -> k(1) \o <<"[">> \o k(2) \o <<"]">>
        [] s.kind = "newarr"        -> <<"[">> \o Commas(Rest(1)) \o <<"]">>
        [] s.kind = "dic"           -> <<"{">> \o k(1) \o <<":">> \o k(2) \o <<"}">>
        [] s.kind = "block"         -> <<"{">> \o Statements(s.kids) \o <<"}">>
        [] s.kind = "single"        -> Statements(s.kids)
        [] s.kind \in {"if", "while"} -> <<s.kind, "(">> \o k(1) \o <<")">> \o k(2)
        [] s.kind \in {"else", "try"} -> <<s.kind>> \o k(1)
        [] s.kind = "for" -> <<"for", "(">> \o k(1) \o <<";">> \o k(2) \o <<";">> \o k(3)
                             \o <<")">> \o k(4)
        [] s.kind = "foreach" -> <<"for", "(">> \o k(1) \o <<"in">> \o k(2) \o <<")">> \o k(3)
        [] s.kind = "catch" -> <<"catch", "(">> \o k(1) \o <<")">> \o k(2)
        [] s.kind \in {"return", "throw"} -> <<s.kind>> \o k(1)
        [] s.kind = "annotation" -> <<"@">> \o k(1)
        [] s.kind = "method" ->
             (IF s.raw = "static" THEN <<"static">> ELSE <<>>) \o <<"def">> \o k(1)
             \o <<"(">> \o Commas(Texts(s.kids[2].kids)) \o <<")">> \o k(3)
        [] s.kind = "inherit" -> <<":">> \o Commas(Rest(1))
        [] s.kind = "class" ->
             IF Len(s.kids) > 1 /\ s.kids[2].kind = "inherit"
             THEN <<"class">> \o k(1) \o k(2) \o <<"{">> \o Members(3) \o <<"}">>
             ELSE <<"class">> \o k(1) \o <<"{">> \o Members(2) \o <<"}">>
        [] s.kind = "include" -> <<"include">> \o k(1)
        [] s.kind = "root" -> Concat(Rest(1))

-----------------------------------------------------------------------------
(* The trees expected of it. *)

Shown(s) == IF s.kind \in {"ident", "literal", "op", "standalone_op"} THEN s.raw ELSE ""

RECURSIVE Parsed(_)
Parsed(s) == T(IF s.kind \in {"single", "dic"} THEN "block" ELSE s.kind, Shown(s),
               [i \in DOMAIN s.kids |-> Parsed(s.kids[i])])

Numbers == [s \in {ToString(i) : i \in -(IntMax + 1)..IntMax} |->
              CHOOSE i \in -(IntMax + 1)..IntMax : ToString(i) = s]
Number(i) == Lit(ToString(i))
Folded(l, o, r) ==
  LET m == Numbers[l.raw]
      n == Numbers[r.raw]
  IN  CASE o = "+" -> Number(m + n)
        [] o = "-" -> Number(m - n)
        [] o = "*" -> Number(m * n)
        [] o = "/" -> Number(IF m < 0 THEN -((-m) \div n) ELSE m \div n)
        [] OTHER   -> T("bool", "", <<>>)
Reducible == {"+", "-", "*", "/", "<", ">", "<=", ">="}
Operation(l, o, r) ==
  IF o \in Reducible /\ {l.kind, r.kind} = {"literal"} /\ {l.raw, r.raw} \subseteq DOMAIN Numbers
     /\ <<o, r.raw>> /= <<"/", "0">>
  THEN Folded(l, o, r) ELSE Op(l, o, r)

\* An assignment, of terms that are expanded already.
Store(l, r) ==
  IF l.kind = "callmember" /\ l.kids[1].raw = "__getitem__"
  THEN T("callmember", "", <<Id("__setitem__")>> \o Tail(l.kids) \o <<r>>)
  ELSE T("assignment", "", <<l, r>>)

RECURSIVE Lowered(_)
LoweredBlock(statements) ==
  LET Add1(acc, s) ==
        LET low == Lowered(s)
        IN  IF low.kind = "else" THEN [acc EXCEPT ![Len(acc)].kids = Append(@, low)]
            ELSE IF low.kind \in {"call", "callmember", "newobj"}
            THEN acc \o <<low, T("pop", "", <<>>)>> ELSE Append(acc, low)
  IN  T("block", "", FoldLeft(Add1, <<>>, statements))
LoweredClass(kids) ==
  LET Add1(acc, m) ==
        CASE m.kind = "annotation" -> [acc EXCEPT !.notes = Append(@, Lowered(m))]
          [] m.kind = "method" ->
               [notes |-> <<>>,
                kids  |-> Append(acc.kids, [Lowered(m) EXCEPT !.kids = @ \o acc.notes])]
          [] m.kind = "assignment" ->
               [acc EXCEPT !.kids = Append(@, [Lowered(m) EXCEPT !.kind = "field"])]
          [] OTHER -> [acc EXCEPT !.kids = Append(@, Lowered(m))]
  IN  T("class", "", FoldLeft(Add1, [notes |-> <<>>, kids |-> <<>>], kids).kids)
Lowered(s) ==
  LET k(i) == Lowered(s.kids[i])
      Rest(from) == [i \in 1..(Len(s.kids) - from + 1) |-> Lowered(s.kids[i + from - 1])]
  IN  CASE s.kind = "op" /\ s.raw \in DOMAIN OpOf ->
             Store(k(1), Operation(k(1), OpOf[s.raw], k(2)))
        [] s.kind = "op" /\ s.raw \notin DOMAIN OpOf -> Operation(k(1), s.raw, k(2))
        [] s.kind = "standalone_op" ->
             Store(k(1), Op(k(1), IF s.raw = "++" THEN "+" ELSE "-", Number(1)))
        [] s.kind = "assignment" -> Store(k(1), k(2))
        [] s.kind = "arraccess" -> T("callmember", "", <<Id("__getitem__")>> \o Rest(1))
        [] s.kind = "memberaccess" /\ s.kids[2].kind = "call" ->
             LET call == k(2)
             IN  IF call.kids[1].raw = "new"
                 THEN T("newobj", "", <<k(1)>> \o Tail(call.kids))
                 ELSE T("callmember", "", <<call.kids[1], k(1)>> \o Tail(call.kids))
        [] s.kind = "literal" /\ s.raw \in DOMAIN Parts ->
             LET p == Parts[s.raw]
             IN  Op(Op(Lit(p[1]), "+", T("callmember", "", <<Id("to_string"), Id(p[2])>>)),
                    "+", Lit(IF Len(p) = 3 THEN p[3] ELSE ""))
        [] s.kind = "dic" -> T("newdic", "", Rest(1))
        [] s.kind \in {"block", "single"} -> LoweredBlock(s.kids)
        [] s.kind = "class" -> LoweredClass(s.kids)
        [] OTHER -> T(s.kind, Shown(s), Rest(1))

Expects(s, outcome) ==
  [tokens |-> Text(s), outcome |-> outcome, parsed |-> Parsed(s), lowered |-> Lowered(s)]

-----------------------------------------------------------------------------
(* How tokens are written: with a blank where two would be read as one, or *)
(* with blanks and comments everywhere.                                    *)

Decimals == {"1.5"}
Written(token) ==
  CASE token \in DOMAIN Parts                         -> "'" \o token \o "'"
    [] token \in Literals \ (DOMAIN Parts \union DOMAIN Integer \union Decimals) -> "\"" \o token \o "\""
    [] OTHER                                          -> token
Begin1(token) == SubSeq(Written(token), 1, 1)
Tight(tokens_) ==
  FoldLeft(LAMBDA acc, t :
             acc \o (IF acc /= "" /\ {SubSeq(acc, Len(acc), Len(acc)), Begin1(t)} \subseteq IdentChars
                     THEN " " ELSE "") \o Written(t), "", tokens_)
Wide(tokens_) ==
  FoldLeft(LAMBDA acc, t :
             acc \o Written(t) \o (IF t \in {";", "{", "}"} THEN "\t# a \"note\n" ELSE " "), "", tokens_)

-----------------------------------------------------------------------------
(* Expressions. *)

a == Id("a")
b == Id("b")
x == Id("x")
one == Lit("1")
f(args) == Call("f", args)
Plus(l, r) == Op(l, "+", r)

Chains == <<  \* priorities and left associativity
  Plus(a, b), Op(Op(a, "-", b), "-", one), Plus(a, Op(b, "*", one)),
  Plus(Op(a, "*", b), one), Op(Op(a, "/", b), "*", b),
  Op(Op(a, "<", Plus(b, one)), "&&", Op(b, ">", a)), Op(Op(a, "&&", b), "||", True),
  Op(a, "==", NullE), Op(Op(a, "*", b), "!=", Op(b, "*", a)), Op(a, "is", Id("X")) >>
Calls == <<
  f(<<>>), f(<<a>>), f(<<a, b>>), f(<<f(<<f(<<a>>)>>)>>), f(<<f(<<a, b>>), b>>),
  f(<<Plus(a, b), b>>), f(<<Dot(a, x), Index(b, one)>>),
  Dot(a, f(<<b>>)), Dot(Dot(a, f(<<b>>)), f(<<a, b>>)), Dot(a, f(<<f(<<b>>)>>)),
  Dot(Dot(Id("X"), Call("new", <<a>>)), f(<<b>>)), Dot(f(<<>>), f(<<>>)),
  Dot(This, f(<<f(<<b>>), a>>)), Dot(Dot(a, x), f(<<b>>)) >>
Accesses == <<
  Dot(a, x), Dot(Dot(a, x), Id("y")), Index(a, b), Index(a, f(<<b>>)), Id("@a"),
  Plus(Lit("1.5"), Lit("if(a) # b")),
  Arr(<<one>>), Arr(<<a, f(<<b>>), True>>), Arr(<<Arr(<<a, b>>), Arr(<<one>>)>>), Lit("hi {{a}}"),
  Lit("{{a}} hi") >>
Mixed == <<
  Plus(Op(a, "*", Dot(b, f(<<a>>))), Index(b, a)), Plus(f(<<a>>), Dot(f(<<b>>), x)),
  Op(Dot(a, f(<<b>>)), "<", Index(a, one)), Op(Index(a, b), "-", Dot(a, x)) >>
Constants == <<
  Plus(one, Op(Lit("2"), "*", Lit("3"))), Op(one, "-", Op(Lit("3"), "/", Lit("2"))), Op(Lit("-3"), "/", Lit("2")),
  Op(Lit("2"), "<", Lit("3")), Op(Plus(one, one), ">=", Lit("3")), Op(one, "-", Lit("3")),
  Op(one, "<=", one), Op(Lit("2"), ">", one), Op(one, "==", one) >>
Exprs == Chains \o Calls \o Accesses \o Mixed \o Constants

-----------------------------------------------------------------------------
(* Statements, each between a declaration and a call. *)

g == f(<<b>>)
Braced == Block(<<g>>)
Simple == Assign(b, a)
Assignments == Each(LAMBDA e : Assign(b, e), Exprs) \o <<
  Assign(Index(a, one), b), Assign(Index(a, b), Plus(a, one)), Assign(Index(a, f(<<b>>)), Index(b, one)),
  Assign(Dot(a, x), Dot(b, f(<<a>>))), Assign(Dot(Dot(a, x), Id("y")), b),
  Assign(b, Dic(<<Id("y"), a>>)), Assign(Id("@a"), b),
  Op(a, "+=", b), Op(a, "-=", f(<<b>>)), Op(a, "*=", Dot(b, x)), Op(b, "/=", Index(a, one)),
  Op(Index(a, one), "+=", b), Inc(a, "++"), Inc(Index(a, one), "--") >>
Jumps == Each(Return, <<a, Plus(a, b), Dot(a, f(<<b>>)), NullE>>) \o <<Throw(f(<<a>>))>>
Conditions == <<a, Op(a, "<", b), Dot(a, f(<<b>>)), Index(a, b)>>
Branches ==
  Each(LAMBDA e : <<If(e, Braced)>>, Conditions)
  \o Each(LAMBDA e : <<If(e, Single(<<g>>))>>, Conditions)
  \o Each(LAMBDA e : <<If(e, Braced), Else(Single(<<Simple>>))>>, Conditions) \o <<
  <<If(a, Single(<<g>>)), Else(Single(<<Simple>>))>>,
  <<If(a, Block(<<>>)), Else(Braced)>>,
  <<If(a, Block(<<If(b, Braced), Else(Braced)>>)), Else(Braced)>>,
  <<If(a, Block(<<If(b, Single(<<g>>))>>)), Else(Single(<<Simple>>))>>,
  <<If(a, Braced), Else(Single(<<If(b, Single(<<Simple>>)), Else(Single(<<g>>))>>))>> >>
Loops == Each(LAMBDA e : <<While(e, Braced)>>, Conditions) \o <<
  <<For(Assign(x, one), Op(x, "<", b), Inc(x, "++"), Braced)>>,
  <<For(Assign(x, one), Op(x, "<", b), Inc(x, "++"), Single(<<g>>))>>,
  <<ForIn("x", a, Braced)>>, <<ForIn("x", Dot(a, f(<<b>>)), Single(<<Assign(b, x)>>))>>,
  <<While(a, Block(<<ForIn("x", a, Block(<<If(x, Single(<<Return(x)>>))>>))>>))>> >>
Handlers == <<
  <<Try(Braced), Catch("x", Block(<<Assign(b, x)>>))>>,
  <<Try(Block(<<Try(Braced), Catch("x", Block(<<Throw(x)>>))>>)), Catch("x", Braced)>>,
  <<Try(Block(<<Assign(x, a), If(x, Braced)>>)), Catch("y", Block(<<Assign(x, Id("y"))>>))>> >>
Nested == <<
  <<If(a, Block(<<Assign(x, a), If(x, Block(<<Assign(Id("y"), x)>>))>>)),
    If(b, Block(<<Assign(Id("y"), a)>>))>>,
  <<If(a, Block(<<Assign(x, a), While(x, Block(<<Assign(Id("y"), x), Assign(x, b)>>))>>))>> >>

Compound == Branches \o Loops \o Handlers \o Nested

Main == <<Annotation("main"), Method("static", "m", <<>>, Block(<<>>))>>
InMethod(method, statements) ==
  Program(<<Class("X", <<Method(method, "f", <<a, b>>, Block(statements))>> \o Main)>>)
Around(ss) == InMethod("", <<Assign(Id("inner"), a)>> \o ss \o <<f(<<Id("inner")>>)>>)

\* The statements of s, so many in a program.
InGroups(size, s) ==
  [i \in 1..((Len(s) + size - 1) \div size) |->
     SubSeq(s, size * (i - 1) + 1, IF size * i > Len(s) THEN Len(s) ELSE size * i)]

Accepted ==
  Each(Around, InGroups(3, Assignments \o Jumps \o
                           <<f(<<a>>), Dot(a, f(<<b>>)), Dot(Id("X"), Call("new", <<a>>))>>))
  \o Each(Around, Compound \o Each(LAMBDA ss : <<While(a, Block(ss))>>, Compound)
                  \o Each(LAMBDA ss : <<Try(Braced), Catch("e", Block(ss))>>, Compound))

Body == Block(<<Return(b)>>)
Classes == <<
  Program(<<T("include", "", <<Lit("1")>>), Class("X", Main)>>),
  Program(<<Class("X", Main \o <<Method("", "g", <<a, b>>, Body)>>),
            Derived("Y", <<Id("X")>>, <<Method("", "f", <<b>>, Body)>>)>>),
  Program(<<Class("X", <<Assign(a, one), Annotation("main"), Annotation("x"),
                         Method("static", "f", <<b>>, Block(<<Assign(Id("inner"), a)>>))>>)>>),
  Program(<<Class("X", <<Method("", "f", <<a, Assign(b, one)>>, Body),
                         Method("", "g", <<b, Id("*args")>>, Block(<<Return(Id("args"))>>))>> \o Main)>>),
  Program(<<Class("X", <<Assign(a, one), Assign(b, Lit("2")),
                         Method("", "f", <<>>, Block(<<Return(a)>>))>> \o Main)>>) >>

\* Classes that inherit: each defines or overrides some of the methods f and to_string.
F == Method("", "f", <<>>, Block(<<>>))
ToString_ == Method("", "to_string", <<>>, Block(<<>>))
Inheriting(bases) ==
  Program(<<Class("X", Main \o <<F>>), Class("Y", <<ToString_>>)>>
          \o [i \in DOMAIN bases |-> Derived(<<"Z", "W">>[i], Each(Id, bases[i]), <<>>)])
Hierarchies == Each(Inheriting, <<
  <<<<"X", "Y">>, <<"Z">>>>, <<<<"Y", "X">>, <<"Z", "X">>>>, <<<<"W">>, <<"X", "Y">>>>,
  <<<<"X">>, <<"X", "Z">>>>, <<<<"array", "X">>, <<"Z", "object">>>>,
  <<<<"V">>, <<"X", "V">>>>, <<<<"X", "W">>, <<"Y", "X">>>> >>)
Circles == Each(Inheriting, <<<<<<"Z">>>>, <<<<"X", "W">>, <<"Z">>>> >>)

Wrong == <<   \* a program that is parsed, and rejected
  InMethod("", <<Assign(b, x)>>),
  InMethod("", <<If(a, Block(<<Assign(x, a)>>)), f(<<x>>)>>),
  InMethod("", <<Plus(a, b)>>), InMethod("", <<Arr(<<a>>)>>),
  InMethod("", <<Assign(b, Plus(a, True))>>),
  InMethod("static", <<Assign(b, Id("@a"))>>),
  InMethod("", <<Call("h", <<a>>)>>), InMethod("", <<Dot(Id("X"), Call("h", <<>>))>>),
  InMethod("static", <<Dot(This, f(<<>>))>>), InMethod("static", <<Assign(b, Dot(This, x))>>),
  InMethod("", <<Assign(f(<<>>), a)>>),
  Program(<<Class("X", <<F, Annotation("main"), Method("static", "m", <<>>, Block(<<f(<<>>)>>))>>)>>),
  Program(<<Class("X", <<Method("static", "f", <<>>, Block(<<>>))>>)>>),
  Program(<<Class("X", Main), Class("Y", Main)>>),
  Program(<<Class("X", <<Annotation("main"), F>>)>>),
  InMethod("", <<Assign(b, Op(Lit("3"), "*", Lit("3")))>>),
  InMethod("", <<f(<<Assign(b, a)>>)>>),
  InMethod("", <<Assign(b, Lit("99"))>>), InMethod("", <<Assign(Id("a_name_of_thirty_one_characters"), a)>>),
  Program(<<Class("X", <<Method("", "f", <<Id("*args"), a>>, Body)>> \o Main)>>),
  Program(<<Class("X", <<Method("", "f", <<>>, Block(<<>>)), Method("", "f", <<a>>, Block(<<>>))>> \o Main)>>) >>
Dies == Each(LAMBDA e : InMethod("", <<Assign(b, e)>>), <<
  Op(one, "/", Lit("0")), Op(Lit("-8"), "/", Lit("-1")), Op(Lit("-1"), "*", Lit("-8"))>>)

\* Texts that are no programs.
Broken == <<
  <<"class", "X", "{", "class", "Y", "{", "}", "}">>,
  <<"class", "X", "{", "a", ".", "b", ";", "}">>,
  <<"class", "X", "{", "static", "f", "(", ")", "{", "}", "}">>,
  <<"class", "X", "{", "def", "f", "(", "1", "*", ")", "{", "}", "}">>,
  <<"return">>,
  <<"class", "?">>, <<"class", "X", "\"">> >>

Expecting(outcome, terms) == Each(LAMBDA s : Expects(s, outcome), terms)
Unparsed(tokens_) == [tokens |-> tokens_, outcome |-> "rejected", parsed |-> T("", "", <<>>),
                   lowered |-> T("", "", <<>>)]
\* Every other source is written tightly.
WithText(sources) ==
  [i \in DOMAIN sources |->
     [text |-> IF i % 2 = 1 THEN Tight(sources[i].tokens) ELSE Wide(sources[i].tokens)] @@ sources[i]]
AllSources == WithText(Expecting("loaded", Accepted \o Classes \o Hierarchies)
              \o Expecting("overflowed", Circles) \o Expecting("rejected", Wrong)
              \o Expecting("trapped", Dies) \o Each(Unparsed, Broken))

\* tests/syntax/call/param_expression.rk
ParamExpression == WithText(Expecting("loaded", <<
  InMethod("static", <<f(<<Plus(a, b), Op(b, "*", a)>>)>>) >>))

Natives == "object" :> {"to_string", "equals"} @@ "array" :> {"to_string", "push"}
Integers4 == "0" :> 0 @@ "1" :> 1 @@ "2" :> 2 @@ "3" :> 3 @@ "-3" :> -3 @@ "-1" :> -1 @@ "-8" :> -8
Interpolated == "hi {{a}}" :> <<"hi ", "a">> @@ "{{a}} hi" :> <<"", "a", " hi">>
=============================================================================
