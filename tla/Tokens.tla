---------------------------- MODULE Tokens ----------------------------
(* The tokens lexer.cpp hands to the parser, and what the parser makes of  *)
(* one token alone.                                                        *)
EXTENDS Integers, Sequences, TLC

CONSTANTS
  Literals,   \* the texts that are literals (numbers, quoted strings)
  Integer,    \* the values of those that are integers, a function
  Parts,      \* the literals with interpolations: texts and names in turn
  Names       \* the names of variables

Keywords == {"include", "class", "def", "static", "if", "else", "for",
             "while", "return", "null", "in", "try", "catch", "throw", "=>"}

\* The type of every fixed text (the rules table; `is` becomes an operator
\* after lexing).
RuleTypes ==
  LET Of(type, raws) == [raw \in raws |-> type]
  IN  Of("keyword", Keywords)
      @@ Of("op", {"++", "--", "-=", "+=", "*=", "/=", "is", "+", "-", "*",
                   "/", "&&", "||", "==", "!=", "<=", ">=", "<", ">", "="})
      @@ ("@" :> "annotation") @@ ("." :> "dot") @@ ("," :> "comma")
      @@ (":" :> "colon") @@ (";" :> "semicolon")
      @@ ("(" :> "left_paren") @@ (")" :> "right_paren")
      @@ ("{" :> "left_bracket") @@ ("}" :> "right_bracket")
      @@ ("[" :> "left_sq_bracket") @@ ("]" :> "right_sq_bracket")
      @@ Of("literal", {"true", "false"})

\* The priorities of the rules table; every other token has priority 0.
RulePriorities ==
  LET Of(priority, raws) == [raw \in raws |-> priority]
  IN  Of(-9000, {"if", "else", "while", "return"}) @@ ("for" :> -10000)
      @@ Of(-5001, {"+", "-"}) @@ Of(-5000, {"*", "/"})
      @@ Of(-5003, {"&&", "||"})
      @@ Of(-5002, {"==", "!=", "<=", ">=", "<", ">"})
      @@ ("=" :> -7000) @@ Of(-2000, {"(", ")"}) @@ ("}" :> -99999)
      @@ Of(-900, {"[", "]"}) @@ ("." :> -3000) @@ ("," :> -9900)
      @@ (":" :> -1000) @@ (";" :> -9999)

\* A token. stype: what a handler has already decided it will become;
\* hint: what its opening bracket should become.
Token(raw) ==
  [raw      |-> raw,
   type     |-> IF raw \in DOMAIN RuleTypes THEN RuleTypes[raw]
                ELSE IF raw \in Literals THEN "literal" ELSE "ident",
   priority |-> IF raw \in DOMAIN RulePriorities THEN RulePriorities[raw] ELSE 0,
   stype    |-> "none",
   hint     |-> "none"]

\* token::padding(): what stands before the first and after the last token.
Padding == [raw |-> "", type |-> "none", priority |-> 0,
            stype |-> "none", hint |-> "none"]

KeywordStokens ==
  [raw \in Keywords \ {"include", "static", "=>"} |->
     IF raw = "def" THEN "st_defmethod" ELSE "st_" \o raw]

\* The node kind of a token on its own; "nothing" and "none" yield no node.
StokenType(t) ==
  CASE t.stype /= "none"            -> t.stype
    [] t.type = "left_bracket"      -> "st_begin_block"
    [] t.type = "right_bracket"     -> "st_end_block"
    [] t.type = "literal"           -> IF t.raw \in {"true", "false"}
                                       THEN "st_" \o t.raw ELSE "st_literal"
    [] t.type \in {"ident", "op", "comma"} -> t.type
    [] t.type = "semicolon"         -> "endl"
    [] t.type = "colon"             -> "st_colon"
    [] t.type = "dot"               -> "nothing"
    [] t.type = "keyword" /\ t.raw \in DOMAIN KeywordStokens
                                    -> KeywordStokens[t.raw]
    [] OTHER                        -> "none"

\* A parameter that takes the remaining arguments is marked by a star.
Starred(name) == "*" \o name
Plain(ident) == IF \E name \in Names : ident = Starred(name)
                THEN CHOOSE name \in Names : ident = Starred(name) ELSE ident

parse(t) == [raw |-> t.raw, type |-> StokenType(t)]
=============================================================================
