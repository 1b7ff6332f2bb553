---------------------------- MODULE Sexper ----------------------------
(* sexper: tokens to a prefix sequence of s-tokens. The tokens are         *)
(* rearranged (preprocess), then read backwards with an operator stack.    *)
EXTENDS Lexer

VARIABLES
  cursor,      \* position of the loop that is running
  stack,       \* operators and operands that wait
  result,      \* the s-tokens produced, last one first in the text
  depth,       \* which braces are open: 0 outside, 1 in a class, else a method
  next_is_at,  \* the previous token was `@`
  param_list   \* state = ss_param_list

sexperVars == <<cursor, stack, result, depth, next_is_at, param_list>>

\* The stages of this module: "index", "call" and "at" are the loops of preprocess,
\* which reverses the tokens; then "sexp" and "sexped".
SexperInit ==
  /\ cursor = 2
  /\ stack = <<>> /\ result = <<>> /\ depth = 0
  /\ next_is_at = FALSE /\ param_list = FALSE

-----------------------------------------------------------------------------
(* preprocess *)

\* The position where the bracket opened at i is closed; 0 if it is not.
Closing(s, i, open, close) ==
  LET Count(type, j) == Cardinality({k \in i..j : s[k].type = type})
      closings == {j \in i..Len(s) : /\ s[j].type = close
                                     /\ Count(open, j) = Count(close, j)}
  IN  IF closings = {} THEN 0 ELSE Min(closings)

\* The first bracket at or after `from` that stands behind a name and is
\* closed, with the position where it is closed; nothing if there is none.
FirstMovable(s, from, open, close) ==
  LET movable == {i \in from..Len(s) : /\ i > 1 /\ s[i].type = open
                                       /\ s[i - 1].type \in {"ident", "keyword"}
                                       /\ Closing(s, i, open, close) > 0}
  IN  {<<i, Closing(s, i, open, close)>> : i \in {i \in movable : i = Min(movable)}}

\* The name before the bracket at i moves behind its closing bracket.
NameLast(s, i, close) ==
  SubSeq(s, 1, i - 2) \o SubSeq(s, i, close) \o <<s[i - 1]>>
    \o SubSeq(s, close + 1, Len(s))

Indexed == FirstMovable(tokens, cursor, "left_sq_bracket", "right_sq_bracket")
Called == FirstMovable(tokens, cursor, "left_paren", "right_paren")

\* foo[1] -> [1]foo. The loop goes on behind the token after the name.
MoveIndexed ==
  /\ stage = "index"
  /\ \/ /\ Indexed = {}
        /\ stage' = "call" /\ cursor' = 2 /\ UNCHANGED tokens
     \/ \E at \in Indexed :
          /\ tokens' = NameLast(tokens, at[1], at[2])
          /\ cursor' = at[2] + 2
          /\ UNCHANGED stage
  /\ UNCHANGED <<stack, result, depth, next_is_at, param_list, errors>>

\* A name that is no member binds as loosely as its call.
Loosened(s, open, close) ==
  LET member == open > 2 /\ s[open - 2].type = "dot"
      name == IF member THEN s[open - 1].priority ELSE Min({-9901, s[open - 1].priority})
  IN  [s EXCEPT ![open].priority = -9998, ![close].priority = -9998, ![open - 1].priority = name]

\* foo(1) -> (1)foo.
MoveCalled ==
  /\ stage = "call"
  /\ \/ /\ Called = {}
        /\ stage' = "at" /\ UNCHANGED <<tokens, cursor>>
     \/ \E at \in Called :
          /\ tokens' = NameLast(Loosened(tokens, at[1], at[2]), at[1], at[2])
          /\ cursor' = at[1]
          /\ UNCHANGED stage
  /\ UNCHANGED <<stack, result, depth, next_is_at, param_list, errors>>

\* @a -> a@, and everything backwards.
Turn ==
  LET s == tokens
      Is(i) == i \in DOMAIN s /\ s[i].type = "annotation"
  IN  /\ stage = "at"
      /\ tokens' = Reverse([i \in DOMAIN s |->
                     CASE Is(i)     -> s[i + 1]
                       [] Is(i - 1) -> s[i - 1]
                       [] OTHER     -> s[i]])
      /\ stage' = "sexp" /\ cursor' = 1
      /\ UNCHANGED <<stack, result, depth, next_is_at, param_list, errors>>

-----------------------------------------------------------------------------
(* Flushing: all three kinds keep a prefix of the stack and emit the rest. *)

Emitted(s, kept) ==
  SelectSeq([i \in 1..(Len(s) - kept) |-> parse(s[Len(s) + 1 - i])],
            LAMBDA t : t.type \notin {"none", "nothing"})

\* mutant: what has the same priority waits, too
FlushLooser(s, priority) == Max({0} \union {i \in DOMAIN s : s[i].priority < priority})

flush_until_priority(s, priority) ==
  Max({0} \union {i \in DOMAIN s : s[i].priority <= priority})

flush_until_type(s, type) ==
  Max({0} \union {i - 1 : i \in {i \in DOMAIN s : s[i].type = type}})

\* An operand on top goes, and the call, member or index it is the name of.
flush_expression(s) ==
  LET top == Len(s)
      Operand == {"st_literal", "ident", "st_memberaccess", "st_null",
                  "st_true", "st_false"}
      Prefix == {"st_begin_call", "st_memberaccess", "st_arraccess"}
  IN  IF top = 0 \/ StokenType(s[top]) \notin Operand THEN top
      ELSE IF top > 1 /\ s[top - 1].stype \in Prefix THEN top - 2
      ELSE top - 1

-----------------------------------------------------------------------------
(* One step reads one token. *)

At == tokens[cursor]
prev_token == IF cursor = 1 THEN Padding ELSE tokens[cursor - 1]
next_token == IF cursor = Len(tokens) THEN Padding ELSE tokens[cursor + 1]

\* The brace that opens a scope flushes everything and is handled outside it;
\* the one that closes it is handled inside: the text is read backwards.
DepthAt == CASE At.type = "left_bracket"  -> depth - 1
             [] At.type = "right_bracket" -> depth + 1
             [] OTHER                     -> depth
OnStack == IF At.type = "left_bracket" THEN <<>> ELSE stack
Before == IF At.type = "left_bracket" THEN result \o Emitted(stack, 0) ELSE result

\* The common part of every handler: the new stack, and what is emitted;
\* mostly: flush down to `kept`, push, emit.
Put(newstack, emitted) ==
  /\ stack' = newstack
  /\ result' = Before \o emitted
  /\ cursor' = cursor + 1
  /\ UNCHANGED <<tokens, stage>>
Handle(kept, pushed, emitted) ==
  Put(SubSeq(OnStack, 1, kept) \o pushed, Emitted(OnStack, kept) \o emitted)

All == Len(OnStack)
As(stype) == [At EXCEPT !.stype = stype]
Node(type) == <<[raw |-> At.raw, type |-> type]>>
Reading(lo, hi) == stage = "sexp" /\ cursor <= Len(tokens) /\ DepthAt \in lo..hi
Flags == <<next_is_at, param_list, errors>>

\* Outside a class.
sexp_root ==
  LET kind == CASE At.raw = "class"                        -> "st_class"
                [] At.raw = "include"                      -> "st_include"
                [] At.type = "ident"                       -> "ident"
                [] At.type = "literal"                     -> "st_literal"
                [] At.type = "colon"                       -> "st_begin_inherit"
                [] At.type = "left_bracket"                -> "st_end_inherit"
                [] At.type \in {"comma", "right_bracket", "semicolon"} -> "nothing"
                [] OTHER                                   -> "none"
  IN  /\ Reading(0, 0)
      /\ Handle(All, <<>>, IF kind \in {"none", "nothing"} THEN <<>> ELSE Node(kind))
      /\ depth' = DepthAt
      /\ errors' = (errors \/ kind = "none")
      /\ UNCHANGED <<next_is_at, param_list>>

\* In a class: fields, annotations and the heads of methods.
sexp_class ==
  /\ Reading(1, 1)
  /\ depth' = DepthAt
  /\ \/ /\ At.type = "semicolon"
        /\ Handle(flush_until_priority(stack, At.priority), <<>>, Node("endl"))
        /\ UNCHANGED Flags
     \/ /\ At.type = "op" /\ param_list /\ At.raw = "*"
        /\ IF Last(stack).type = "ident"
           THEN Put([stack EXCEPT ![All].raw = Starred(@)], <<>>)
                /\ UNCHANGED errors
           ELSE Handle(All, <<>>, <<>>) /\ errors' = TRUE
        /\ UNCHANGED <<next_is_at, param_list>>
     \/ /\ At.type = "op" /\ ~(param_list /\ At.raw = "*")
        /\ Handle(All, <<At>>, <<>>)
        /\ UNCHANGED Flags
     \/ /\ At.type = "annotation"
        /\ Handle(All, <<>>, <<>>)
        /\ next_is_at' = TRUE
        /\ UNCHANGED <<param_list, errors>>
     \/ /\ At.type = "keyword" /\ At.raw = "def"
        /\ Handle(All - 1, <<>>, Node("st_defmethod"))
        /\ UNCHANGED Flags
     \/ /\ At.type = "keyword" /\ At.raw = "static"
        /\ Handle(All, <<>>, Node("st_static"))
        /\ errors' = (errors \/ prev_token.raw /= "def")
        /\ UNCHANGED <<next_is_at, param_list>>
     \/ /\ \/ At.type = "keyword" /\ At.raw \notin {"def", "static"}
           \/ At.type \in {"dot", "colon", "left_sq_bracket", "right_sq_bracket"}
        /\ Handle(All, <<>>, <<>>)
        /\ errors' = TRUE
        /\ UNCHANGED <<next_is_at, param_list>>
     \/ /\ At.type = "left_paren"
        /\ Handle(flush_until_type(stack, "right_paren"), <<>>, <<>>)
        /\ param_list' = FALSE
        /\ UNCHANGED <<next_is_at, errors>>
     \/ /\ At.type = "right_paren"
        /\ Handle(All, <<As("st_begin_param")>>, Node("st_end_param"))
        /\ param_list' = TRUE
        /\ UNCHANGED <<next_is_at, errors>>
     \/ /\ At.type = "literal"
        /\ Handle(All, <<>>, Node("st_literal"))
        /\ UNCHANGED Flags
     \/ /\ At.type = "ident"
        /\ IF next_is_at
           THEN Handle(All, <<>>, Node("ident") \o Node("st_annotation"))
           ELSE Handle(All, <<At>>, <<>>)
        /\ next_is_at' = FALSE
        /\ UNCHANGED <<param_list, errors>>
     \/ /\ At.type = "comma"
        /\ Handle(flush_until_priority(stack, At.priority), <<>>, Node("comma"))
        /\ UNCHANGED Flags
     \/ /\ At.type = "right_bracket"
        /\ Handle(All, <<>>, Node("st_end_block"))
        /\ UNCHANGED Flags

\* In a method. Each handler that leaves the flags alone is a disjunct of
\* `body`; `[` behind a name pushes the access, `]` looks at what follows it
\* in the text to tell an array from an index.
StartsArray ==
  prev_token.type \in {"semicolon", "comma", "right_paren", "right_sq_bracket",
                       "right_bracket", "keyword"}
Flushed == flush_until_priority(OnStack, -9999)
sexp_methodbody ==
  /\ Reading(2, 99)
  /\ depth' = CASE At.type = "left_bracket"  -> DepthAt - 1
                [] At.type = "right_bracket" -> DepthAt + 1
                [] OTHER                     -> DepthAt
  /\ UNCHANGED <<param_list, errors>>
  /\ \/ /\ At.type = "dot"
        /\ Handle(IF prev_token.type = "left_paren" THEN All
                  ELSE flush_until_priority(stack, At.priority), <<>>, <<>>)
        /\ UNCHANGED next_is_at
     \/ /\ At.type = "comma"
        /\ Handle(flush_expression(stack), <<>>, Node("comma"))
        /\ UNCHANGED next_is_at
     \/ /\ At.type \in {"semicolon", "colon"}
        /\ Handle(flush_until_priority(stack, At.priority), <<>>, <<parse(At)>>)
        /\ UNCHANGED next_is_at
     \/ /\ At.type = "annotation"
        /\ Handle(All, <<>>, <<>>)
        /\ next_is_at' = TRUE
     \/ /\ At.type = "op"
        /\ LET kept == flush_expression(stack)
           IN  Handle(flush_until_priority(SubSeq(stack, 1, kept), At.priority),
                      <<At>>, <<>>)
        /\ UNCHANGED next_is_at
     \/ /\ At.type = "left_paren"
        /\ Handle(flush_until_type(stack, "right_paren"), <<>>, <<>>)
        /\ UNCHANGED next_is_at
     \/ /\ At.type = "right_paren"
        /\ Handle(All, IF prev_token.type = "ident" THEN <<>> ELSE <<At>>, <<>>)
        /\ UNCHANGED next_is_at
     \/ /\ At.type = "left_bracket"
        /\ Handle(0, <<>>, <<parse(At)>>)
        /\ UNCHANGED next_is_at
     \/ /\ At.type = "right_bracket"
        /\ IF prev_token.raw = ")"
           THEN Handle(Flushed, <<At>>, <<>>)
           ELSE Handle(Flushed, <<>>, <<parse(At)>>)
        /\ UNCHANGED next_is_at
     \/ /\ At.type = "left_sq_bracket"
        /\ LET kept == flush_until_type(stack, "right_sq_bracket")
               bracket == IF kept < Len(stack) THEN stack[kept + 1] ELSE Padding
           IN  IF next_token.type = "ident"
               THEN Handle(kept, <<[next_token EXCEPT !.stype = "st_arraccess"]>>, <<>>)
               ELSE IF bracket.type = "right_sq_bracket" /\ bracket.hint = "st_end_arr"
               THEN Handle(kept, <<[Padding EXCEPT !.stype = "nothing"]>>,
                           Node("st_begin_arr"))
               ELSE Handle(kept, <<>>, <<>>)
        /\ UNCHANGED next_is_at
     \/ /\ At.type = "right_sq_bracket"
        /\ IF StartsArray
           THEN Handle(All, <<[As("nothing") EXCEPT !.hint = "st_end_arr",
                                                   !.priority = -9901]>>,
                       Node("st_end_arr"))
           ELSE Handle(All, <<[As("nothing") EXCEPT !.hint = "st_arraccess"]>>, <<>>)
        /\ UNCHANGED next_is_at
     \/ /\ At.type \in {"ident", "literal"}
        /\ LET name == IF next_is_at THEN [At EXCEPT !.raw = "@" \o @] ELSE At
               access == IF prev_token.type = "dot"
                         THEN <<[prev_token EXCEPT !.stype = "st_memberaccess"]>>
                         ELSE IF next_token.type = "right_sq_bracket"
                         THEN <<[next_token EXCEPT !.stype = "st_arraccess"]>>
                         ELSE <<>>
               called == next_token.type = "right_paren"
               call == [next_token EXCEPT !.stype = "st_begin_call"]
           IN  Handle(All, access \o (IF called THEN <<call>> ELSE <<>>) \o <<name>>,
                      IF called THEN <<[raw |-> next_token.raw, type |-> "st_end_call"]>>
                      ELSE <<>>)
        /\ next_is_at' = FALSE
     \/ /\ At.type = "keyword" /\ At.raw = "in"
        /\ Put([SubSeq(stack, 1, Flushed) EXCEPT ![Flushed].stype = "st_foreach"],
               Emitted(stack, Flushed) \o <<parse(At)>>)
        /\ UNCHANGED next_is_at
     \/ /\ At.type = "keyword" /\ At.raw /= "in"
        /\ Handle(IF At.raw \in {"return", "if", "else", "for", "while", "throw"}
                  THEN Flushed ELSE All, <<At>>, <<>>)
        /\ UNCHANGED next_is_at

\* All tokens are read: the s-tokens are turned into text order.
Sexped ==
  /\ stage = "sexp" /\ cursor > Len(tokens)
  /\ result' = Reverse(result)
  /\ stage' = "sexped"
  /\ UNCHANGED <<tokens, cursor, stack, depth, next_is_at, param_list, errors>>

SexperNext == \/ MoveIndexed \/ MoveCalled \/ Turn
              \/ sexp_root \/ sexp_class \/ sexp_methodbody \/ Sexped
=============================================================================
