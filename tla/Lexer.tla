----------------------------- MODULE Lexer -----------------------------
(* lexer::lex: the text of a program to tokens. Where a token of the table *)
(* of rules is found, what has gathered since the token before it is a     *)
(* token, too: a name, a number or a quoted string.                        *)
EXTENDS Tokens, FiniteSets, FiniteSetsExt, SequencesExt

VARIABLES
  tokens,       \* the tokens found so far; the parser rearranges them later
  stage,        \* the part of the compiler that is running
  errors,       \* whether it has met an error
  src,          \* the text, a blank before it and one behind
  head, tail,   \* the character to look at; where the gathering began
  inside_quote, \* between two quotation marks
  last_meaningful_ch   \* the character last noted, no blank

lexerVars == <<src, head, tail, inside_quote, last_meaningful_ch>>

\* The table of rules, in its order. The first that fits is taken.
Rules == <<
  "\n", " ", "\t", "//", "include", "@", "class", "def", "static", "if", "else", "for",
  "while", "return", "null", "in", "try", "catch", "throw", "true", "false",
  "++", "--", "-=", "+=", "*=", "/=", "=>", "is", "+", "-", "*", "/", "&&", "||",
  "==", "!=", "<=", ">=", "<", ">", "=", "(", ")", "{", "}", "[", "]", ".", ",", ":", ";" >>
Blanks == {"\n", " ", "\t", "\r"}
Ignored == {"\n", " ", "\t", "//"}    \* rules of the type none


\* The quotation marks; the second one stands for the backquote, which a string
\* of TLA+ cannot have.
Quotes == {"\"", "'"}

Chars(text) == {SubSeq(text, i, i) : i \in 1..Len(text)}
Digits == Chars("0123456789")
Letters == Chars("abcdefghijklmnopqrstuvwxyzABCDEFGHIJKLMNOPQRSTUVWXYZ_")
IdentChars == Letters \union Digits      \* is_ident_acceptible
rooke_max_signature == 32

-----------------------------------------------------------------------------
(* parse: the token that has gathered. *)

AllDigits(raw) == raw /= "" /\ Chars(raw) \subseteq Digits
Unsigned(raw) == IF SubSeq(raw, 1, 1) = "-" THEN SubSeq(raw, 2, Len(raw)) ELSE raw
Decimal(raw) == \E i \in 2..(Len(raw) - 1) :
                  /\ SubSeq(raw, i, i) = "."
                  /\ AllDigits(SubSeq(raw, 1, i - 1)) /\ AllDigits(SubSeq(raw, i + 1, Len(raw)))
Ident(raw) == SubSeq(raw, 1, 1) \in Letters /\ Chars(raw) \subseteq IdentChars
Quoted(raw) == \E q \in Quotes : /\ SubSeq(raw, 1, 1) = q
                                      /\ SubSeq(raw, Len(raw), Len(raw)) = q

\* What the text of a token makes of it: its type, and whether it is an error.
Gathered(raw) ==
  LET word == [Padding EXCEPT !.raw = raw]
      Of(type, bad) == [token |-> [word EXCEPT !.type = type], bad |-> bad]
  IN  CASE Quoted(raw) ->
             [token |-> [word EXCEPT !.raw = SubSeq(raw, 2, Len(raw) - 1), !.type = "literal"],
              bad |-> FALSE]
        [] AllDigits(Unsigned(raw))  -> Of("literal", raw \notin DOMAIN Integer)
        [] Decimal(Unsigned(raw)) -> Of("literal", FALSE)
        [] Ident(raw)             -> Of("ident", Len(raw) >= rooke_max_signature - 1)
        [] OTHER                  -> Of("none", TRUE)

\* `is` becomes an operator, and so does a string with this text.
Settle(t) == IF t.raw = "is" THEN [t EXCEPT !.type = "op"] ELSE t

Gathering == SubSeq(src, tail, head - 1)      \* what has gathered
Found == IF Gathering = "" THEN tokens ELSE Append(tokens, Settle(Gathered(Gathering).token))
Bad == Gathering /= "" /\ Gathered(Gathering).bad

-----------------------------------------------------------------------------
(* One step is one round of the loop of lex.                               *)

LexInit(text) ==
  /\ src = " " \o text \o " "
  /\ head = 2 /\ tail = 2 /\ inside_quote = FALSE /\ last_meaningful_ch = ""
  /\ tokens = <<>> /\ stage = "lex" /\ errors = FALSE

Ch(i) == SubSeq(src, i, i)
Lexing == stage = "lex" /\ head < Len(src)
Inside == IF Ch(head) \in Quotes /\ Ch(head - 1) /= "\\" THEN ~inside_quote ELSE inside_quote
Noted == last_meaningful_ch' = IF Ch(head) \in Blanks THEN last_meaningful_ch ELSE Ch(head)

\* mutant: a name may begin with a keyword
WordBegins(rule) == rule \in Keywords \union {"is"} => Ch(head - 1) \notin IdentChars

\* A keyword is a word of its own; true and false need not be.
WordAlone(rule) ==
  rule \in Keywords \union {"is"} =>
    Ch(head - 1) \notin IdentChars /\ Ch(head + Len(rule)) \notin IdentChars

\* A - is an operator after something that may be an operand, else the sign of a
\* number; a . between digits belongs to a number.
Fits(rule) ==
  /\ head + Len(rule) <= Len(src) /\ SubSeq(src, head, head + Len(rule) - 1) = rule
  /\ rule = "-" => last_meaningful_ch \in IdentChars \union {")", "]"}
  /\ WordAlone(rule)
  /\ rule = "." => Ch(head - 1) \notin Digits \/ Ch(head + 1) \notin Digits
Fitting == {i \in DOMAIN Rules : Fits(Rules[i])}

\* A character between quotation marks, or that no rule begins with, gathers.
Gather ==
  /\ Lexing /\ (Inside \/ (Ch(head) /= "#" /\ Fitting = {}))
  /\ head' = head + 1 /\ inside_quote' = Inside /\ Noted
  /\ UNCHANGED <<src, tail, tokens, stage, errors>>

\* A comment goes to the end of the line. What has gathered before it is dropped.
Comment ==
  /\ Lexing /\ ~Inside /\ Ch(head) = "#"
  /\ head' = Min({i \in (head + 1)..Len(src) : Ch(i) = "\n" \/ i = Len(src)})
  /\ tail' = head' /\ inside_quote' = Inside
  /\ UNCHANGED <<src, last_meaningful_ch, tokens, stage, errors>>

\* The blanks among the tokens are removed at the end; here they are not kept.
Match ==
  LET rule == Rules[Min(Fitting)]
  IN  /\ Lexing /\ ~Inside /\ Ch(head) /= "#" /\ Fitting /= {}
      /\ tokens' = Found \o IF rule \in Ignored THEN <<>> ELSE <<Token(rule)>>
      /\ errors' = (errors \/ Bad)
      /\ head' = head + Len(rule) /\ tail' = head' /\ inside_quote' = Inside /\ Noted
      /\ UNCHANGED <<src, stage>>

\* The end of the text. An error in it ends the compilation.
Lexed ==
  /\ stage = "lex" /\ head >= Len(src)
  /\ tokens' = Found
  /\ errors' = (errors \/ Bad \/ inside_quote)
  /\ stage' = IF errors' THEN "rejected" ELSE "index"
  /\ UNCHANGED lexerVars

LexNext == Gather \/ Comment \/ Match \/ Lexed
=============================================================================
