-------------------------- MODULE Transformers --------------------------
(* What compiler.cpp does with the tree before code is generated: the      *)
(* validators, the expansion of ++ and --, the transformers in rounds      *)
(* until a round changes nothing, and the insertion of pops. The           *)
(* transformers share one traversal, syntax_traveler.                      *)
EXTENDS TreeBuilder

CONSTANT IntMax     \* the integers of a program are -IntMax-1 .. IntMax

VARIABLES
  pass,      \* the transformer that is running, a position in Passes
  frames,    \* the activations of _visit: the node, and the next child
  changes    \* whether this round has replaced a node

transVars == <<pass, frames, changes>>

\* include_essential_passes, and precalc.
Passes == <<"annotation", "callmember", "callnewobj", "newdic",
            "string_interpolation", "classfield", "ifelse_chain",
            "op_and_assign", "arr_setitem", "arr_getitem", "precalc">>

TransInit == pass = 0 /\ frames = <<>> /\ changes = FALSE

-----------------------------------------------------------------------------
(* Nodes made by a transformer. *)

Kids(t, n) == t[n].children
Kind(t, n) == t[n].kind

\* A new node with these children, which it takes over. Its parent is not set
\* until the traversal puts it into the tree.
Made(t, kind, raw, children) ==
  LET new == Len(t) + 1
  IN  [k \in 1..new |->
         IF k = new THEN [NewNode(kind, raw) EXCEPT !.children = children]
         ELSE IF Contains(children, k) THEN [t[k] EXCEPT !.parent = new] ELSE t[k]]

\* A result of visit: the tree, and the node that takes the visited one's place.
Same(t, n) == [tree |-> t, to |-> n]
New(t, kind, raw, children) ==
  [tree |-> Made(t, kind, raw, children), to |-> Len(t) + 1]
Erased(t) == [tree |-> t, to |-> NoParent]

-----------------------------------------------------------------------------
(* The transformers, each from a node to what replaces it. *)

\* An annotation goes to the first method after it, if there is one.
annotation(t, n) ==
  LET siblings == Kids(t, t[n].parent)
      after == SelectSeq(SubSeq(siblings, IndexFirstSubSeq(<<n>>, siblings), Len(siblings)),
                         LAMBDA c : Kind(t, c) = "method")
  IN  IF Kind(t, n) /= "annotation" \/ Kind(t, t[n].parent) = "method" THEN Same(t, n)
      ELSE IF after = <<>> THEN Erased(t)
      ELSE Erased([t EXCEPT ![n].parent = Head(after), ![Head(after)].children = Append(@, n)])

\* mutant: a.f(x) -> f(a)
CallWithoutArgs(t, n) ==
  LET call == Kids(t, Kids(t, n)[2])
  IN  IF Kind(t, n) = "memberaccess" /\ Kind(t, Kids(t, n)[2]) = "call"
      THEN New(t, "callmember", "", <<Head(call), Kids(t, n)[1]>>)
      ELSE Same(t, n)

\* a.f(x) -> f(a, x)
callmember(t, n) ==
  LET call == Kids(t, Kids(t, n)[2])
  IN  IF Kind(t, n) = "memberaccess" /\ Kind(t, Kids(t, n)[2]) = "call"
      THEN New(t, "callmember", "", <<Head(call), Kids(t, n)[1]>> \o Tail(call))
      ELSE Same(t, n)

\* A.new(x)
callnewobj(t, n) ==
  IF Kind(t, n) = "callmember" /\ t[Kids(t, n)[1]].raw = "new"
  THEN New(t, "newobj", "", Tail(Kids(t, n)))
  ELSE Same(t, n)

\* A block where a value is due is a dictionary.
newdic(t, n) ==
  IF /\ Kind(t, n) = "block"
     /\ Kind(t, t[n].parent) \in {"assignment", "call", "callmember", "newdic"}
  THEN New(t, "newdic", "", SelectSeq(Kids(t, n), LAMBDA c : Kind(t, c) /= "endl"))
  ELSE Same(t, n)

\* `text{{name}}...` -> (text + name.to_string()) + ...
\* The texts and names of the parts, two by two, and the text that is left.
Interpolating(b, text, name) ==    \* the nodes of one part, numbered from b + 1
  LET Piece(kind, raw, parent, children) ==
        [NewNode(kind, raw) EXCEPT !.parent = b + parent, !.children = children]
  IN  <<Piece("ident", "to_string", 3, <<>>), Piece("ident", name, 3, <<>>),
        Piece("callmember", "", 5, <<b + 1, b + 2>>), Piece("literal", text, 5, <<>>),
        Piece("op", "+", 6, <<b + 4, b + 3>>)>>
string_interpolation(t, n) ==
  LET parts == Parts[t[n].raw]
      pairs == Len(parts) \div 2
      left  == IF Len(parts) % 2 = 1 /\ Last(parts) /= "" THEN <<Last(parts)>> ELSE <<>>
      texts == IF (pairs + Len(left)) % 2 = 1 THEN Append(left, "") ELSE left
      AtPair(i) == Interpolating(Len(t) + 5 * (i - 1), parts[2 * i - 1], parts[2 * i])
  IN  IF Kind(t, n) = "literal" /\ t[n].raw \in DOMAIN Parts
      THEN New(t \o FlattenSeq([i \in 1..pairs |-> AtPair(i)])
                 \o [j \in DOMAIN texts |-> NewNode("literal", texts[j])],
               "op", "+",
               [i \in 1..pairs |-> Len(t) + 5 * i]
                 \o [j \in DOMAIN texts |-> Len(t) + 5 * pairs + j])
      ELSE Same(t, n)

\* An assignment in a class declares a field.
classfield(t, n) ==
  IF Kind(t, n) = "assignment" /\ Kind(t, t[n].parent) = "class"
  THEN New(t, "field", "", Kids(t, n))
  ELSE Same(t, n)

\* In a block, an else goes into the if before it. The block stays the same node.
ifelse_chain(t, n) ==
  LET Move(acc, c) ==
        IF Kind(t, c) = "else" /\ acc.kept /= <<>> /\ Kind(t, Last(acc.kept)) = "if"
        THEN [acc EXCEPT !.tree[Last(acc.kept)].children = Append(@, c),
                         !.tree[c].parent = Last(acc.kept)]
        ELSE [acc EXCEPT !.kept = Append(@, c)]
      moved == FoldLeft(Move, [tree |-> t, kept |-> <<>>], Kids(t, n))
  IN  IF Kind(t, n) = "block"
      THEN Same([moved.tree EXCEPT ![n].children = moved.kept], n)
      ELSE Same(t, n)

\* a += b -> a = a + b, where both a are the same node
OpOf == "+=" :> "+" @@ "-=" :> "-" @@ "*=" :> "*" @@ "/=" :> "/"
op_and_assign(t, n) ==
  LET with == Made(t, "op", OpOf[t[n].raw], Kids(t, n))
  IN  IF Kind(t, n) = "op" /\ t[n].raw \in DOMAIN OpOf
      THEN New(with, "assignment", "=", <<Kids(t, n)[1], Len(t) + 1>>)
      ELSE Same(t, n)

\* a[i] = x -> __setitem__(a, i, x);  a[i] -> __getitem__(a, i)
arr_setitem(t, n) ==
  LET named == Append(t, NewNode("ident", "__setitem__"))
  IN  IF Kind(t, n) = "assignment" /\ Kind(t, Kids(t, n)[1]) = "arraccess"
      THEN New(named, "callmember", "",
               <<Len(named)>> \o Kids(t, Kids(t, n)[1]) \o <<Kids(t, n)[2]>>)
      ELSE Same(t, n)
arr_getitem(t, n) ==
  LET named == Append(t, NewNode("ident", "__getitem__"))
  IN  IF Kind(t, n) = "arraccess"
      THEN New(named, "callmember", "", <<Len(named)>> \o Kids(t, n))
      ELSE Same(t, n)

\* Integers as the compiler's int keeps them.
Wrap(x) == ((x + IntMax + 1) % (2 * (IntMax + 1))) - (IntMax + 1)
Quotient(a, b) == LET Abs(x) == IF x < 0 THEN -x ELSE x
                      q == Abs(a) \div Abs(b)
                  IN  IF (a < 0) = (b < 0) THEN q ELSE -q
IsInteger(t, n) == Kind(t, n) = "literal" /\ t[n].raw \in DOMAIN Integer \union {"folded"}

\* Both operands of n are integer literals.
Foldable(t, n) ==
  /\ Kind(t, n) = "op" /\ IsInteger(t, Kids(t, n)[1]) /\ IsInteger(t, Kids(t, n)[2])
  /\ t[n].raw \in {"+", "-", "*", "/", ">", "<", ">=", "<="}
Left(t, n) == t[Kids(t, n)[1]].integer
Right(t, n) == t[Kids(t, n)[2]].integer

\* mutant: overflow goes unnoticed
FailsByZero(t, n) == Foldable(t, n) /\ t[n].raw = "/" /\ Right(t, n) = 0

\* The errors precalc reports: a product that does not fit, a zero divisor.
FoldFails(t, n) ==
  /\ Foldable(t, n)
  /\ \/ /\ t[n].raw = "*" /\ Left(t, n) /= 0
        /\ Quotient(Wrap(Left(t, n) * Right(t, n)), Left(t, n)) /= Right(t, n)
     \/ t[n].raw = "/" /\ Right(t, n) = 0

precalc(t, n) ==
  LET a == Left(t, n)
      b == Right(t, n)
      Number(x) == [New(t, "literal", "folded", <<>>) EXCEPT !.tree[Len(t) + 1].integer = Wrap(x)]
      Truth(x) == New(t, "bool", IF x THEN "true" ELSE "false", <<>>)
  IN  IF ~Foldable(t, n) THEN Same(t, n)
      ELSE CASE t[n].raw = "+"  -> Number(a + b)
             [] t[n].raw = "-"  -> Number(a - b)
             [] t[n].raw = "*"  -> Number(a * b)
             [] t[n].raw = "/"  -> Number(Quotient(a, b))
             [] t[n].raw = ">"  -> Truth(a > b)
             [] t[n].raw = "<"  -> Truth(a < b)
             [] t[n].raw = ">=" -> Truth(a >= b)
             [] t[n].raw = "<=" -> Truth(a <= b)

visit(t, n) ==
  CASE Passes[pass] = "annotation"           -> annotation(t, n)
    [] Passes[pass] = "callmember"           -> callmember(t, n)
    [] Passes[pass] = "callnewobj"           -> callnewobj(t, n)
    [] Passes[pass] = "newdic"               -> newdic(t, n)
    [] Passes[pass] = "string_interpolation" -> string_interpolation(t, n)
    [] Passes[pass] = "classfield"           -> classfield(t, n)
    [] Passes[pass] = "ifelse_chain"         -> ifelse_chain(t, n)
    [] Passes[pass] = "op_and_assign"        -> op_and_assign(t, n)
    [] Passes[pass] = "arr_setitem"          -> arr_setitem(t, n)
    [] Passes[pass] = "arr_getitem"          -> arr_getitem(t, n)
    [] Passes[pass] = "precalc"              -> precalc(t, n)

-----------------------------------------------------------------------------
(* The traversal. One step visits one child.                               *)

frontVars == <<tokens, cursor, stack, result, depth, next_is_at, param_list, current>>
Top == Last(frames)
Child == Kids(nodes, Top.node)[Top.next]
Visiting == frames /= <<>> /\ Top.next <= Len(Kids(nodes, Top.node))
Begin == <<[node |-> Root, next |-> 1]>>

\* The frames after the child was dealt with: the traversal goes on in `into`.
Deeper(erased, into) ==
  Append([frames EXCEPT ![Len(frames)].next = IF erased THEN @ ELSE @ + 1],
         [node |-> into, next |-> 1])

\* vnode_transformer: a ++ -> a = a + 1. It goes on in the new node.
standalone_op(t, n) ==
  LET one == Append(t, [NewNode("literal", "folded") EXCEPT !.integer = 1])
      sum == Made(one, "op", IF t[n].raw = "++" THEN "+" ELSE "-",
                  <<Kids(t, n)[1], Len(one)>>)
  IN  IF Kind(t, n) = "standalone_op"
      THEN New(sum, "assignment", "=", <<Kids(t, n)[1], Len(sum)>>)
      ELSE Same(t, n)

\* mutant: what takes the child's place keeps the parent it has
PlacedOnly(t, k) == [t EXCEPT ![Top.node].children[Top.next] = k]

\* What takes the child's place gets its parent there.
Placed(t, k) == [t EXCEPT ![Top.node].children[Top.next] = k, ![k].parent = Top.node]

VisitVirtual ==
  /\ stage = "vnodes" /\ Visiting
  /\ \E v \in {standalone_op(nodes, Child)} :
       /\ nodes' = Placed(v.tree, v.to)
       /\ frames' = Deeper(FALSE, v.to)
  /\ UNCHANGED <<frontVars, stage, errors, pass, changes>>

\* Whether the compiler dies here: precalc divides after it has reported, and
\* divides the product by its left factor to see whether it fits. No int is the
\* quotient of the smallest one and -1.
NoQuotient(a, b) == b = 0 \/ (a = -(IntMax + 1) /\ b = -1)
DiesFolding(t, n) ==
  /\ Passes[pass] = "precalc" /\ Foldable(t, n)
  /\ \/ t[n].raw = "/" /\ NoQuotient(Left(t, n), Right(t, n))
     \/ /\ t[n].raw = "*" /\ Left(t, n) /= 0
        /\ NoQuotient(Wrap(Left(t, n) * Right(t, n)), Left(t, n))

\* mutant: a visit that leaves the node is a change
Visited(v) == v.to >= NoParent

Replaced(v) == v.to /= Child

\* syntax_traveler::_visit. What replaces the child is completed in its new
\* place, but the traversal goes on in the old child.
Visit ==
  /\ stage = "rounds" /\ Visiting /\ ~DiesFolding(nodes, Child)
  /\ \E v \in {visit(nodes, Child)} :
       /\ nodes' = CASE v.to = NoParent -> [v.tree EXCEPT ![Top.node].children = RemoveAt(@, Top.next)]
                     [] v.to = Child    -> Placed(v.tree, v.to)
                     [] OTHER           -> on_complete(Placed(v.tree, v.to), v.to)
       /\ frames' = Deeper(v.to = NoParent, Child)
       /\ changes' = (changes \/ Replaced(v))
  /\ errors' = (errors \/ (Passes[pass] = "precalc" /\ FoldFails(nodes, Child)))
  /\ UNCHANGED <<frontVars, stage, pass>>
Trap ==
  /\ stage = "rounds" /\ Visiting /\ DiesFolding(nodes, Child)
  /\ stage' = "trapped"
  /\ UNCHANGED <<frontVars, errors, nodes, transVars>>

\* The activations that are through with their children return, one after the other.
Leave ==
  /\ stage \in {"vnodes", "rounds"} /\ frames /= <<>> /\ ~Visiting
  /\ frames' = SubSeq(frames, 1, Max({0} \union {i \in DOMAIN frames :
                                   frames[i].next <= Len(Kids(nodes, frames[i].node))}))
  /\ UNCHANGED <<frontVars, stage, errors, nodes, pass, changes>>

-----------------------------------------------------------------------------
(* The validators read the tree. *)

Reached(t) ==
  LET under[n \in 1..Len(t)] ==
        {n} \union UNION {under[c] : c \in {Kids(t, n)[i] : i \in DOMAIN Kids(t, n)}}
  IN  under[Root]

\* syntax_validator. next() reads the position of the traversal after it has
\* gone through the siblings before: it is right for a first child only.
SyntaxErrors(t) ==
  \E n \in Reached(t) :
    LET kids == Kids(t, n)
        static == LET m == find_upward_until(t, n, "method") IN m /= NoParent /\ t[m].attr
    IN  \/ /\ Kind(t, n) = "class"
           /\ \E i \in 2..Len(kids) : Kind(t, kids[i]) = "ident"
        \/ Kind(t, n) = "method" /\ Kind(t, kids[2]) /= "params"
        \/ /\ Kind(t, n) = "method" /\ Kind(t, kids[2]) = "params"
           /\ \E i \in 1..(Len(Kids(t, kids[2])) - 1) :
                \E name \in Names : t[Kids(t, kids[2])[i]].raw = Starred(name)
        \/ Kind(t, n) = "ident" /\ static /\ \E name \in Names : t[n].raw = "@" \o name
        \/ /\ Kind(t, n) = "op" /\ t[n].raw \in {"+", "-", "*", "/"}
           /\ \E i \in {1, 2} : Kind(t, kids[i]) = "bool"
        \/ /\ Kind(t, n) = "assignment"
           /\ Kind(t, t[n].parent) \notin {"block", "class", "params", "for"}
        \/ /\ Len(kids) > 1 /\ Kind(t, kids[1]) = "assignment"
           /\ Kind(t, kids[2]) = "comma"

DuplicatedNames(t) ==
  LET Methods == {n \in Reached(t) : Kind(t, n) = "method"}
      Name(n) == t[Kids(t, n)[1]].raw
  IN  \E m, n \in Methods : /\ m /= n /\ Name(m) = Name(n)
                            /\ Name(find_upward_until(t, m, "class"))
                               = Name(find_upward_until(t, n, "class"))

\* unused_validator: a value computed and dropped.
UnusedEvaluation(t) ==
  \E n \in Reached(t) : /\ Kind(t, n) \in {"op", "newarr", "newdic"}
                        /\ Kind(t, t[n].parent) = "block"

\* endlpop_transformer: the end of a line that follows a call drops its value.
\* mutant: creating an object is no call
IsPlainCall(t, n) == Kind(t, n) \in {"call", "callmember"}

IsCall(t, n) == Kind(t, n) \in {"call", "callmember", "newobj"}

Dropped(t, block) ==
  {i \in 2..Len(Kids(t, block)) : /\ Kind(t, Kids(t, block)[i]) \in {"endl", "comma"}
                                  /\ IsCall(t, Kids(t, block)[i - 1])}
endlpop(t) ==
  LET ends == UNION {{Kids(t, b)[i] : i \in Dropped(t, b)} :
                       b \in {n \in Reached(t) : Kind(t, n) = "block"}}
  IN  [n \in DOMAIN t |-> IF n \in ends THEN [t[n] EXCEPT !.kind = "pop"] ELSE t[n]]

-----------------------------------------------------------------------------
(* ast_raw and ast_transformed. *)

\* The first validators; then ++ and -- are expanded.
Validate ==
  LET bad == SyntaxErrors(nodes) \/ DuplicatedNames(nodes)
  IN  /\ stage = "built"
      /\ errors' = bad
      /\ stage' = IF bad THEN "rejected" ELSE "vnodes"
      /\ frames' = Begin
      /\ UNCHANGED <<frontVars, nodes, pass, changes>>

\* A traversal has ended: the next transformer, the next round, or the end.
NextPass ==
  /\ stage \in {"vnodes", "rounds"} /\ frames = <<>>
  /\ \/ /\ stage = "vnodes" \/ (pass = Len(Passes) /\ changes)
        /\ stage' = "rounds" /\ pass' = 1 /\ changes' = FALSE
        /\ frames' = Begin
        /\ UNCHANGED <<nodes, errors>>
     \/ /\ stage = "rounds" /\ pass < Len(Passes)
        /\ pass' = pass + 1
        /\ frames' = Begin
        /\ UNCHANGED <<stage, changes, nodes, errors>>
     \/ /\ stage = "rounds" /\ pass = Len(Passes) /\ ~changes
        /\ nodes' = endlpop(nodes)
        /\ errors' = (errors \/ SyntaxErrors(nodes') \/ UnusedEvaluation(nodes'))
        /\ stage' = IF errors' THEN "rejected" ELSE "done"
        /\ UNCHANGED <<pass, changes, frames>>
  /\ UNCHANGED frontVars

TransNext == Validate \/ VisitVirtual \/ Visit \/ Trap \/ Leave \/ NextPass
=============================================================================
