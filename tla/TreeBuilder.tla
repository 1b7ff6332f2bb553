-------------------------- MODULE TreeBuilder --------------------------
(* tree_builder and syntax_node: s-tokens to a tree. A node knows when it  *)
(* is complete; a complete node passes what follows to the nearest         *)
(* ancestor that is not.                                                   *)
EXTENDS Sexper

VARIABLES
  nodes,     \* the nodes made so far, by their numbers; 1 is the root
  current    \* the node that takes what follows

treeVars == <<nodes, current>>

Root == 1
NoParent == 0
Unlimited == 99      \* capacity(-1), nth_block_or_single(-1)

Capacity(kind) ==
  CASE kind = "method" -> 3
    [] kind \in {"assignment", "op", "memberaccess", "arraccess", "while", "if", "catch"} -> 2
    [] kind \in {"return", "throw", "try", "else", "annotation", "field", "standalone_op",
                 "include", "bool"} -> 1
    [] OTHER -> Unlimited

\* The child from which on a single statement gets a block of its own.
BlockOrSingle(kind) ==
  CASE kind = "else" -> 0 [] kind = "if" -> 1 [] kind = "for" -> 3 [] OTHER -> Unlimited

NewNode(kind, raw) ==
  [kind   |-> kind, raw |-> raw, parent |-> NoParent, children |-> <<>>,
   capacity            |-> Capacity(kind),
   nth_block_or_single |-> BlockOrSingle(kind),
   integer             |-> IF raw \in DOMAIN Integer THEN Integer[raw] ELSE 0,
   attr                |-> FALSE,    \* method_node::attr: the method is static
   locals              |-> <<>>,     \* block_node::locals
   local_size          |-> 0]        \* method_node::local_size

TreeInit == nodes = <<NewNode("root", "")>> /\ current = Root

-----------------------------------------------------------------------------
is_complete(t, n) ==
  \/ t[n].children /= <<>> /\ t[Last(t[n].children)].kind = "block"
  \/ Len(t[n].children) >= t[n].capacity

\* mutant: the search begins, and ends, one node too high
NodeAboveParent(t, n) == IF t[n].parent = NoParent THEN NoParent ELSE t[t[n].parent].parent

nearest_incomplete_node(t, n) ==
  LET up[k \in 1..Len(t)] ==
        IF t[k].kind = "root" \/ ~is_complete(t, k) THEN k ELSE up[t[k].parent]
  IN  IF t[n].parent = NoParent THEN n ELSE up[t[n].parent]

\* The ancestor of this kind; NoParent if there is none.
find_upward_until(t, n, kind) ==
  LET up[k \in 0..Len(t)] ==
        IF k = NoParent \/ t[k].kind = kind THEN k ELSE up[t[k].parent]
  IN  up[t[n].parent]

\* mutant: the method is not told
PushUncounted(t, block, ident) ==
  [t EXCEPT ![block].locals = IF Contains(@, Plain(ident)) THEN @ ELSE Append(@, Plain(ident))]

push_local(t, block, ident) ==
  LET method == find_upward_until(t, block, "method")
      name == Plain(ident)
  IN  IF Contains(t[block].locals, name) THEN t
      ELSE [t EXCEPT ![block].locals = Append(@, name),
                     ![method].local_size = @ + 1]

PushLocals(t, block, names) ==
  LET pushed[i \in 0..Len(names)] ==
        IF i = 0 THEN t ELSE push_local(pushed[i - 1], block, names[i])
  IN  pushed[Len(names)]

\* The parameters of a method, with or without a default value, are locals of its body.
PushParam(t, body, p) ==
  CASE t[p].kind = "assignment" -> push_local(t, body, t[t[p].children[1]].raw)
    [] t[p].kind = "ident"      -> push_local(t, body, t[p].raw)
    [] OTHER                    -> t
PushParams(t, body, params) ==
  LET pushed[i \in 0..Len(params)] ==
        IF i = 0 THEN t ELSE PushParam(pushed[i - 1], body, params[i])
  IN  pushed[Len(params)]

on_complete(t, n) ==
  LET children == t[n].children
      block == find_upward_until(t, n, "block")
      inMethod == find_upward_until(t, n, "method") /= NoParent
      body == Last(children)
  IN  CASE /\ t[n].kind = "assignment" /\ inMethod /\ block /= NoParent
           /\ t[children[1]].kind = "ident" ->
             push_local(t, block, t[children[1]].raw)
        [] t[n].kind = "foreach" /\ inMethod ->
             PushLocals(t, block, [i \in 1..(Len(children) - 2) |-> t[children[i]].raw])
        [] t[n].kind = "catch" ->
             push_local(t, children[2], t[children[1]].raw)
        [] t[n].kind = "method" ->
             PushLocals(PushParams([t EXCEPT ![body].locals = <<>>], body, t[children[2]].children),
                        body, t[body].locals)
        [] OTHER -> t

\* A single statement where a block is due is wrapped into one.
Wraps(t, n, kind) ==
  Len(t[n].children) = t[n].nth_block_or_single /\ kind /= "block"

\* mutant: it becomes the first child
AttachFirst(t, n, k) ==
  LET grown == [t EXCEPT ![k].parent = n, ![n].children = <<k>> \o @]
  IN  IF is_complete(grown, n) THEN on_complete(grown, n) ELSE grown

\* append: node k, of the tree t, becomes the last child of n.
Attach(t, n, k) ==
  LET grown == [t EXCEPT ![k].parent = n, ![n].children = Append(@, k)]
  IN  IF is_complete(grown, n) THEN on_complete(grown, n) ELSE grown

\* The node to go on with after append.
After(t, n) == IF is_complete(t, n) THEN nearest_incomplete_node(t, n) ELSE n

-----------------------------------------------------------------------------
(* One step takes one s-token. *)

St == result[cursor]
\* A complete node is left first, and its closing bracket leaves once more.
Settled == IF is_complete(nodes, current) THEN nearest_incomplete_node(nodes, current)
           ELSE current
Into == IF St.type = "st_end_block" THEN nearest_incomplete_node(nodes, Settled)
        ELSE Settled
Taking(types) == /\ stage = "build" /\ cursor <= Len(result)
                 /\ St.type \in types /\ St.raw /= "in"
Took == cursor' = cursor + 1 /\ UNCHANGED <<tokens, stage, stack, result, depth,
                                            next_is_at, param_list, errors>>

\* nodes' after a node of this kind was appended to the node to go on with;
\* `stays`: whether the new node takes what follows (append_and_replace).
Add(kind, raw, stays) ==
  LET new == Len(nodes) + 1
      static == kind = "method" /\ cursor > 1 /\ result[cursor - 1].type = "st_static"
      added == Append(nodes, [NewNode(kind, raw) EXCEPT !.attr = static])
      \* the block around a single statement holds it and its end of line
      block == [NewNode("block", "") EXCEPT !.children = <<new>>, !.capacity = 2]
      t == IF Wraps(nodes, Into, kind)
           THEN Attach(Append([added EXCEPT ![new].parent = new + 1], block),
                       Into, new + 1)
           ELSE Attach(added, Into, new)
  IN  /\ nodes' = t
      /\ current' = IF stays THEN new ELSE After(t, Into)
      /\ Took

\* Tokens that only say that something ends.
TakeEnd ==
  /\ Taking({"st_end_param", "st_end_call", "st_end_arr"})
  /\ current' = nearest_incomplete_node(nodes, Settled)
  /\ UNCHANGED nodes /\ Took
TakeEndBlock ==
  /\ Taking({"st_end_block"})
  /\ current' = Into /\ UNCHANGED nodes /\ Took
TakeEndInherit ==
  /\ Taking({"st_end_inherit"})
  /\ current' = IF nodes[Settled].kind = "inherit" THEN nodes[Settled].parent ELSE Settled
  /\ UNCHANGED nodes /\ Took
\* for (a, b `in` c): the variables end here, and a body is the child after c.
TakeIn ==
  /\ stage = "build" /\ cursor <= Len(result) /\ St.raw = "in"
  /\ nodes' = [nodes EXCEPT ![Settled].nth_block_or_single = Len(nodes[Settled].children) + 1]
  /\ current' = Settled /\ Took
TakeStatic ==
  /\ Taking({"st_static", "st_colon"})
  /\ current' = Settled /\ UNCHANGED nodes /\ Took

\* The end of a line is dropped unless it ends a statement of a block.
TakeSeparator ==
  /\ Taking({"endl", "comma"})
  /\ IF \/ St.type = "comma" \/ nodes[Into].kind = "block"
        \/ Wraps(nodes, Into, "endl")
     THEN Add(St.type, "", FALSE)
     ELSE current' = Into /\ UNCHANGED nodes /\ Took

\* The s-tokens that are values, with the kinds of their nodes.
Operands == {<<"ident", "ident">>, <<"st_literal", "literal">>, <<"st_null", "null">>,
             <<"st_true", "bool">>, <<"st_false", "bool">>}
TakeOperand ==
  \E o \in Operands : Taking({o[1]}) /\ Add(o[2], St.raw, FALSE)

\* Those that begin nodes with children of their own.
Openings ==
  {<<"st_begin_block", "block">>, <<"st_class", "class">>, <<"st_begin_inherit", "inherit">>,
   <<"st_defmethod", "method">>, <<"st_annotation", "annotation">>,
   <<"st_begin_param", "params">>, <<"st_begin_call", "call">>, <<"st_begin_arr", "newarr">>,
   <<"st_memberaccess", "memberaccess">>, <<"st_arraccess", "arraccess">>, <<"st_if", "if">>,
   <<"st_else", "else">>, <<"st_for", "for">>, <<"st_foreach", "foreach">>,
   <<"st_while", "while">>, <<"st_return", "return">>, <<"st_try", "try">>,
   <<"st_catch", "catch">>, <<"st_throw", "throw">>, <<"st_include", "include">>}
TakeOpening ==
  \E o \in Openings : Taking({o[1]}) /\ Add(o[2], "", TRUE)
TakeOp ==
  /\ Taking({"op"})
  /\ Add(CASE St.raw = "=" -> "assignment"
           [] St.raw \in {"++", "--"} -> "standalone_op"
           [] OTHER -> "op", St.raw, TRUE)

\* ast_raw goes from the s-tokens to the tree, unless there was an error.
StartBuild ==
  /\ stage = "sexped"
  /\ stage' = (IF errors THEN "rejected" ELSE "build")
  /\ cursor' = 1
  /\ UNCHANGED <<tokens, stack, result, depth, next_is_at, param_list, errors, treeVars>>
Built ==
  /\ stage = "build" /\ cursor > Len(result)
  /\ stage' = "built"
  /\ UNCHANGED <<tokens, cursor, stack, result, depth, next_is_at, param_list,
                 errors, treeVars>>

BuilderNext ==
  \/ StartBuild \/ TakeEnd \/ TakeEndBlock \/ TakeEndInherit \/ TakeIn \/ TakeStatic
  \/ TakeSeparator \/ TakeOperand \/ TakeOpening \/ TakeOp \/ Built
=============================================================================
