----------------------------- MODULE Scopes -----------------------------
(* code_gen's scope: which variable a name means at a place in the tree,   *)
(* and in which slot of the frame it lives. The code that is emitted is    *)
(* the matter of CodeGen; here the tree becomes the names it looks up.     *)
EXTENDS Transformers, TypeLoader

\* Places are paths, from the root to a node of the tree.
Places(t) ==
  LET below[n \in 1..Len(t)] ==
        {<<n>>} \union UNION {{<<n>> \o p : p \in below[c]} : c \in Range(Kids(t, n))}
  IN  below[Root]

NodeAt(t, place) == t[Last(place)]
Above(place) == place[Len(place) - 1]
\* The position of a place among the children of the node above.
Position(t, place) == CHOOSE i \in DOMAIN Kids(t, Above(place)) :
                        Kids(t, Above(place))[i] = Last(place)
Innermost(t, place, kind) ==
  LET found == SelectSeq(place, LAMBDA n : Kind(t, n) = kind)
  IN  IF found = <<>> THEN NoParent ELSE Last(found)

\* scope_stack at a place. The variable of a catch is looked up with its
\* block pushed, and a parameter that has a default with the method's body.
scope_stack(t, place) ==
  LET open == SelectSeq(place, LAMBDA n : Kind(t, n) = "block")
      above == Above(place)
      inParams == Len(place) > 2 /\ Kind(t, place[Len(place) - 2]) = "params"
  IN  CASE Kind(t, above) = "catch" -> Append(open, Kids(t, above)[2])
        [] inParams /\ Position(t, place) = 1 ->
             Append(open, Kids(t, Innermost(t, place, "method"))[3])
        [] OTHER -> open

TypeNames(t) ==
  DOMAIN SysMethods \union {t[Kids(t, n)[1]].raw : n \in {n \in Reached(t) : Kind(t, n) = "class"}}
FieldNames(t, class) ==
  IF class = NoParent THEN {}
  ELSE {t[Kids(t, f)[1]].raw : f \in {f \in Range(Kids(t, class)) : Kind(t, f) = "field"}}

\* mutant: every block starts at slot 0
NoOffset(t, blocks) == 0

\* The slots that the locals of these blocks take.
Offset(t, blocks) == FoldLeft(LAMBDA sum, b : sum + Len(t[b].locals), 0, blocks)

\* lookup_result: the slot is that of the first open block that has the name,
\* counted over the blocks outside it.
lookup_variable(t, place, name) ==
  LET open == scope_stack(t, place)
      Has(i) == Contains(t[open[i]].locals, name)
      outer == Min({i \in DOMAIN open : Has(i)})
      index(b) == Min({k \in DOMAIN t[b].locals : t[b].locals[k] = name}) - 1
  IN  CASE name \in TypeNames(t)         -> [type |-> "var_typename", index |-> -1]
        [] \E i \in DOMAIN open : Has(i) -> [type |-> "var_local",
                                             index |-> Offset(t, SubSeq(open, 1, outer - 1)) + index(open[outer])]
        [] name \in FieldNames(t, Innermost(t, place, "class")) ->
                                            [type |-> "var_field", index |-> -1]
        [] OTHER                         -> [type |-> "not_exist", index |-> -1]

\* What stands under these nodes, at these positions, is no variable.
NameAt == "class" :> 1 @@ "call" :> 1 @@ "callmember" :> 1 @@ "newobj" :> 1 @@ "memberaccess" :> 2
\* A store: the left side of an assignment, a loop variable, the variable of a catch.
Stores(t, place) ==
  \/ Kind(t, Above(place)) \in {"assignment", "catch"} /\ Position(t, place) = 1
  \/ /\ Kind(t, Above(place)) = "foreach"
     /\ Position(t, place) <= Len(Kids(t, Above(place))) - 2
Variables(t) ==
  {p \in Places(t) :
     /\ NodeAt(t, p).kind = "ident" /\ NodeAt(t, p).raw \in Names
     /\ Kind(t, Above(p)) \notin {"method", "params", "annotation", "field", "inherit", "include"}
     /\ ~(Kind(t, Above(p)) \in DOMAIN NameAt
          /\ NameAt[Kind(t, Above(p))] = Position(t, p))
     /\ ~(Kind(t, Above(p)) = "newdic" /\ Position(t, p) % 2 = 1)   \* a key
     /\ ~(NodeAt(t, Front(p)).raw = "is" /\ Position(t, p) = 2)}
Stored(t) == {p \in Variables(t) : Stores(t, p)}
Loaded(t) == {p \in Variables(t) : ~Stores(t, p)}
Lookup(t, place) == lookup_variable(t, place, NodeAt(t, place).raw)

\* The methods with an annotation `main`.
Mains(t) == {n \in Reached(t) : Kind(t, n) = "method" /\
               \E i \in DOMAIN Kids(t, n) : /\ Kind(t, Kids(t, n)[i]) = "annotation"
                                            /\ t[Kids(t, Kids(t, n)[i])[1]].raw = "main"}

\* lookup_method; the sources call no native functions by name, and no super.
Named(t, n) == t[Kids(t, n)[1]].raw
Methods(t, class, name) ==
  {m \in Range(Kids(t, class)) : Kind(t, m) = "method" /\ Named(t, m) = name}
Static(t, place) == t[Innermost(t, place, "method")].attr

\* A call of no method of the class, or of one of an object from a static method.
MisplacedCall(t, place) ==
  LET called == Methods(t, Innermost(t, place, "class"), Named(t, Last(place)))
  IN  /\ NodeAt(t, place).kind = "call"
      /\ called = {} \/ (Static(t, place) /\ \E m \in called : ~t[m].attr)
\* X.name(..) of a class X that has none: the call that is left for later stays unresolved.
UnresolvedCall(t, place) ==
  LET receiver == t[Kids(t, Last(place))[2]]
      meant == {c \in Reached(t) : Kind(t, c) = "class" /\ Named(t, c) = receiver.raw}
  IN  /\ NodeAt(t, place).kind = "callmember"
      /\ receiver.kind = "ident"
      /\ \E c \in meant : Methods(t, c, Named(t, Last(place))) = {}
\* this, as the object of a call or an access, in a static method.
MisplacedThis(t, place) ==
  /\ NodeAt(t, place).kind = "ident" /\ NodeAt(t, place).raw = "this"
  /\ <<Kind(t, Above(place)), Position(t, place)>> \in {<<"callmember", 2>>, <<"memberaccess", 1>>}
  /\ Static(t, place)
\* What is assigned to is no name and no property.
WrongStore(t, place) ==
  /\ NodeAt(t, place).kind = "assignment"
  /\ Kind(t, Kids(t, Last(place))[1]) \notin {"ident", "memberaccess"}

\* generate: there is one main, and it is static; a name that is read and stands
\* for nothing is an error; one that is stored is looked up and the result used
\* whatever it is.
generate ==
  LET bodies == {p \in Places(nodes) : Innermost(nodes, p, "method") /= NoParent}
      bad == \/ Cardinality(Mains(nodes)) /= 1
             \/ \E m \in Mains(nodes) : ~nodes[m].attr
             \/ \E p \in Loaded(nodes) : Lookup(nodes, p).type = "not_exist"
             \/ \E p \in bodies : \/ MisplacedCall(nodes, p) \/ UnresolvedCall(nodes, p)
                                  \/ MisplacedThis(nodes, p) \/ WrongStore(nodes, p)
  IN  /\ stage = "done"
      /\ errors' = bad
      /\ stage' = IF bad THEN "rejected" ELSE "generated"
      /\ UNCHANGED <<frontVars, nodes, transVars>>

\* The types of the program, made from the classes of the tree.
Typedata(t) ==
  LET Members(c, kind) == SelectSeq(Kids(t, c), LAMBDA n : Kind(t, n) = kind)
      Inherits(c) == IF Len(Kids(t, c)) > 1 /\ Kind(t, Kids(t, c)[2]) = "inherit"
                     THEN Kids(t, Kids(t, c)[2]) ELSE <<>>
      classes == {n \in Reached(t) : Kind(t, n) = "class"}
  IN  [name \in {Named(t, c) : c \in classes} |->
         LET c == CHOOSE c \in classes : Named(t, c) = name
         IN  [parents |-> [i \in DOMAIN Inherits(c) |-> t[Inherits(c)[i]].raw],
              methods |-> {Named(t, m) : m \in Range(Members(c, "method"))}]]
=============================================================================
