---------------------------- MODULE FrontEnd ----------------------------
(* From a source to the types the interpreter starts with: compile runs    *)
(* the parts of the compiler one after the other, each on what the part    *)
(* before left, and the constructor of runner loads the program's types.   *)
EXTENDS Scopes

CONSTANT Sources     \* the programs, each with what a reader expects of it:
                     \*   text     its text
                     \*   tokens   its tokens
                     \*   outcome  the stage it ends in
                     \*   parsed   the tree of its text
                     \*   lowered  the tree code is generated from

VARIABLE source

sharedVars == <<tokens, stage, errors>>
vars == <<source, sharedVars, lexerVars, sexperVars, treeVars, transVars, loaderVars>>

Init ==
  /\ source \in DOMAIN Sources
  /\ LexInit(Sources[source].text)
  /\ SexperInit /\ TreeInit /\ TransInit /\ LoaderInit

Generate ==
  /\ generate
  /\ IF stage' = "generated" THEN Load(Typedata(nodes)) ELSE UNCHANGED loaderVars
Final == \/ stage \in {"rejected", "trapped"}
         \/ loader \in {"loaded", "overflowed"}
Stopped == Final /\ UNCHANGED vars

Next ==
  \/ LexNext /\ UNCHANGED <<source, sexperVars, treeVars, transVars, loaderVars>>
  \/ SexperNext /\ UNCHANGED <<source, lexerVars, treeVars, transVars, loaderVars>>
  \/ BuilderNext /\ UNCHANGED <<source, lexerVars, transVars, loaderVars>>
  \/ TransNext /\ UNCHANGED <<source, lexerVars, loaderVars>>
  \/ Generate /\ UNCHANGED <<source, lexerVars>>
  \/ LoaderNext /\ UNCHANGED <<source, sharedVars, lexerVars, sexperVars, treeVars, transVars>>
  \/ Stopped

\* compile() and the constructor are two calls that nothing interrupts. This is
\* WF_vars(Next): a step is possible until the end, as no run finds a deadlock.
Fairness == []<><<Next>>_vars \/ []<>Final
Spec == Init /\ [][Next]_vars /\ Fairness

-----------------------------------------------------------------------------
\* The tree as the reader sees it: separators are left out, and pops too
\* unless `pops`. `else` stands for its place in the block or the if.
Skeleton(t, kinds) ==
  LET under[n \in 1..Len(t)] ==
        LET kids == SelectSeq(Kids(t, n), LAMBDA c : Kind(t, c) \notin kinds)
            raw == CASE Kind(t, n) \notin {"ident", "literal", "op", "standalone_op"} -> ""
                     [] IsInteger(t, n) -> ToString(t[n].integer)
                     [] OTHER -> t[n].raw
        IN  [kind |-> Kind(t, n), raw |-> raw, kids |-> [i \in DOMAIN kids |-> under[kids[i]]]]
  IN  under[Root]

Parsing == stage \in {"build", "built"}
Transforming == stage \in {"vnodes", "rounds"}

\* A block is never the first child of a method: on_complete, which the body calls,
\* reads the name's and the parameters' places (oop_fundamental_node.cpp:62).
MethodsNamed ==
  stage = "build" /\ cursor <= Len(result) /\ St.type = "st_begin_block" =>
    ~(nodes[Into].kind = "method" /\ nodes[Into].children = <<>>)

JustGenerated == stage = "generated" /\ loads = <<>> /\ toload = DOMAIN program

TypeOK ==
  /\ stage \in {"lex", "index", "call", "at", "sexp", "sexped", "build", "built", "vnodes",
                "rounds", "done", "generated", "rejected", "trapped"}
  /\ tail <= head /\ head <= Len(src)
  /\ cursor \in 1..(Max({Len(tokens), Len(result)}) + 2)
  /\ depth \in Int /\ {next_is_at, param_list, errors, changes} \subseteq BOOLEAN
  /\ current \in DOMAIN nodes /\ MethodsNamed
  /\ \A n \in DOMAIN nodes : /\ nodes[n].children \in Seq(1..Len(nodes))
                             /\ nodes[n].parent \in NoParent..Len(nodes)
  /\ pass \in 0..Len(Passes)
  /\ \A i \in DOMAIN frames : frames[i].node \in DOMAIN nodes
  /\ toload \subseteq DOMAIN program /\ Len(loads) <= MaxLoads
  /\ \A i \in DOMAIN loads : loads[i].type \in DOMAIN program

\* The source ends where a reader of the language expects: its types are loaded or
\* it is rejected. A division by zero between literals takes the compiler down
\* (optimiser.h:42), and only classes that inherit from each other in a circle
\* overflow the runner's stack.
Outcome ==
  Final => Sources[source].outcome = (IF stage = "generated" THEN loader ELSE stage)

\* The lexer finds the tokens a source is written with, however much or little
\* space there is between them: names that begin with or contain a keyword, signs
\* and operators, dots of numbers and of members, quoted text and comments are told
\* apart by what stands before and after them.
Lexes == stage = "index" /\ cursor = 2 =>
           tokens = [i \in DOMAIN Sources[source].tokens |-> Token(Sources[source].tokens[i])]

\* The expression parser and the tree builder together give the tree of the
\* text: operators by priority, brackets by what is before them, statements
\* in the block they stand in, else and catch after theirs.
Parses ==
  stage = "built" => Skeleton(nodes, {"endl", "comma"}) = Sources[source].parsed

\* What the rounds of transformers make of the tree is the expansion of the
\* source's sugar, wherever it stands and however it is nested, although the
\* traversal goes on in replaced nodes; and every call that is a statement is
\* followed by its pop.
Lowers ==
  stage = "done" => Skeleton(nodes, {"endl", "comma"}) = Sources[source].lowered

\* While the tree is built, the node that takes what follows is at its right
\* edge, and every node is the child of just its parent.
RightEdge ==
  stage = "build" =>
    LET edge[n \in DOMAIN nodes] ==
          {n} \union IF Kids(nodes, n) = <<>> THEN {} ELSE edge[Last(Kids(nodes, n))]
    IN  /\ current \in edge[Root]
        /\ \A n \in DOMAIN nodes \ {Root} : Contains(Kids(nodes, nodes[n].parent), n)
        /\ \A n \in DOMAIN nodes : \A i \in DOMAIN Kids(nodes, n) :
             nodes[Kids(nodes, n)[i]].parent = n

\* After each visit of a transformer, going up from a node that declares locals
\* when it is completed finds the block and the method it stands in. On the way
\* up there may be nodes that were replaced; the block that became a dictionary is
\* one, and a dictionary declares nothing.
UpwardRight ==
  Transforming /\ frames /= <<>> /\ Top.next = 1 =>
    \A p \in {p \in Places(nodes) : /\ NodeAt(nodes, p).kind \in {"assignment", "foreach"}
                                    /\ Innermost(nodes, p, "newdic") = NoParent},
       kind \in {"block", "method"} :
      find_upward_until(nodes, Last(p), kind) = Innermost(nodes, Front(p), kind)

\* Every store to a variable finds a local (code_gen.h:969: "Cannot be
\* happend, maybe bug?"), and its slot is within the frame op_call reserves.
SlotsFit ==
  JustGenerated =>
    \A p \in Variables(nodes) :
      /\ p \in Stored(nodes) => Lookup(nodes, p).type = "var_local"
      /\ Lookup(nodes, p).type = "var_local" =>
           Lookup(nodes, p).index < nodes[Innermost(nodes, p, "method")].local_size

\* Two variables that are alive at the same place never share a slot, and the
\* parameters have the first slots, in their order, where a caller puts them.
SlotsApart ==
  JustGenerated =>
    /\ \A p, q \in Variables(nodes) :
         /\ IsPrefix(scope_stack(nodes, p), scope_stack(nodes, q))
         /\ NodeAt(nodes, p).raw /= NodeAt(nodes, q).raw
         /\ {Lookup(nodes, p).type, Lookup(nodes, q).type} = {"var_local"}
         => Lookup(nodes, p).index /= Lookup(nodes, q).index
    /\ \A n \in Reached(nodes) : Kind(nodes, n) = "method" =>
         LET params == SelectSeq(Kids(nodes, Kids(nodes, n)[2]), LAMBDA p : Kind(nodes, p) /= "comma")
             Name(p) == nodes[IF Kids(nodes, p) = <<>> THEN p ELSE Head(Kids(nodes, p))].raw
         IN  \A i \in DOMAIN params :
               nodes[Kids(nodes, n)[3]].locals[i] = Plain(Name(params[i]))

\* A step of a transformer takes no name out of the tree, but for the `new`
\* that a newobj stands for: nothing else would be noticed missing.
NothingLost ==
  [][Transforming =>
       {n \in Reached(nodes) : Kind(nodes, n) = "ident" /\ nodes[n].raw /= "new"}
         \subseteq Reached(nodes')]_nodes

\* Compilation and loading end: the tokens, the tree, the rounds and the parents
\* run out, and no transformer reports changes for ever.
Ends == <>Final
=============================================================================
