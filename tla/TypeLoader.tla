--------------------------- MODULE TypeLoader ---------------------------
(* How the runner makes the tables of methods of a program's classes:      *)
(* load_all_programtypes calls load_programtype for every class, and that  *)
(* calls itself for every parent, whether it has been loaded or not.       *)
EXTENDS Integers, Sequences

CONSTANTS
  SysMethods,  \* the native types, "object" one of them: names to sets of methods
  MaxLoads     \* activations of load_programtype the C++ stack has room for

VARIABLES
  program,     \* the classes: names to their parents, a sequence, and methods, a set
  types,       \* runner::types: names to tables of methods and ancestors
  toload,      \* the classes load_all_programtypes has not come to
  loads,       \* the activations of load_programtype, the innermost last
  loader       \* "idle", "loading", "loaded" or "overflowed"

loaderVars == <<program, types, toload, loads, loader>>

ASSUME NativeTypes ==
  /\ "object" \in DOMAIN SysMethods /\ DOMAIN SysMethods \subseteq STRING
  /\ \A t \in DOMAIN SysMethods : SysMethods[t] \subseteq STRING

\* A method is known by the class that defines it and its name; a table of
\* methods is a function. load_all_systypes gives native types theirs.
Empty == [m \in {} |-> <<>>]
Own(type, methods) == [m \in methods |-> <<type, m>>]
SysTable == [t \in DOMAIN SysMethods |->
               [vtable |-> Own(t, SysMethods[t]), parents |-> <<"object">>]]

LoaderInit == /\ program = Empty /\ types = SysTable /\ toload = {} /\ loads = <<>>
              /\ loader = "idle"

\* The table and the ancestors a type has had so far: none, if it is new.
Known(type) == IF type \in DOMAIN types THEN types[type]
               ELSE [vtable |-> Empty, parents |-> <<>>]
Activation(type) == [type |-> type, data |-> Known(type), next |-> 1, called |-> FALSE]

Over(upper, lower) ==    \* the entries of upper replace those of lower
  [m \in DOMAIN upper \union DOMAIN lower |->
     IF m \in DOMAIN upper THEN upper[m] ELSE lower[m]]

\* mutant: what a class has inherited already stays
KeepFirst(table, from) == Over(table, from)

\* A later parent replaces methods of those before.
Inherit(table, from) == Over(from, table)

\* mutant: only the parent itself
ParentOnly(ancestors, type) == Append(ancestors, type)

WithAncestors(ancestors, type) == Append(ancestors, type) \o Known(type).parents

-----------------------------------------------------------------------------
Inner == loads[Len(loads)]
Parents == program[Inner.type].parents
Parent == Parents[Inner.next]
Running == loader = "loading" /\ loads /= <<>>
Continue(activation) == loads' = [loads EXCEPT ![Len(loads)] = activation]

Load(classes) ==
  /\ loader = "idle"
  /\ program' = classes /\ toload' = DOMAIN classes /\ loader' = "loading"
  /\ UNCHANGED <<types, loads>>

\* The classes come in the order of their names, which may be any.
LoadClass ==
  /\ loader = "loading" /\ loads = <<>>
  /\ \E c \in toload : /\ toload' = toload \ {c}
                       /\ loads' = <<Activation(c)>>
  /\ UNCHANGED <<program, types, loader>>

\* A class without parents gets the methods of object.
InheritObject ==
  /\ Running /\ Parents = <<>> /\ Inner.next = 1
  /\ Continue([Inner EXCEPT
       !.data = [vtable  |-> Inherit(@.vtable, types["object"].vtable),
                 parents |-> Append(@.parents, "object")],
       !.next = 2])
  /\ UNCHANGED <<program, types, toload, loader>>

\* load_programtype(parent_hash) does nothing for a type the program does not define.
LoadParent ==
  /\ Running /\ Inner.next <= Len(Parents) /\ ~Inner.called
  /\ LET waiting == [loads EXCEPT ![Len(loads)].called = TRUE]
     IN  IF Parent \notin DOMAIN program THEN loads' = waiting /\ UNCHANGED loader
         ELSE IF Len(loads) < MaxLoads
         THEN loads' = Append(waiting, Activation(Parent)) /\ UNCHANGED loader
         ELSE loader' = "overflowed" /\ UNCHANGED loads
  /\ UNCHANGED <<program, types, toload>>

\* Then its methods replace those of the parents before. types[parent_hash] makes
\* an entry for a type that does not exist.
InheritParent ==
  /\ Running /\ Inner.next <= Len(Parents) /\ Inner.called
  /\ types' = Over(types, [t \in {Parent} |-> Known(t)])
  /\ Continue([Inner EXCEPT
       !.data = [vtable  |-> Inherit(@.vtable, Known(Parent).vtable),
                 parents |-> WithAncestors(@.parents, Parent)],
       !.next = @ + 1, !.called = FALSE])
  /\ UNCHANGED <<program, toload, loader>>

\* The methods of the class itself replace what it has inherited.
DefineMethods ==
  LET own == Own(Inner.type, program[Inner.type].methods)
      data == [Inner.data EXCEPT !.vtable = Over(own, @)]
  IN  /\ Running /\ Inner.next > Len(Parents) /\ (Parents = <<>> => Inner.next = 2)
      /\ types' = Over([t \in {Inner.type} |-> data], types)
      /\ loads' = SubSeq(loads, 1, Len(loads) - 1)
      /\ UNCHANGED <<program, toload, loader>>

AllLoaded ==
  /\ loader = "loading" /\ loads = <<>> /\ toload = {}
  /\ loader' = "loaded"
  /\ UNCHANGED <<program, types, toload, loads>>

LoaderNext == LoadClass \/ InheritObject \/ LoadParent \/ InheritParent
              \/ DefineMethods \/ AllLoaded

-----------------------------------------------------------------------------
(* The loader alone, for every program whose classes have names of their   *)
(* own; they may inherit from each other in a circle.                      *)

IsProgram(p) ==
  /\ DOMAIN p \subseteq STRING \ DOMAIN SysMethods
  /\ p \in [DOMAIN p -> [parents : Seq(STRING), methods : SUBSET STRING]]

LoaderSpec ==
  /\ IsProgram(program) /\ types = SysTable /\ toload = DOMAIN program /\ loads = <<>> /\ loader = "loading"
  /\ [][LoaderNext]_loaderVars

Bases(c) == IF program[c].parents = <<>> THEN <<"object">> ELSE program[c].parents

\* The bases, from one up to another, that have the method.
Providers(c, from, to, m) ==
  {i \in from..to : i \in DOMAIN Bases(c) /\ m \in DOMAIN Known(Bases(c)[i]).vtable}

\* Every class that is in the table of types has, for each method, its own one or
\* the one of its last base that has it - of the table that base ends with, even if
\* classes are loaded again and again, in any order - and no others: a copy of a
\* table is never older than the table. (A class that has the name of a native
\* type has that one's methods, too, and is in the table before it is loaded.)
VtablesResolve ==
  \A c \in (DOMAIN types \intersect DOMAIN program) \ DOMAIN SysMethods :
    /\ \A m \in program[c].methods :
         m \in DOMAIN types[c].vtable /\ types[c].vtable[m] = <<c, m>>
    /\ \A i \in DOMAIN Bases(c) : \A m \in DOMAIN Known(Bases(c)[i]).vtable \ program[c].methods :
         /\ m \in DOMAIN types[c].vtable
         /\ Providers(c, i + 1, Len(Bases(c)), m) = {}
              => types[c].vtable[m] = types[Bases(c)[i]].vtable[m]
    /\ \A m \in DOMAIN types[c].vtable \ program[c].methods :
         Providers(c, 1, Len(Bases(c)), m) /= {}

\* The ancestors of a class, which `is` looks at, are its bases and what these had
\* when it was loaded, and that is all they ever have.
AncestorsResolve ==
  \A c \in (DOMAIN types \intersect DOMAIN program) \ DOMAIN SysMethods :
    {types[c].parents[k] : k \in DOMAIN types[c].parents} =
      UNION {{Bases(c)[i]} \union {Known(Bases(c)[i]).parents[k] :
                                     k \in DOMAIN Known(Bases(c)[i]).parents} :
             i \in DOMAIN Bases(c)}
=============================================================================
