# Verification of rookie.lang

rookie.lang is a small object-oriented scripting language: a compiler that
turns source text into a syntax tree and the tree into bytecode, and a virtual
machine that interprets the bytecode, with a mark-and-sweep garbage collector.
This directory holds TLA+ models of the parts whose correctness is hardest to
test, the TLC configurations that check them, and proofs for TLAPS.

Line numbers below are those of the repository's sources under `src/`.

## 1. The system

### 1.1 How a program runs

    text --lexer--> tokens --tree_builder/sexper--> syntax tree
         --ast transformers, optimisers (rounds to a fixpoint)--> syntax tree
         --code_gen--> program (code, entries, types, handlers, rdata)
         --runner::execute--> run_entry loop over one value stack
                 |-- gc::add_object (collects inside an allocation)
                 |-- runner::syscall --> bound C++ function --> exe_context::call
                                                            --> run_entry again

Everything runs on one thread. The interleavings are those of *nesting*: the
collector runs in the middle of the operation that allocates, a native function
calls back into the interpreter in the middle of an instruction, and the
interpreter loop is entered once more for each call.

### 1.2 Components

| Component | State | Operations | Talks to |
|---|---|---|---|
| Garbage collector (`gc.cpp`, `gc.h`) | `all_objects`, `next_collect`, `force_no_gc`; a `gc_context` per collection | `add_object`, `collect`, `mark`, `sweep`, `shrink_if_possible`, `grow_single`, `grow_until_fit`, `begin_no_gc`, `end_no_gc` | reads the VM stack and the properties of objects, calls `gc_visit` of containers |
| Interpreter (`runner.cpp`, `vstack.h`, `call.h`) | `stack`, `callstack`, `pc`, `bp`, `current_entry`, `callee_ptr`, `exception`; the C++ recursion of `run_entry` | one per opcode; `programcall`, `syscall`, `_vcall`, `handle_exception`, `push_callframe` | allocates through the collector, calls bound functions |
| Bindings (`binding.h`, `exe_context.cpp`) | a `thread_local` current context | an adapter per arity; `exe_context::call`, `vcall` | pop arguments, push a result, enter the interpreter |
| Code generator (`code_gen.h`, `program.h`) | the code, entries, handlers, open scopes, counters | one `emit_*` per node kind, `begin_try`..`end_catch`, `fin` | reads the tree, fills `program` |
| Type loader (`runner.cpp:1030-1134`) | runtime types, vtables, ancestors | `load_all_systypes`, `load_all_programtypes`, `load_programtype` | reads `program`, recursion into parents |
| Scopes (`code_gen.h:60-131`, `syntax/*.cpp`) | per block: locals and their offset | `push_local`, `lookup_variable`, `on_complete` | tree builder, code generator |
| Syntax nodes and tree builder (`syntax_node.*`, `tree_builder.h`) | the tree and the node being completed | `append`, `is_complete`, `nearest_incomplete` | lexer, sexper |
| Lexer (`lexer.cpp`) | position, where the gathering began, whether inside quotes, the last character that was no blank | one pass over the text, `parse` for what gathers between the rules' tokens | errors |
| Expression parser (`sexper.cpp`) | result list, operator stack, open braces | `preprocess` moves and reverses tokens, then one pass from the back with a handler for each kind of place | tree builder |
| Tree transformers (`ast/*.h`, `compiler.cpp:95-120`) | whether the round changed the tree | a rewrite per node kind | traversal (`syntax_travler.h`) |
| Constant folding, tail calls (`optimiser.h`) | none | a rewrite per operator node | errors |
| Containers and iterators (`array.cpp`, `dictionary.cpp`, `iterator.h`) | `ary`, `dic`; `ptr` and `it` of iterators | methods bound into the VM | script code, from inside their loops; collector (`gc_visit`) |
| Standard library (the rest of `libs/`) | none of the VM's | bound functions | collector |
| Program files, interning, validators, debugger, wasm backend, command line | tables and text | pure input and output | - |

### 1.3 What makes them correct, and what is hard

*Collector.* It must delete what is unreachable, nothing else, and it must do so
although it runs at a moment the mutator did not choose. The hard part is not
the marking but the moment: any reference that is not on the VM stack when
`add_object` is called is lost. Marking must terminate on cyclic graphs and
not recurse without bound. The threshold arithmetic (factors 0.7, 0.8 and 1.1,
unsigned 32 bit) must not leave the collector permanently over its threshold.

*Interpreter and code generator.* They share an unwritten contract: how high
the stack is at each instruction, where the receiver of a call lies, who drops
which values on a return. One stack serves all activations, so a mistake in one
method shows up in another. Native functions nest interpreter loops, and C++
exceptions unwind the loops but not the call frames.

*Containers.* Iterators and native loops refer to the C++ container itself,
while the body of a `foreach`, or a script method that `to_string` or `==` calls on an
item, runs between two of their steps and may change it. Which changes a loop survives
depends on how each loop is written: by index, by `std::vector` iterator, by `std::map`
iterator, or by `std::remove`.

*The rest of the compiler.* The lexer and the parser must read what the grammar
says; what makes that hard is that each part repairs what the part before left:
the parser moves tokens about before it reads them backwards, the tree builder
guesses from the number of children where the next node goes, a transformer's
traversal goes on in a node that was just replaced, a local's slot is computed
twice, by two traversals, and the type loader loads a class again for every class
that inherits from it. The rewriting rounds must end, slots of different live
variables must differ, folded constants must be what the interpreter would have
computed, and nested handlers must be found innermost first.

`PROJECT.json` lists each hazard at its line, with the properties that cover
it or the reason why none does yet.

## 2. Modules

    HeapSpec  what a collected heap promises               CallSpec  what calls promise
       ^ implemented by                                       ^ implemented by
    GC        collector + heap operations of the VM        Runner    interpreter
       ^ extended by      ^ proved about                   ^ extended by   ^ extended by
    MCGC      for TLC    GCProofs                       CodeGen            Verifier
                                                           ^ extended by   ^   ^ proved about
                                                           MCRunner -------+  RunnerProofs
                                                           programs for TLC    ^ extended by
                                                                              CallProofs
                                                                               ^ extended by
                                              CodeGenProofs (of CodeGen too)  FaultProofs

    Tokens <- Lexer <- Sexper <- TreeBuilder <- Transformers <- Scopes <- FrontEnd <- MCFrontEnd
                                                                  |       composition  sources for TLC
                                 TypeLoader  <--------------------+           ^ proved about
                                    ^ proved about                            |
                                 TypeLoaderProofs     (<- : is extended by)   TreeProofs

    Containers <- MCContainers    containers that change under the loops over them
        ^ proved about
    ContainersProofs

### 2.1 HeapSpec

A heap, the program's roots and the references between objects. `Program`
creates objects and moves references the program can reach; `Reclaim` removes
exactly what cannot be reached. There are no marks, thresholds, or guards.

### 2.2 GC

Models `gc.cpp` completely, and of the VM and the libraries every *kind* of
operation that allocates, stores, loads or drops a reference.

| Model | Code |
|---|---|
| `heap` | the objects that exist (C++ memory) |
| `all_objects`, `next_collect`, `force_no_gc` | the fields of `gc` |
| `slot` | `object::properties` (`PropKeys`) and container elements (`ElemSlots`) |
| `over` | the container an iterator object has a C++ reference to |
| `stack`, `fields` | `runner::stack`, static fields of types |
| `marks`, `cursor`, `frames` | `gc_context::marks`, the loop of `collect`, the C++ activations of `mark` |
| `phase`, `ret` | where the collector is; what the interrupted operation does when `add_object` returns |
| `building` | the container a native function is filling and has not registered |
| `status` | `"ok"` until a deleted object is dereferenced or the C++ stack is used up |

`AddObject` is `gc::add_object` up to its call of `collect`. `MarkRoot`,
`MarkProperty`, `MarkElement` and `MarkReturn` are the steps of the recursive
`mark`; properties already marked are skipped, elements of containers are not,
as in the code. `Sweep` contains `shrink_if_possible`, `Grow` the rest of
`add_object`, and `Return` the rest of the operation that allocated.

The order in which an operation registers and pushes is the point of the model:
`NewObj` and `NewArr` push first (`runner.cpp:509-586`; a `_ctor` that `op_newobj` calls in between, with the object
on the stack and not yet registered, is left out); `InitObj`
(`_initobj_systype`, `runner.cpp:922`) registers first; `Throw` keeps the
object in the register `exception` while registering it again; `GetIterator` replaces
the container by an iterator; `BuildBegin`, `BuildAdd`, `BuildEnd`, `BuildFail`
are native functions that fill a container over several allocations, with the no-gc
guard (`dir.glob`) or without (`type.methods`).

The constant `Ops` says which operations the program uses. `StackOps` in
`GCProofs` are those that never hold a reference outside the stack.

Reductions: a value that is not a collectable object is `Nil`. An object may
have properties and elements, a superset of what the classes of the code allow.
The element order of a container, dictionary keys and the C++ `delete` of
objects still registered at exit are left out. The factors 0.8, 0.7 and 1.1
are exact fractions: the code computes in `double` and truncates.

### 2.3 CallSpec

Activations, each with operands of its own. `Work` changes the running one,
`Call` moves the topmost values to a new one, `Return` moves one value back. That no
activation sees another's operands is what the flat stack of the VM has to provide.

### 2.4 Runner

Models the interpreter: `run_entry` with one action per group of opcodes that
have the same control and stack effect, and the call machinery.

| Model | Code |
|---|---|
| `buf`, `ptr` | `vstack` |
| `callstack` | `runner::callstack`; as in the code a frame keeps the *caller's* `pc` and `bp` |
| `host` | the C++ activations of `run_entry`: the depth each was entered at and what its C++ caller does with the result (`"none"` for `op_call`, `"fold"` for `_vcall`, operators and constructors, `"native"` for `exe_context::call`) |
| `callee` | `callee_ptr`, as a slot number |
| `exception` | the exception register |
| `prog` | the loaded program |
| `status` | `"fault"`: a failed assert or an access outside the stack; `"aborted"`: an unhandled exception |

`EnterFrame` is `programcall` with `push_callframe`; `After` is what the C++
caller does when `run_entry` returns; `CppThrow` unwinds `host` to the nearest
`syscall` and nothing else; `Handle` is `handle_exception`. `StackFault` makes
an access outside the stack visible, also where an exception is pushed for its handler. A fault is final: what a C++ program does
afterwards is undefined.

Data are abstract: arithmetic and property reads return any member of
`Results`, so every conditional goes both ways. `op_add` is separate from the
other operators because it leaves its left operand on the stack (`runner.cpp:449`).
Native methods reached by `op_vcall` may throw; that they call back is left out, as it is
modelled for `op_syscall`.
`OutOfObjects` is no behaviour of the code: it ends a run of the model that
needs more objects than the constant `Objects` has.

### 2.5 Verifier

The VM verifies nothing when it loads a program: it relies on what the code generator
emits. `Verifier` states what it relies on as conditions on each instruction and those
that may follow it, which a verifier of bytecode would check in one pass: `Heights` (the
number of operands is the same on all ways to an instruction, and enough for it; `ret` finds
the locals and the result), `Raises` (the catch block of a `throw` begins at the height the
exception is pushed at; other exceptions of the program's own making find no handler; no
arguments are collected), `Guarded` (C++ exceptions find no handler). `Verified` is their
conjunction. `AddsNumbers` is the one condition on the data: `+` finds two numbers.

Three more conditions need a certificate, as a verifier would compute by data flow:

* `Tracked(p, reg)`: `reg.known` says for each instruction what is known of the callee register there
  (nothing, that it points to some slot, or to which operand), `reg.tidy` and `reg.quiet`
  which methods do not lose it, or leave it as it is. The condition is local: what is known at
  an instruction follows from what is known at each one before it, and methods are tidy or quiet only if
  what they call is. `Dispatches(p, reg)`: a `vcall` finds its receiver known; constructors take
  no arguments.
* `Roomy(p, need)`: `need[d][e]` slots are enough for method `e` when it is called with `d`
  frames on the call stack; the bootstrap, at depth 1, needs no more than the stack has. A recursive
  method needs more the lower the depth: the limit of `run_entry` is what ends the sum.
* `Nested(p)` needs none: the handlers are in the order of their try blocks, each inside the one around
  it or apart from it, and all inside the first.

They are what the theorems about Runner assume. `MCRunner` computes the certificates (`Known`,
`Tidy`, `Quiet`, `Need`) for the programs of the runs and states as ASSUMEs, which TLC
evaluates, that these satisfy the conditions: the programs of `runner_calls` all but `Dispatches`,
97 of `runner_receiver` all but `Roomy` and `Nested`. They are conditions of the *theorems* only: the model executes any program. That the code
generator's output is `Verified` is itself a theorem (4.3).

### 2.6 CodeGen and MCRunner

`CodeGen` translates each `emit_*` of `code_gen.h` to an operator from the code
of the children to the code of the node; `Link` is `program_builder::fin`. The
programs that `Runner` executes are therefore what the code generator emits, not
hand-written bytecode. It lays the methods one after the other (`Laid`), fills in the targets
of jumps (`Absolute`), and also computes `height` (`HeightsOf`), the number of operands the
running activation should have at each instruction. The table of exception handlers is computed
twice: by `Table` as the code does (`begin_try` .. `end_catch`, `code_gen.h:241-260`) and by
`Tries` from the nesting of the source; `InnermostCatches` relates them.

`MCRunner` builds sets of small source programs (in the comments) with these
operators: 276 programs with every kind of statement around every kind of call
two deep; 150 with try and catch, also nested; 21 with recursion; 97 with receivers, constructors, default
parameters, overloaded operators and call-backs; 42 with variadic calls and
exhaustion of the model's objects. The initial state picks the program.

The comma nodes the tree builder leaves between parameters, arguments and items are `Comma`: they
emit nothing and are counted, as by `args()` and `children.size()`. One program, translated from a test,
has them and goes wrong (`runner_commas`). All others have one parameter, argument and item or none; a
method with two parameters has three for the code generator, and is called with one argument or none. A
variable declared in the method's own block gets two slots, since `local_size` counts it twice
(`oop_fundamental_node.cpp:60-71`, `basic_node.cpp:42`).

### 2.7 The front end

Each module adds the variables and the steps of one part of the compiler to those
of the parts before; `FrontEnd` composes them with `source`, the program that is
compiled. The parts run one after the other and share `tokens`, `stage` (which of
them runs) and `errors`.

| Module | Code | One step |
|---|---|---|
| `Tokens` | the table of rules, `token.h`, `s_token` | constants and record types only |
| `Lexer` | `lexer::lex`, `lexer::parse` | one round of lex's loop: a character gathers, a comment is skipped, a rule fits |
| `Sexper` | `sexper::preprocess`, `sexp`, the three handlers, the flushes | one round of a loop of `preprocess`; one token of the pass from the back |
| `TreeBuilder` | `tree_builder::build`, `syntax_node::append`, every `on_complete`, `push_local` | one s-token, with the wrapping and the completions it causes |
| `Transformers` | the validators, `++` and `--`, `syntax_traveler::_visit`, the ten transformers, `precalc`, the rounds, `endl_pop` | one visit of a node, or the change to the next child, activation, pass or round |
| `Scopes` | `scope`, `lookup_variable`, `generate`'s errors | `generate` is one step: it only reads the tree |
| `TypeLoader` | `load_all_systypes`, `load_all_programtypes`, `load_programtype` | one parent of one activation |

*Lexer.* `src`, `head`, `tail`, `inside_quote` and `last_meaningful_ch` are the
variables of `lex`, and a step looks at one character. Blanks are tokens that the code
removes at the end; the model does not keep them. A backquote is written `'`, since a
string of TLA+ cannot hold one. Line and column numbers are left out.

*Sexper.* `preprocess` moves a bracket that stands behind a name in front of it, reverses
the tokens and turns the brackets round; `MoveIndexed`, `MoveCalled` and `Turn` are
these loops. The pass from the back keeps operators and operands that wait on
`stack`; `sexp_root`, `sexp_class` and `sexp_methodbody` are chosen by the braces
that are open (`depth`).

*TreeBuilder.* `nodes` is a sequence of records, one per node ever made; an address
is a position in it. `capacity` and `nth_block_or_single` are the numbers the
constructors in `syntax_node.h` set, and `is_complete`, `nearest_incomplete_node` and
`find_upward_until` are the methods of these names. Names of locals are kept per
block (`locals`) and their number in the method (`local_size`), as in the code.

*Transformers.* `frames` holds the activations of `_visit`: a node that was replaced
stays in its activation, whose children then get it as parent again. A node that a
transformer makes has no parent until the traversal puts it into the tree; the code
leaves the field uninitialized there, the model has `NoParent`.

*Scopes.* A place is a path from the root, since a node may be reached by several
paths after a transformer used it twice. `scope_stack` is the list of blocks that are
open when the code generator reaches the place, including the two exceptions: the
variable of a catch is looked up with its block pushed, a parameter with a default
inside the method's body.

*TypeLoader.* `types` is the table of runtime types, `loads` the recursion of
`load_programtype`. A class is loaded again for each class that inherits from it, starting
from the table it has. `MaxLoads` bounds the C++ stack: `overflowed` stands for its end.

*MCFrontEnd* has 162 sources as terms: expressions and statements of all kinds, alone and
nested in loops and handlers, declarations, hierarchies of classes, programs to be
rejected or to stop the compiler, and texts that are no programs. The tokens of a term, the tree it should be
parsed into and the tree code should be generated from are computed by recursion over
the term, that is from the grammar and from what the sugar stands for, and not by the
algorithms of the code. Half of the sources are written as tightly as the tokens
allow, half with blanks and comments between them.

### 2.8 Containers

| Model | Code |
|---|---|
| `items`, `entries` | `rkarray::ary`, `rkdictionary::dic` of the containers that exist |
| `loops` | the loops under way, a stack: a `foreach` with its iterator object, or the C++ frame of a native function |
| `loop.at`, `loop.valid` | `ptr + 1`, `i + 1` or the key at which `it` stands; whether the C++ iterator is still good |
| `loop.kept`, `loop.end` | the two positions inside `std::remove` |
| `loop.left` | statements the script code that runs now, a body or a method, may still execute |
| `loop.answers` | what the `equal` that was called may return |
| `loop.due`, `loop.hurt` | history for the properties: what the loop has yet to see, and whether its containers lost items |
| `status` | `"ok"` until undefined behaviour or a C++ exception stops what the model follows |

*Statements* are the operations of scripts: `Push`, `SetItem`, `Clear`, `NewArray` (`+`
and `reverse`), `SetEntry`, `GetEntry`, `EraseEntries`, and the beginning of each kind of
loop. They happen at the top level, in the body of a `foreach`, and in the method
`to_string` or `equal` of an item that a native loop has reached. *Advance* is the
code that follows: `move_next`, or the C++ loop after the called method returned.

What the libraries do is translated as it is, also where it surprises: `remove_at` is
bound to `remove` (`array.cpp:23`); reading a missing key inserts an empty value
(`dictionary.cpp:43-46`) that neither `==` (`"thrown"`) nor `to_string` (`"no_text"`: it
is called on a null pointer, `exe_context.cpp:63-68`) can deal with; a `foreach` reads the first item
before it asks whether there is one (`"empty"`); indices are not checked
(`"bad_index"`); `equal` looks at the length of the right array once. A growing
`std::vector` may or may not move, so `Push` chooses; so does `NextRemoved`, since C++ leaves open
whether the `ary.end()` of `erase` is evaluated before or after `std::remove` has called methods.

Abstracted: keys are numbers, values are plain or objects with script methods; what
`+` does with a value that is no array; what is left on the VM stack by calls
from C++; methods that throw. Addresses are not reused, the collector is GC's.

## 3. Runs

All bounds are constants in the `.cfg`.

| Run | States | Question and answer |
|---|---|---|
| `gc_core` | 490,864 | Programs that create and change graphs of objects and containers. Marking is sound (`TriColour`) and precise (`MarkPrecise`), no reference dangles (`NoDangling`), the threshold stays sensible (`ThresholdInv`), recursion is bounded (`MarkDepthBounded`), and the heap implements HeapSpec (`HeapPromise`). |
| `gc_native` | 2,407,887 | The unsafe operations, and `dir.glob` with its guard, its failures and a threshold that saturates. Roots are lost, but relative to the roots it sees the collector is exact (`CollectExact`); nothing in an array under construction is collected (`BuildingLive`), and every collection ends (`CollectTerminates`). |
| `gc_newborn` | violation | See section 5. |
| `runner_calls` | 41,348 | For compiled programs the stack has at each instruction the height the code was generated for (`HeightsAsCompiled`), nothing faults (`NoFault`), one value is left at the end (`EndsClean`), calls implement CallSpec (`CallPromise`), interpreter loops and call frames agree through native functions that call back (`HostInStep`), and an exception continues in the innermost try block around it (`InnermostCatches`). A program without loops ends (`Terminates`): recursion without a bottom ends by the depth limit, before the stack does. |
| `runner_receiver` | 8,890 | Programs with one argument or none and without a method call among the arguments of a method call: the callee register points under the arguments (`ReceiverUnderArgs`), `this` is an object with the running method (`ThisIsReceiver`), the argument is in the first local and nothing in those of missing ones (`ArgumentsArrive`); a method with variable arguments, called with one or none from a method without locals, collects just that, whatever lies below on the stack (`VaArgsOwn`). Some programs fill the stack. |
| `runner_nested`, `runner_selfcall`, `runner_ctor`, `runner_commas` | violations | See section 5. |
| `front_end` | 243,495 | 162 sources from text to loaded types. The lexer finds the tokens the source was written with (`Lexes`), the parser the tree of the text (`Parses`), the rounds leave the expansion of the sugar with every call statement popped (`Lowers`) and lose no name on the way (`NothingLost`); the node that takes what follows is at the right edge of the tree (`RightEdge`), and going up finds the block and the method a node stands in after every visit (`UpwardRight`); stores find slots within the frame (`SlotsFit`), variables alive together have different ones and parameters the first (`SlotsApart`); classes get the methods (`VtablesResolve`) and ancestors (`AncestorsResolve`) of their bases; compilation ends (`Ends`), in the stage a reader expects (`Outcome`). |
| `front_params` | violation | See section 5. |
| `containers` | 395,907 | Programs that change containers while they loop over them, with one loop inside another. A loop goes wrong only by one of the few changes to its own container listed at `OnlyDisturbedFails`: everything else that bodies and methods do is safe. A loop that ends has had every item it owed (`NoneMissed`), and loops end (`LoopsEnd`). |

With two workers `front_end` and `gc_native` take about two minutes, `gc_core` a little more than one, the others seconds.

### 3.1 Bounds, and why they are enough

*GC.* Three objects with one property and one element each give every shape
that matters: chains, sharing, cycles of one, two and three, an object reachable
in two ways. `GrowSize = 2` and `MaxThreshold = 4` make the threshold start,
grow, shrink and saturate within three objects. `MaxStack` bounds the stack, not what
the collector does with it. `MaxDepth = 9` is above what precise marking needs
for three objects (and the square that `MarkingDepth` asks for), so `MarkDepthBounded` fails as soon as marking repeats.
Permuting `Objects` is a symmetry: no object is named. The runs with a liveness
property use no symmetry.

*Runner.* `StackSize` is 12 instead of 1024 and `MaxCalls` 5 instead of 150. As in the code the depth
limit comes first only if methods are small: 5 calls of two slots or a little more against 12, 150 calls of at
most 6 against 1024 (`Roomy`, which TLC evaluates for these numbers). Two objects of one class are enough to distinguish the
receivers; two scalars are enough to distinguish arguments and go both ways at
a branch. Calls nest two deep because the hazards (a register overwritten by an
inner call, an operand below a call) need one call inside another.

*Front end.* Nothing but the order in which classes are loaded is nondeterministic
once the source is chosen, so what is covered is what the sources cover: chains of operators
of equal and of different priority; calls, members and indices within each
other two deep; each statement inside a method, a loop and a handler, followed by
another statement; one and two bases in every order of loading. `Names` and `Literals`
are the words of the sources. `IntMax = 7` gives integers of four bits, so that folding
`3 * 3` overflows, `-8` is the smallest one, and a literal `99` is out of range. `MaxLoads = 6` is more than
the classes of a program: only a circle reaches it. The native types are two,
`object` and `array`, with two methods each, one of which both have.

*Containers.* Two arrays of two items, one of which may grow by one and so move under its
loops; an array with an item that cannot be compared; a dictionary with entries at 1 and 3, so that a
key before, between and after can appear and vanish. `MaxSteps = 2` lets one body remove items
and push others, so that a position becomes good again. `MaxLoops = 2` with `Inside` all kinds puts
each kind of loop within each other one; a third one would meet what the second meets, as a
loop is touched by those above it through `items` and `entries` alone. `Puts` are the
values a program adds.

`CHECK_DEADLOCK FALSE` in `gc_native` and `containers`: with the bound
on objects a program may have no operation left once references are lost or
the guard stays on, and both stop when the status is not `"ok"`. The
Runner has an explicit `Stopped`.

### 3.2 Fairness

`gc_native` assumes `WF_vars(Collector)`: the collector is a C++ function on the
only thread, so nothing can keep it from its next step. `runner_calls` assumes
`WF_vars(Next)`: the interpreter loop executes the next instruction. `Terminates` is about programs without
backward jumps, as data are abstract and a loop may go on for ever. Neither assumes
anything of the program being run. `CollectTerminates` excepts collections that
follow a reference to a deleted object, where the code's behaviour is undefined.

`containers` assumes `WF_vars(Advance)`: bodies and called methods end (`MaxSteps`), and
the C++ code or the bytecode behind them goes on. Nothing is assumed of what they do. That an
array cannot grow for ever is the bound `MaxLen`: a `foreach` that pushes to its array in each
turn has no end in the program.

`FrontEnd` assumes that the compiler and the loader, two calls that nothing
interrupts, go on to their end. It says so as `[]<><<Next>>_vars \/ []<>Final`:
while a step is possible in every state that is not final (the run checks that
there is no deadlock) this is `WF_vars(Next)`.

## 4. Proofs

TLAPS checks every theorem from nothing. They are in eight modules, one to three per component.
Proved are 29 theorems: the state invariants and refinements of the collector, the interpreter, the containers
and the type loader, the shape of the tree while it is built, and that the code generator meets the
interpreter's conditions.

### 4.1 The collector

`GCProofs` proves for every set of objects, every set of slots and fields, every
threshold and bound, and every program:

| Theorem | Statement |
|---|---|
| `TypeCorrect` | `Spec => []TypeOK` |
| `MarkingTriColour` | `Spec => []TriColour` |
| `MarkingPrecise` | `Spec => []MarkPrecise` |
| `CollectionExact` | `Spec => CollectExact` |
| `NoDanglingRefs` | `Ops \subseteq StackOps` and `Spec` imply `[]NoDangling` |
| `KeepsPromise` | `Ops \subseteq StackOps` and `Spec` imply `HeapPromise`, i.e. GC implements HeapSpec |
| `ThresholdKept` | `Spec => []ThresholdInv` |
| `BuildingKept` | `Spec => []BuildingLive` |
| `MarkingDepth` | `Ops \subseteq StackOps \ {"setitem"}`, `MaxDepth` at least the square of the number of objects, and `Spec` imply `[]MarkDepthBounded` |

Assumptions: the named ones of GC. `Objects` is finite and does not contain
`Nil`; property and element slots are disjoint; the numbers are natural and the
threshold can be raised at least once from zero. `NoDanglingRefs` and `KeepsPromise` also assume that
the program uses `StackOps` only; sections 3 and 5 show that the other operations
break them, so the assumption cannot be dropped. `MarkingDepth` also leaves out `setitem`: an array that
is stored in itself has no bounded depth, and `gc_visit` has no test that would stop there.

The argument:

1. `TypeInv` is `TypeOK` with what keeps it inductive (`ResumeOK`, `FramesOK`):
   a value that waits to be pushed finds room, one that waits to take the top's
   place finds a top, a guarded builder holds a guard; activations of `mark` exist
   only while marking, and their lists name slots that hold references.
2. `MarkInv` is about a collection in progress: `TriColour`, `MarkPrecise`, and that
   every activation belongs to a marked object. `TriColour` alone is not
   inductive: an activation of an unmarked object could excuse a missing mark.
   When the sweep starts there is no activation left, so the marked set is closed
   and contains the roots; being precise as well it *equals* the reachable set
   (`MarksComplete`), which gives `CollectExact`.
3. `HeapInv` is about safe programs: nothing dangles, registered objects are exactly
   the live ones, dead objects have empty slots, and no native function is half-way.
   Its step over `Sweep` uses 2.
4. The refinement maps each VM operation to `Program`, `Sweep` to `Reclaim`, and
   each other step of the collector to a stutter. Operations that allocate need
   the fact that what is reachable after a copy was reachable before or is new
   (`ReachableLaws`).

5. `RoomInv` is `ThresholdInv` for the moments in between: with the guard off, the registered
   objects are within the threshold between operations, and one more than that while a
   collection is under way, which either frees one, or raises the threshold by at least one
   (`grow_single`, 1.1 and the rounding) unless it is saturated. A sweep only lowers the
   threshold to 0.8 of what is then still within it (`shrink_if_possible`); `end_no_gc` grows until
   it fits. The arithmetic is linear with truncation; the factors are the code's.
6. `BuildInv` is about a native function that fills a container under the guard: its
   container and what it put there are on the heap, and no collection is under way.
   It needs no `StackOps`: the guard protects whatever else the program does.
7. `DepthInv` is about the recursion of `mark`. There is an order `R` of the objects in which the
   elements of every container come before it: a container is filled only where it is made,
   from objects that are there already, and whenever an object is made it becomes the last in
   the order. An activation is the first one on its object if no activation under it has the
   same object; `MarkProperty` enters only such activations, because all activations belong to
   marked objects (2). `MarkElement` may enter others, but goes down the order. So two
   activations of one stretch, between two first ones, have different objects, and the pair of
   the object where the stretch began and the activation's own tells all activations apart
   (`DescentBounded`, by an injection).

### 4.2 The interpreter

`RunnerProofs`, `CallProofs` and `FaultProofs` prove for every set of programs, objects and values, and every size of the stack
and of the call stack:

| Theorem | Statement | Of programs |
|---|---|---|
| `RunnerTypes` | `Spec => []TypeOK` | all |
| `HostsInStep` | `Spec => []HostInStep` | `Guarded` |
| `HeightsKept` | `Spec /\ []AddsNumbers => []HeightsAsCompiled` | `Verified` |
| `OneValueLeft` | `Spec /\ []AddsNumbers => []EndsClean` | `Verified` |
| `CallsImplemented` | `Spec /\ []AddsNumbers => CallPromise`: Runner implements CallSpec | `Verified` |
| `ReceiversFound` | `Spec /\ []AddsNumbers => []ReceiverUnderArgs` | `Verified`, `Tracked`, `Dispatches` |
| `ThisReceives` | `Spec /\ []AddsNumbers => []ThisIsReceiver` | `Verified`, `Tracked`, `Dispatches` |
| `FaultFree` | `Spec /\ []AddsNumbers => []NoFault` | `Verified`, `Tracked`, `Roomy` |
| `InnermostHandles` | `Spec /\ []AddsNumbers => InnermostCatches` | `Verified`, `Nested`, `Roomy` |

The assumptions of Runner: values of different kinds differ, the sizes are positive, and programs are
well formed (`ProgramsAssumption`: jumps, calls and methods lead somewhere; a function that prints takes an
argument). Why the theorems need more than that:

* `Guarded`: a C++ exception unwinds `host` and not `callstack` (`runner.cpp:107-121` against
  `697-718`). If the program catches it, loop and frame are out of step for good.
* An exception that a program catches during a call, or with operands on the stack, leaves them there
  (`handle_exception` does nothing to the stack); so does the left operand of `+` on objects
  (`runner.cpp:449`). Variadic methods collect a number of arguments no one knows beforehand.
  These are hazards in `PROJECT.json`; they bound what holds, and the theorems say that nothing
  else disturbs the heights.
* `Tracked` and `Dispatches`: the register is one for all methods and is not saved by a call. A method call among
  the arguments of another moves it (`runner_nested`), an overloaded operator leaves it
  pointing nowhere (`runner.cpp:451`), and a constructor with arguments finds one of them
  where `this` is read (`runner.cpp:535`).
* `Roomy`: the VM counts call frames, not slots (`runner.cpp:111`). 150 calls of methods with
  more than six slots each overrun the 1024 of the stack. `FaultFree` says that the depth limit is enough for
  programs whose methods are small enough, whichever way they recurse. It also assumes
  `MaxCalls > 1`, a limit that lets the bootstrap call `main`.
* `Nested`: `handle_exception` keeps the last handler around `pc` and gives up when the first is not
  (`runner.cpp:697-718`).

The argument:

1. `Types` is `TypeOK` with what keeps it inductive: a frame resumes at an instruction, and the
   outermost loop was not entered by a native function, so no exception can unwind past it.
2. `HostInv` adds what lies between two states of the loop: depth `j` for loop `j`, one loop
   more than frames just before a loop ends, and, while an exception is on its way, that
   it finds no handler if the loops are fewer than the frames.
3. `HeightsInv` says of every frame what `HeightsAsCompiled` says of the topmost: each frame that
   waits has as many operands as the code says at the instruction where it goes on, less the result it
   waits for, whether that is to be pushed, folded over the receiver (`"fold"`) or taken by a native
   function (`"native"`); the bases are in order; the first is 0. `Now` says the same of the
   moments when the topmost is not at an instruction: returned but loop not left,
   exception raised but not handled. `EndsClean` follows from the frame of the bootstrap.
4. For the refinement, the activation of frame `i` is the slice of the flat stack from its base to
   the next one's. A step writes at or above `bp` only (`WriteCalls`, `ShiftCalls`), which by 3
   is above the operands of everyone who waits. `EnterFrame` is CallSpec's `Call` (the callee's
   locals start at its first argument, `CallCalls`), `op_ret` is `Return`
   (`ReturnCalls`), each other step changes the topmost activation or nothing.
5. What follows is about calls, not about single instructions, so `StepShape` first sums up all steps of verified
   programs: the running method goes on at an instruction that follows (`Goes`), it calls a method and
   everything under the new frame stays (`CallsOf`), it returns (`Comes`), or `run_entry` is left or an
   exception caught (`Between`). The invariants below have one lemma for each.
6. `RegisterInv` says of the callee register what `reg.known` says at `pc`, *and* what it says where each
   waiting method goes on (`FrameKnows`). The second is what a method needs that calls others between
   `setcallee` and `vcall`. It is kept because a method that something is expected of calls only
   methods that keep it, so the frames above one that is tidy (quiet) are all tidy (quiet)
   (`Upward`). With `Dispatches` it gives `ReceiverUnderArgs`.
7. `ThisInv` says of every frame that was called through a method table that the slot under its
   first one holds an object with that method. At the call it is the receiver, by 6; later nothing writes
   there, as it lies under the base of the running method (`UnderBase`).
8. `RoomsInv` says of every frame that `need` slots of its method at its depth fit above its base, that there
   are fewer frames than the limit, and that a method using `this` has a slot under its first one. A
   fault would be an operand or a local outside `ptr = bp + height`, which 3 and 8 exclude
   (`FitsHere`); a callee without room (`CalleeRoom`); a register that points nowhere (6); or
   a missing result when `run_entry` is left, which 3 excludes (`EndsWell`).
9. Of the handlers around `pc` the last is inside all others, and the first is one of them if there is
   any (`InnermostLast`). That the exception itself can be pushed is 8 again.

### 4.3 The code generator

The conditions of 4.2 are about bytecode; `CodeGenProofs` proves that `code_gen.h` keeps `Verified`:

| Theorem | Statement |
|---|---|
| `ExpressionsPush` | the code of an expression of any size leaves one value, and no instruction of it finds too few operands |
| `StatementsLeave` | the code of a statement of any size leaves the stack as it was; jumps stay inside and meet with equal heights; a `ret` finds one operand |
| `CompiledVerified` | `Compiled(p) => Verified(p)`: any number of such methods, linked |
| `CompiledCalls` | `Spec /\ []AddsNumbers => CallPromise`, of programs that are `Compiled` |
| `CompiledHeights` | `Spec /\ []AddsNumbers => [](HeightsAsCompiled /\ EndsClean)`, of the same |

The last two assume nothing of the bytecode but that it was emitted for constructs of the fragment: from these to
the promise of CallSpec.

*The fragment.* `Expressions(C)` is the least set of pieces of code that has what is emitted for literals, locals, null and
`this`, and with its members what `emit_memberaccess` .. `emit_callmember` make of them;
`Statements(C, ends)` likewise, `ends` saying whether the statement may return. `C` is what names the program
uses and which classes have constructors. The conditions in `ClosedExpressions` and `ClosedStatements` are those
without which the output is *not* verified; each is something the compiler accepts and does not check:

* an array literal, a call of a script method and `new` have one item or argument at most (`NoComma`): with two, the
  comma node between them is counted and nothing is emitted for it. Native functions take what they pop;
* a native function is called with as many arguments as it pops;
* a class that is given arguments has a constructor (otherwise nothing pops them);
* no `return` in the body of a `foreach`, which would return with the iterator under its operand;
* no try block, as the handler does not restore the stack, and no variadic method (4.2).

*The argument.* The provers cannot do induction over terms or data. So "of any size" is said by least sets: to show
`Pushes` of all expressions it is enough that the pieces with `Pushes` are closed under each
operator (`ValuesClosed`, `StatementsClosed`), one lemma per construct, none of them by induction. Where a
length must be counted (the items of an array, the methods of a program) the induction is over the set of indices
and proved from the cardinality of intervals (`Least`, `Induction`).

1. `Rise(c)[i]` is how much the first `i` instructions of `c` grow the stack. `Runs(C, c, d, m, ends)` says that with
   `d` operands at the beginning each instruction finds its own (`At`), each jump leads to where the height is
   the same, and `m` are added in the end. Pieces one after the other add up (`Both`), a part may be looked at alone
   (`Part`, `Whole`), and more operands underneath do no harm to what does not return (`Higher`).
2. `If`, `while`, `for`, `foreach` and default parameters are five pieces with jumps between their borders
   (`Follow`, `Branching`): the distance each `emit_*` computes is where a piece begins.
3. `Link` moves each method to its place and makes targets absolute: `Placed` and `Owned` say that every
   instruction belongs to one method, `HeightsLinked` that `HeightsOf`, which goes over the whole program, gives
   `locals + Rise` in each method; `MethodHeights` puts 1 to 3 into the words of `Heights` and `Raises`.
4. `NoHandlers`: without marks the table of handlers is empty, computed either way.

### 4.4 Containers

`ContainersProofs` proves for any containers, values, programs and bounds:

| Theorem | Statement |
|---|---|
| `ContainersTypes` | `Spec => []TypeOK` |
| `OnlyDisturbedLoopsFail` | `Spec => []OnlyDisturbedFails` |
| `LoopsMissNothing` | `Spec => []NoneMissed` |

`ContainersInv` is about every loop under way, not only the topmost (`LoopInv`, by kind): a loop over items
whose array has lost nothing stands within the array, and what it still owes comes after its position; so do
the entries a loop over a dictionary owes, after its key; `equal` has a right array that is at least as long as
the left one; the two positions inside `std::remove` are in order and within the array. `hurt` excuses a
loop from the parts about lengths, and is set by the listed changes alone. A
statement of the topmost loop's body changes one container, so it is one case for the loops over that
container and none for the others.

### 4.5 The type loader

`TypeLoaderProofs` proves two theorems about the loader alone (`LoaderSpec`), for every
program: any classes, parents and methods, with parents that do not exist and
circles, any native types, any order of loading and any bound of the recursion.

| Theorem | Statement |
|---|---|
| `TablesResolve` | `LoaderSpec => []VtablesResolve` |
| `AncestorsOfBases` | `LoaderSpec => []AncestorsResolve` |

The first says that in every state, not just at the end, a class that is in the table has for each
method its own one or that of its last base that has it, *as this base has it now*, and no
other. The difficulty is that tables are copies: `load_programtype` copies the table of a
base while classes, the base among them, are loaded again and written over.
The argument, with the invariant `LoaderInv`:

1. Every program class in `types` is resolved with respect to `types` (`Resolved`), and every
   activation in `loads` has merged the bases before `next` and nothing else (`Halfway`):
   what it holds is its old entry overlaid by these bases. A base whose call has
   returned is in the table if the program defines it (`Answered`).
2. A step may only add entries to `types` (`Grows`). The one step that could
   change an entry is `DefineMethods` of a class that was loaded before; that it writes the
   same table again (`SameAgain`) follows from 1: the entry is resolved, so what the
   activation merged over it is in it already.
3. Growing keeps 1, as everything it mentions of a base is in the table when it is
   mentioned, or unknown and without methods.

The second says that the ancestors `is` looks at are the bases and what these have, at any
time. The list itself is not stable: `load_programtype` appends to it again each time
it loads a class, so its *set* of items is what the invariant `AncestorsInv` is about. Added to
`LoaderInv` it says that a class in the table has what its bases give it (`AllGiven`), that an
activation has what the bases before `next` give it, and beyond that only what its class had
already (`HalfGiven`), and that `object` has no ancestor but itself. A reloaded class gets
the set it had, so what other classes were given stays true (`Alike`).

No assumption excludes circles: an activation of a class inside another of the same class
ends the recursion by the bound and never writes. Assumption: `NativeTypes`, each
native type has a table and `object` is one of them.

### 4.6 The tree builder

`TreeProofs` proves one theorem about the whole front end (`FrontEnd`'s `Spec`), for any sources:

| Theorem | Statement |
|---|---|
| `TreeGrowsRight` | `Spec /\ []MethodsNamed => []RightEdge` |

Whatever s-tokens the parser made, also of texts that are no programs, `current` is on the path from the root over last
children, and each node is the child of just its parent. So the builder, which guesses from numbers of
children where the next node goes, never goes back into what it has left, and loses or shares no node.

The hypothesis `MethodsNamed` is a conjunct of `TypeOK`, which `front_end` checks: a block is never the first child of a
method. With a block a node is complete, and `method_node::on_complete` reads the second and third child without
looking whether there are any (`oop_fundamental_node.cpp:62`); what it writes to then is undefined. That
the parser puts the name and the parameters first is a matter of how it reads text, not of the builder.

1. The invariant is `Growing`: before the builder starts the tree is the root alone; while it runs,
   `Edge(nodes, current)`, that is `Tree` (children and parents agree, numbers stay in range, the root is
   the root) and `OnEdge` (there is a path of last children to `current`). A path is stated as a sequence, since
   the reference in `RightEdge` is a recursion over the tree; `EdgeIsRight` connects the two.
2. `on_complete` walks up and pushes names in four nested loops, and all of it changes only `locals` and
   `local_size` (`Kept`, `Completes`); a tree stays a tree and its edge the edge (`KeptTree`, `KeptEdge`).
3. `append` puts one node, or a node in a block of its own, behind a node on the edge (`Grown`). The node, the
   block and what follows are on the new edge (`Grows`).
4. From a node on the edge the climb of `nearest_incomplete_node` ends on the edge, as the parent of each such
   node is on it (`Nearest`).

That a recursive definition (the climb, the pushing of names, the edge itself) has the value it says is not for
free in TLAPS: `Searches`, `Edges` and the first steps of `PushAll` show that there is such a function, and
`Induction`, over sets of positions, what holds of it.

### 4.7 What is only model-checked

* Of Runner: `ArgumentsArrive` (which values reach a method is a matter of the whole program, not of conditions
  on its instructions) and `VaArgsOwn` (verified programs collect no arguments).
* The properties of the lexer, the parser, the transformers and the scopes: their
  reference is a recursion over terms, which the provers cannot do induction on. Of the tree builder only
  `RightEdge` is proved.
* Liveness (`CollectTerminates`, `Terminates`, `LoopsEnd`, `Ends`), which is beyond the prover.

## 5. Where the code disagrees with its documentation and tests

Each is a run that must end in a violation, and a finding in `PROJECT.json`.

* `gc_newborn`: `_initobj_systype` registers a result before pushing it. If
  that registration collects, the new object is deleted and its address pushed.
* `runner_nested`: `a.f(a.f(x))`: the callee register is loaded before the
  arguments and the inner call overwrites it.
* `runner_selfcall`: `f(x)` in a method pushes `this` above the arguments, while the
  callee looks for it underneath.
* `runner_ctor`: the result of a constructor without `return` replaces the new object.
* `runner_commas`: comma nodes count as parameters and as arguments. `foo(1, 2)` passes three
  arguments of which two were pushed, so the frame begins a slot too low and the parameters are shifted;
  `tests/syntax/call/callpadding_call.rk` expects 1 and 2. Likewise `foo0(1,2,3,4)` of
  `tests/syntax/call/va_args.rk` says it passes seven, and the array it makes is not `[1, 2, 3, 4]`.
* `front_params`: in `foo(a + b, b * a)` the operator of the second argument is put among
  the operands of the first; `tests/syntax/call/param_expression.rk` expects 6 and 5.

The models show more of the same kind that the hazards describe without a run: what
only a static field refers to is collected; an iterator does not mark the container it
goes over; strings in an unregistered array are collected (`type.cpp:23-47`); an exception under the no-gc guard leaves the collector off; an array that contains itself makes
marking recurse without end; `op_param_to_arr` takes the caller's values too; a `return`
in a `foreach` leaves the iterator on the stack; comma nodes count as array items too,
so that `[1, 2]` takes a third value; objects register a method `equals` (`object.cpp:22`) while
`op_eq` calls `equal`. `tests/invalid/assign_to_typename.rk` and
`invalid_annotation_position.rk` are accepted by the compiler, although
`tests/readme.md` says that what lies there must fail to compile.

### 5.1 Misread programs

The sources of `front_end` leave out the following, whose tokens, tree or code are not
those of the text. The model does with them what the code does (add such a term
to `MCFrontEnd` and the named property fails). Most of them no doc mentions; some a test does: comments with `//`
(`tests/syntax/comment.rk`), blocks as statements
(`tests/syntax/scope/scope.rk`, `tests/invalid/unscoped_access.rk`), two loop variables
(`tests/syntax/foreach_dic.rk`).

Tokens (`Lexes`):
* `//` skips only itself (`lexer.cpp:12`); the lines of `tests/syntax/comment.rk` that begin
  with it are compiled. A `#` right after a name or a number drops that, too (104).
* `return -1` is a subtraction: the last character noted is the first letter of `return`
  (159). `"a" -1` has a sign.
* A string `"is"` becomes an operator (204); `trueish` is `true`, `ish` (127).

Trees (`Parses`):
* A block as a statement completes the block around it, and the following statements
  leave the method (`syntax_node.cpp:12-19`). A statement after a compound statement that is
  a body without braces is swallowed, as the body has room for two
  (`syntax_node.cpp:44-51`).
* An argument or array item other than the first that is an operation, a call or a member;
  an index that is an operation or a member, `a[b + 1]`; `a.x[1]`.
* `a += b + c`, `a.x += b`, `a.x++`; parentheses for grouping are ignored, and `!` is unknown.
* `foreach` with two variables; `return;` takes the next statement; an
  annotation before a field.

Lowering (`Lowers`, `SlotsFit`):
* Interpolated strings with three or more parts lose text (`string_interpolation.h:45-54`).
* `while (c) f();` leaves the value of each call, as do `a;` and `a.b;` (`endlpop.h:24`).
* A store to the name of a type uses a slot nobody has set (`code_gen.h:967`).

A division of literals by zero, or of the smallest integer by -1, traps the compiler (`optimiser.h:42`), and so may
the product of that integer and -1 (33); these are among the sources, with the outcome `trapped`.

## 6. What is not modelled

* Of the code generator: `super` and its errors, native functions called by name in `generate`'s errors, static fields, the
  string pool, a `foreach` with several variables (the comma between them is read as one,
  `code_gen.h:1044-1059`), dictionary literals with several entries, and
  consecutive try blocks, whose handlers overwrite each other
  (`code_gen.h:247`). `CodeGen` and `Scopes` are not joined: the programs of
  Runner have their slots chosen by hand.
* Of the interpreter: the collector while a constructor runs, when its object is on the stack and not yet registered
  (`runner.cpp:529-539`), and native methods reached by `op_vcall` that call back.
* Of the libraries: text, numbers, dates, files. Of containers: exceptions out of the methods that their
  loops call, and what `exe_context::vcall` leaves on the VM stack.
* Positions, texts of messages, suggestions (`did_you_mean.h`), the debug file.
* `program_io.h` (called from nowhere), interning of strings and hashing of names, the debugger,
  the unfinished wasm backend, the embedding interface: input, output or tables without
  behaviour of their own. `vm/spinwait.h` is a lock nothing contends for.
* `thirdparty/`: `json.hpp` and `argagg.hpp`, two thirds of all lines, are other projects' code;
  the VM uses one to parse text and one to read the command line.

## 7. Plan

1. **Proofs**: `Nested` of what `CodeGen` emits with try blocks, and the certificates of
   `Tracked` and `Roomy` from the source; the parts of the front end whose invariants are about one step (the
   traversal's `UpwardRight`).
2. **Exceptions**: consecutive try blocks, and exceptions thrown below the method with the
   handler, the native loops of containers included.
3. **CodeGen on trees**: the code of a tree of `FrontEnd`, with the slots of `Scopes`, executed
   by Runner: from text to result in one model; `foreach` of Runner with the iterators of
   Containers.
