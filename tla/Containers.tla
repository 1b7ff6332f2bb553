------------------------------- MODULE Containers -------------------------------
(***************************************************************************)
(* Arrays, dictionaries and the loops over them: foreach, which works      *)
(* through iterator objects (libs/iterator.h), and the loops of native     *)
(* functions - to_string, join, equal, remove - that call a method of an   *)
(* item.  The body of a foreach and the called methods are script code,    *)
(* which may change the very container that is being gone over.            *)
(*                                                                         *)
(* Positions begin at 1 (ptr + 1 in the code).  Keys are numbers in the    *)
(* order of std::map.  A loop that uses an iterator or a position that is  *)
(* no longer good has undefined behaviour; the program stops there.        *)
(***************************************************************************)
EXTENDS Integers, Sequences, FiniteSets

CONSTANTS
    Arrays, Dictionaries,  \* addresses of containers
    Plain,                 \* values the VM compares and converts itself
    Scripted,              \* objects whose class has script methods equal and to_string
    Default,               \* value() of a new map entry, and null: not for == nor to_string
    Keys,                  \* keys of dictionaries
    MaxLen,                \* bound: items of each array
    MaxLoops,              \* bound: loops inside each other
    Inside,                \* bound: the kinds of loops that begin in another one
    Puts,                  \* bound: the values a program puts into each container
    MaxSteps,              \* bound: statements of a body or a called method
    Starts                 \* the containers a program may have built, with what is in them

Value == Plain \cup Scripted
None == 0                  \* no second operand of a loop

ASSUME KeysAssumption == Keys \subseteq Nat \ {0} /\ IsFiniteSet(Keys)
ASSUME ValuesAssumption == Plain \cap Scripted = {} /\ Default \in Plain
ASSUME ContainersAssumption == Arrays \cap Dictionaries = {}
ASSUME BoundsAssumption == MaxLen \in [Arrays -> Nat] /\ MaxLoops \in Nat /\ MaxSteps \in Nat
ASSUME PutsAssumption == Puts \in [Arrays \cup Dictionaries -> SUBSET Value]

VARIABLES
    items,    \* rkarray::ary of every array
    entries,  \* rkdictionary::dic of every dictionary
    loops,    \* the loops that are under way, the innermost last
    status    \* "ok" until undefined behaviour or a C++ exception, then its kind

vars == <<items, entries, loops, status>>

ASSUME StartsAssumption ==
    \A s \in Starts :
      /\ DOMAIN s.items \subseteq Arrays /\ DOMAIN s.entries \subseteq Dictionaries
      /\ \A a \in DOMAIN s.items : s.items[a] \in Seq(Value) /\ Len(s.items[a]) <= MaxLen[a]
      /\ \A d \in DOMAIN s.entries :
           DOMAIN s.entries[d] \subseteq Keys /\ s.entries[d] \in [DOMAIN s.entries[d] -> Value]

(***************************************************************************)
(* A loop.  of is the container and with the other operand, at the         *)
(* position or key, kept and end belong to std::remove.  valid says that   *)
(* its C++ iterator is still good, answers what the comparison under way   *)
(* may yield, left how many statements the script code may still execute.  *)
(* due and hurt are history: what the loop owes, and whether its           *)
(* containers have lost items, or the left operand of equal has got one.   *)
(***************************************************************************)
Loop(kind, of, with, at, end, due) ==
    [kind |-> kind, of |-> of, with |-> with, at |-> at, kept |-> 0, end |-> end,
     valid |-> TRUE, answers |-> {TRUE}, left |-> 0, due |-> due, hurt |-> FALSE]

Inner == loops[Len(loops)]
Outer == SubSeq(loops, 1, Len(loops) - 1)
OverEntries(kind) == kind \in {"entries", "entry_texts"}

\* value ==: different objects ask the script method equal of the left one
Answers(v, w) == IF v \in Scripted /\ w \in Scripted /\ v # w THEN BOOLEAN ELSE {v = w}

\* what an item of a loop is compared with
Compared(l, arrays) ==
    CASE l.kind = "equal" -> Answers(arrays[l.of][l.at], arrays[l.with][l.at])
      [] l.kind = "remove" -> Answers(arrays[l.of][l.at], l.with)
      [] OTHER -> {TRUE}

\* == throws for the types it does not know; to_string of a dictionary compares each
\* entry with the first one
Throws(l, arrays) ==
    \/ l.kind = "equal" /\ arrays[l.of][l.at] = Default /\ arrays[l.with][l.at] = Default
    \/ l.kind = "remove" /\ arrays[l.of][l.at] = Default /\ l.with = Default
    \/ l.kind = "entry_texts" /\ entries[l.of][l.at] = Default
         /\ \A k \in DOMAIN entries[l.of] : l.at <= k

\* to_string is called on a null pointer, and the result taken for a string
NoText(l, arrays) ==
    \/ l.kind \in {"text", "join"} /\ arrays[l.of][l.at] = Default
    \/ l.kind = "entry_texts" /\ entries[l.of][l.at] = Default

\* whether script code runs for the item: always in a foreach
Calls(l, arrays) ==
    \/ l.kind \in {"foreach", "entries"}
    \/ l.kind \in {"text", "join"} /\ arrays[l.of][l.at] \in Scripted
    \/ l.kind = "entry_texts" /\ entries[l.of][l.at] \in Scripted
    \/ Compared(l, arrays) = BOOLEAN

\* the loop with the item at its position: bound, converted or compared
Bound(l, arrays) ==
    [l EXCEPT !.due = @ \ {l.at}, !.answers = Compared(l, arrays),
              !.left = IF Calls(l, arrays) THEN MaxSteps ELSE 0]

\* the loop, above these, comes to an item
Visit(under, l, arrays) ==
    IF Throws(l, arrays) THEN status' = "thrown" /\ UNCHANGED loops
    ELSE IF NoText(l, arrays) THEN status' = "no_text" /\ UNCHANGED loops
    ELSE loops' = Append(under, Bound(l, arrays)) /\ UNCHANGED status

(***************************************************************************)
(* Statements of script code: of the program, a body or a called method.   *)
(***************************************************************************)
Acting == status = "ok" /\ (loops # <<>> => Inner.left > 0)
Spent(ls) == IF ls = <<>> THEN ls ELSE [ls EXCEPT ![Len(ls)].left = @ - 1]
Goes(l, c) == l.of = c \/ (l.kind = "equal" /\ l.with = c)

\* Items of a have gone: positions mean nothing any more.
Lost(ls, a) == [n \in DOMAIN ls |-> IF Goes(ls[n], a)
                                    THEN [ls[n] EXCEPT !.due = {}, !.hurt = TRUE] ELSE ls[n]]

\* std::vector may move its items when it grows: iterators of to_string and remove
\* are bad then; positions are not
Grown(a, moved) ==
    [n \in DOMAIN loops |->
       IF loops[n].of = a /\ loops[n].kind \in {"foreach", "text", "join"}
       THEN [loops[n] EXCEPT !.due = IF loops[n].hurt THEN {} ELSE @ \cup {Len(items[a]) + 1},
                             !.valid = @ /\ ~(moved /\ loops[n].kind = "text")]
       ELSE IF loops[n].of = a /\ loops[n].kind = "remove"
       THEN [loops[n] EXCEPT !.valid = @ /\ ~moved]
       ELSE IF loops[n].of = a /\ loops[n].kind = "equal"
       THEN [loops[n] EXCEPT !.hurt = TRUE]
       ELSE loops[n]]

Push(a, v) ==
    /\ Acting /\ Len(items[a]) < MaxLen[a]
    /\ items' = [items EXCEPT ![a] = Append(@, v)]
    /\ \E moved \in BOOLEAN : loops' = Spent(Grown(a, moved))
    /\ UNCHANGED <<entries, status>>

\* __setitem__ and __getitem__: ary[idx] is not checked
SetItem(a, i, v) ==
    /\ Acting /\ i \in 1..Len(items[a])
    /\ items' = [items EXCEPT ![a][i] = v]
    /\ loops' = Spent(loops)
    /\ UNCHANGED <<entries, status>>
BadIndex(a) ==
    /\ Acting /\ a \in DOMAIN items
    /\ status' = "bad_index"
    /\ UNCHANGED <<items, entries, loops>>

Clear(a) ==
    /\ Acting /\ items[a] # <<>>
    /\ items' = [items EXCEPT ![a] = <<>>]
    /\ loops' = Spent(Lost(loops, a))
    /\ UNCHANGED <<entries, status>>

\* mutant: reverse begins at the size
ReversedFromSize(q) == [i \in 1..Len(q) |-> IF i = 1 THEN None ELSE q[Len(q) + 2 - i]]
Reversed(q) == [i \in 1..Len(q) |-> q[Len(q) + 1 - i]]

\* op_add, reverse: an array that did not exist
NewArray(b, q) ==
    /\ Acting /\ b \in Arrays \ DOMAIN items /\ Len(q) <= MaxLen[b]
    /\ items' = [a \in DOMAIN items \cup {b} |-> IF a = b THEN q ELSE items[a]]
    /\ loops' = Spent(loops)
    /\ UNCHANGED <<entries, status>>

Put(k, v, dic) == [j \in DOMAIN dic \cup {k} |-> IF j = k THEN v ELSE dic[j]]
SetEntry(d, k, v) ==
    /\ Acting
    /\ entries' = [entries EXCEPT ![d] = Put(k, v, @)]
    /\ loops' = Spent(loops)
    /\ UNCHANGED <<items, status>>

\* __getitem__ is dic[h]: what it does not find it makes
GetEntry(d, k) ==
    /\ Acting /\ k \notin DOMAIN entries[d]
    /\ entries' = [entries EXCEPT ![d] = Put(k, Default, @)]
    /\ loops' = Spent(loops)
    /\ UNCHANGED <<items, status>>

\* remove of one key, clear: iterators that stand at an erased entry are bad
Erased(d, ks) ==
    [n \in DOMAIN loops |->
       IF loops[n].of = d
       THEN [loops[n] EXCEPT !.due = @ \ ks, !.valid = @ /\ loops[n].at \notin ks]
       ELSE loops[n]]
EraseEntries(d, ks) ==
    /\ Acting /\ ks # {} /\ ks \subseteq DOMAIN entries[d]
    /\ Cardinality(ks) = 1 \/ ks = DOMAIN entries[d]
    /\ entries' = [entries EXCEPT ![d] = [k \in DOMAIN @ \ ks |-> @[k]]]
    /\ loops' = Spent(Erased(d, ks))
    /\ UNCHANGED <<items, status>>

(***************************************************************************)
(* Loops begin.  A native one over an empty container does nothing; a      *)
(* foreach reads its first item without asking whether there is one.       *)
(***************************************************************************)
Begin(l) == Visit(Spent(loops), l, items)
Room(kind) == Len(loops) < MaxLoops /\ (loops = <<>> \/ kind \in Inside)
Lowest(ks) == CHOOSE k \in ks : \A j \in ks : k <= j

ForEach(a) ==
    /\ Acting /\ Room("foreach")
    /\ IF items[a] = <<>> THEN status' = "empty" /\ UNCHANGED loops
       ELSE Begin(Loop("foreach", a, None, 1, 0, 1..Len(items[a])))
    /\ UNCHANGED <<items, entries>>

ForEachEntry(d) ==
    /\ Acting /\ Room("entries")
    /\ IF DOMAIN entries[d] = {} THEN status' = "empty" /\ UNCHANGED loops
       ELSE Begin(Loop("entries", d, None, Lowest(DOMAIN entries[d]), 0, DOMAIN entries[d]))
    /\ UNCHANGED <<items, entries>>

\* to_string and join of an array
Text(kind, a) ==
    /\ Acting /\ Room(kind) /\ items[a] # <<>>
    /\ Begin(Loop(kind, a, None, 1, 0, 1..Len(items[a])))
    /\ UNCHANGED <<items, entries>>

TextOfEntries(d) ==
    /\ Acting /\ Room("entry_texts") /\ DOMAIN entries[d] # {}
    /\ Begin(Loop("entry_texts", d, None, Lowest(DOMAIN entries[d]), 0, DOMAIN entries[d]))
    /\ UNCHANGED <<items, entries>>

\* equal compares the lengths once
Equal(a, b) ==
    /\ Acting /\ Room("equal") /\ items[a] # <<>> /\ Len(items[a]) = Len(items[b])
    /\ Begin(Loop("equal", a, b, 1, 0, {}))
    /\ UNCHANGED <<items, entries>>

\* remove, and remove_at, which is bound to the same function
Remove(a, v) ==
    /\ Acting /\ Room("remove") /\ items[a] # <<>>
    /\ Begin(Loop("remove", a, v, 1, Len(items[a]), {}))
    /\ UNCHANGED <<items, entries>>

(***************************************************************************)
(* Loops go on: the C++ code after a called method, or the code after the  *)
(* body of a foreach, which may end after any of its statements.           *)
(***************************************************************************)
Going(kinds) == status = "ok" /\ loops # <<>> /\ Inner.kind \in kinds
MoveTo(l, arrays) == Visit(Outer, l, arrays)
Finish == loops' = Outer /\ UNCHANGED status
Fail == status' = "invalid" /\ UNCHANGED <<items, entries, loops>>

\* mutant: ary.size() != ptr++
NextItemLate ==
    /\ Going({"foreach", "text"})
    /\ IF ~Inner.valid \/ Inner.at > Len(items[Inner.of]) THEN Fail
       ELSE /\ IF Inner.at = Len(items[Inner.of]) + 1 THEN Finish
               ELSE IF Inner.at = Len(items[Inner.of])
               THEN loops' = Append(Outer, [Inner EXCEPT !.at = @ + 1]) /\ UNCHANGED status
               ELSE MoveTo([Inner EXCEPT !.at = @ + 1], items)
            /\ UNCHANGED <<items, entries>>

\* ++ptr; ary.size() != ptr; and current() does not look: past the end it reads on
NextItem ==
    /\ Going({"foreach", "text"})
    /\ IF ~Inner.valid \/ Inner.at > Len(items[Inner.of]) THEN Fail
       ELSE /\ IF Inner.at = Len(items[Inner.of]) THEN Finish
               ELSE MoveTo([Inner EXCEPT !.at = @ + 1], items)
            /\ UNCHANGED <<items, entries>>

\* mutant: the last item is joined by no one
NextJoinedShort ==
    /\ Going({"join"})
    /\ IF Inner.at + 1 >= Len(items[Inner.of]) THEN Finish
       ELSE MoveTo([Inner EXCEPT !.at = @ + 1], items)
    /\ UNCHANGED <<items, entries>>

\* i < ary.size()
NextJoined ==
    /\ Going({"join"})
    /\ IF Inner.at >= Len(items[Inner.of]) THEN Finish
       ELSE MoveTo([Inner EXCEPT !.at = @ + 1], items)
    /\ UNCHANGED <<items, entries>>

\* mutant: looks up the key it stands at instead of going on
NextEntryStuck ==
    LET later == {k \in DOMAIN entries[Inner.of] : k >= Inner.at}
    IN  /\ Going({"entries", "entry_texts"})
        /\ IF ~Inner.valid THEN Fail
           ELSE /\ IF later = {} THEN Finish
                   ELSE MoveTo([Inner EXCEPT !.at = Lowest(later)], items)
                /\ UNCHANGED <<items, entries>>

\* ++it; it != dic.end(): the map in its present state
NextEntry ==
    LET later == {k \in DOMAIN entries[Inner.of] : k > Inner.at}
    IN  /\ Going({"entries", "entry_texts"})
        /\ IF ~Inner.valid THEN Fail
           ELSE /\ IF later = {} THEN Finish
                   ELSE MoveTo([Inner EXCEPT !.at = Lowest(later)], items)
                /\ UNCHANGED <<items, entries>>

\* until the first difference; only the left array's length is looked at
NextCompared ==
    /\ Going({"equal"})
    /\ \E same \in Inner.answers :
         IF ~same \/ Inner.at >= Len(items[Inner.of])
         THEN Finish /\ UNCHANGED <<items, entries>>
         ELSE IF Inner.at >= Len(items[Inner.with]) THEN Fail
         ELSE /\ MoveTo([Inner EXCEPT !.at = @ + 1], items)
              /\ UNCHANGED <<items, entries>>

\* std::remove keeps an item by writing it behind those kept before; then erase
\* drops the rest, up to the end it was given or the end there is now
NextRemoved ==
    LET a == Inner.of
        q == items[a]
    IN  /\ Going({"remove"})
        /\ \E same \in Inner.answers, last \in {Inner.end, Len(q)} :
             LET kept == IF same THEN Inner.kept ELSE Inner.kept + 1
                 moved == IF same THEN q ELSE [q EXCEPT ![kept] = q[Inner.at]]
                 rest == SubSeq(moved, 1, kept) \o SubSeq(moved, last + 1, Len(q))
             IN  IF ~Inner.valid \/ Inner.end > Len(q) THEN Fail
                 ELSE /\ UNCHANGED entries
                      /\ IF Inner.at = Inner.end
                         THEN /\ items' = [items EXCEPT ![a] = rest]
                              /\ loops' = IF Len(rest) < Len(q) THEN Lost(Outer, a) ELSE Outer
                              /\ UNCHANGED status
                         ELSE /\ items' = [items EXCEPT ![a] = moved]
                              /\ MoveTo([Inner EXCEPT !.at = @ + 1, !.kept = kept], items')

Statement ==
    \/ \E a \in DOMAIN items :
         \/ Clear(a) \/ BadIndex(a) \/ ForEach(a)
         \/ \E v \in Puts[a] : \/ Push(a, v) \/ Remove(a, v)
                               \/ \E i \in 1..MaxLen[a] : SetItem(a, i, v)
         \/ \E kind \in {"text", "join"} : Text(kind, a)
         \/ \E b \in DOMAIN items : Equal(a, b)
    \/ \E b \in Arrays :
       \E a \in DOMAIN items : \/ NewArray(b, Reversed(items[a]))
                               \/ \E c \in DOMAIN items : NewArray(b, items[a] \o items[c])
    \/ \E d \in DOMAIN entries :
         \/ ForEachEntry(d) \/ TextOfEntries(d)
         \/ \E k \in Keys : GetEntry(d, k) \/ \E v \in Puts[d] : SetEntry(d, k, v)
         \/ \E ks \in SUBSET DOMAIN entries[d] : EraseEntries(d, ks)

Advance == NextItem \/ NextJoined \/ NextEntry \/ NextCompared \/ NextRemoved

Init ==
    /\ \E s \in Starts : items = s.items /\ entries = s.entries
    /\ loops = <<>> /\ status = "ok"
Next == Statement \/ Advance
Spec == Init /\ [][Next]_vars

\* A body and a called method are finite; the loop then goes on.
FairSpec == Spec /\ WF_vars(Advance)

--------------------------------------------------------------------------------
(***************************************************************************)
(* Properties                                                              *)
(***************************************************************************)
LoopType ==
    [kind: {"foreach", "text", "join", "equal", "remove", "entries", "entry_texts"},
     of: Arrays \cup Dictionaries, with: Arrays \cup Value \cup {None}, at: Nat \ {0}, kept: Nat,
     end: Nat, valid: BOOLEAN, answers: (SUBSET BOOLEAN) \ {{}}, left: Nat, due: SUBSET Nat,
     hurt: BOOLEAN]

\* Every variable has its type, and loops go over containers that exist.
TypeOK ==
    /\ DOMAIN items \subseteq Arrays /\ DOMAIN entries \subseteq Dictionaries
    /\ \A a \in DOMAIN items : items[a] \in Seq(Value) /\ Len(items[a]) <= MaxLen[a]
    /\ \A d \in DOMAIN entries : DOMAIN entries[d] \subseteq Keys
                                 /\ entries[d] \in [DOMAIN entries[d] -> Value]
    /\ loops \in Seq(LoopType) /\ Len(loops) <= MaxLoops
    /\ \A n \in DOMAIN loops :
         loops[n].of \in IF OverEntries(loops[n].kind) THEN DOMAIN entries ELSE DOMAIN items
    /\ status \in {"ok", "bad_index", "empty", "thrown", "no_text", "invalid"}

\* A loop goes wrong only if something was done to its own container below it: an
\* array lost items, the left one of two that are compared got more, the entry at its
\* turn was erased, or the array under to_string or remove had to move. Whatever else
\* bodies and called methods do - push to the array of a foreach, look up, add and erase
\* other entries of a dictionary - is safe (iterator.h:52-58, 84-91; array.cpp:58-64,
\* 90-102, 112-117, 133-144).
OnlyDisturbedFails == status = "invalid" => ~Inner.valid \/ Inner.hurt

\* A loop that comes to its end has had every item: each entry that was there from
\* the beginning to the end, and every item, those pushed meanwhile included, of an array
\* that has lost none.
NoneMissed == [][Len(loops') < Len(loops) => Inner.due = {}]_vars

\* Loops end, however they are nested and whatever their bodies do, as long as
\* containers cannot grow for ever.
LoopsEnd == []<>(loops = <<>> \/ status # "ok")
================================================================================
