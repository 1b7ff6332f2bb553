------------------------ MODULE TypeLoaderProofs ------------------------
(* What holds while any program's types are loaded: the tables of methods  *)
(* and the ancestors of TypeLoader, proved for every program and all       *)
(* native types.                                                           *)
EXTENDS TypeLoader, SequenceTheorems, TLAPS

Tables == UNION {[M -> STRING \X STRING] : M \in SUBSET STRING}
Data == [vtable : Tables, parents : Seq(STRING)]
Activations == [type : STRING, data : Data, next : Nat, called : BOOLEAN]

Typed ==
  /\ IsProgram(program)
  /\ DOMAIN types \subseteq STRING /\ types \in [DOMAIN types -> Data]
  /\ DOMAIN SysMethods \subseteq DOMAIN types
  /\ toload \subseteq DOMAIN program
  /\ loads \in Seq(Activations)

-----------------------------------------------------------------------------
(* Tables of methods. *)

\* A function from methods to definitions is a table, like those of runtime_typedata.
LEMMA TableMade ==
  ASSUME NEW M \in SUBSET STRING, NEW f \in [M -> STRING \X STRING]
  PROVE  f \in Tables
BY DEF Tables

\* A table is a function on its own methods.
LEMMA TableIs ==
  ASSUME NEW f \in Tables
  PROVE  DOMAIN f \subseteq STRING /\ f \in [DOMAIN f -> STRING \X STRING]
BY DEF Tables

\* Over takes the union of two tables, the first one first.
LEMMA OverTables ==
  ASSUME NEW upper \in Tables, NEW lower \in Tables
  PROVE  /\ Over(upper, lower) \in Tables
         /\ DOMAIN Over(upper, lower) = DOMAIN upper \union DOMAIN lower
         /\ \A m \in DOMAIN upper : Over(upper, lower)[m] = upper[m]
         /\ \A m \in DOMAIN lower \ DOMAIN upper : Over(upper, lower)[m] = lower[m]
<1>1. DOMAIN upper \subseteq STRING /\ upper \in [DOMAIN upper -> STRING \X STRING]
  BY TableIs
<1>2. DOMAIN lower \subseteq STRING /\ lower \in [DOMAIN lower -> STRING \X STRING]
  BY TableIs
<1>3. Over(upper, lower) \in [DOMAIN upper \union DOMAIN lower -> STRING \X STRING]
  BY <1>1, <1>2 DEF Over
<1>4. Over(upper, lower) \in Tables
  BY <1>1, <1>2, <1>3, TableMade
<1> QED
  BY <1>3, <1>4 DEF Over

\* The methods a class defines make a table that names the class for each.
LEMMA OwnTable ==
  ASSUME NEW type \in STRING, NEW methods \in SUBSET STRING
  PROVE  /\ Own(type, methods) \in Tables
         /\ DOMAIN Own(type, methods) = methods
         /\ \A m \in methods : Own(type, methods)[m] = <<type, m>>
<1>1. Own(type, methods) \in [methods -> STRING \X STRING]
  BY DEF Own
<1> QED
  BY <1>1, TableMade DEF Own

\* A table with the methods of a class over what it has inherited.
Defined(c, own, half, table) ==
  /\ table \in Tables
  /\ \A m : m \in DOMAIN table <=> m \in own \/ m \in DOMAIN half
  /\ \A m : m \in own => table[m] = <<c, m>>
  /\ \A m : m \in DOMAIN half /\ m \notin own => table[m] = half[m]

\* Putting the methods of a class over what it inherited defines its table.
LEMMA OwnOver ==
  ASSUME NEW c, c \in STRING, NEW own, own \in SUBSET STRING, NEW half, half \in Tables
  PROVE  Defined(c, own, half, Over(Own(c, own), half))
<1> DEFINE first == Own(c, own)
<1>1. first \in Tables /\ DOMAIN first = own /\ \A m \in own : first[m] = <<c, m>>
  BY OwnTable
<1> HIDE DEF first
<1>2. /\ Over(first, half) \in Tables
      /\ DOMAIN Over(first, half) = DOMAIN first \union DOMAIN half
      /\ \A m \in DOMAIN first : Over(first, half)[m] = first[m]
      /\ \A m \in DOMAIN half \ DOMAIN first : Over(first, half)[m] = half[m]
  BY <1>1, OverTables
<1>3. /\ Over(first, half) \in Tables
      /\ \A m : m \in DOMAIN Over(first, half) <=> m \in own \/ m \in DOMAIN half
      /\ \A m : m \in own => Over(first, half)[m] = <<c, m>>
      /\ \A m : m \in DOMAIN half /\ m \notin own => Over(first, half)[m] = half[m]
  BY <1>1, <1>2
<1> QED
  BY <1>3 DEF first, Defined

\* The table of a type nothing is known of yet is a table, without methods.
LEMMA EmptyTable == Empty \in Tables /\ DOMAIN Empty = {}
<1>1. Empty \in [{} -> STRING \X STRING]
  BY DEF Empty
<1> QED
  BY <1>1, TableMade DEF Empty

\* Tables with the same entries are the same.
LEMMA SameTable ==
  ASSUME NEW f \in Tables, NEW g \in Tables, DOMAIN f = DOMAIN g,
         \A m \in DOMAIN f : f[m] = g[m]
  PROVE  f = g
BY TableIs

\* What types[...] yields is the entry of a known type, or an empty one.
LEMMA KnownData ==
  ASSUME Typed, NEW t
  PROVE  /\ Known(t) \in Data
         /\ t \in DOMAIN types => Known(t) = types[t]
         /\ t \notin DOMAIN types => DOMAIN Known(t).vtable = {}
BY EmptyTable DEF Typed, Known, Data

-----------------------------------------------------------------------------
(* What a class gets from its bases. The program p and the types ts are    *)
(* parameters: a table is compared with the types of two states.           *)

BasesOf(p, c) == IF p[c].parents = <<>> THEN <<"object">> ELSE p[c].parents

Provides(p, ts, c, i, m) == m \in DOMAIN ts[BasesOf(p, c)[i]].vtable

\* Of the bases before n, the i-th is the last one that has the method.
LastOf(p, ts, c, n, m, i) ==
  /\ i \in 1..n - 1 /\ Provides(p, ts, c, i, m)
  /\ \A j \in 1..n - 1 : i < j => ~Provides(p, ts, c, j, m)

\* The bases before n are loaded, and the table has what they provide,
\* except for the methods in own.
Merged(p, ts, c, n, own, table) ==
  /\ \A i \in 1..n - 1 : BasesOf(p, c)[i] \in DOMAIN ts
  /\ \A i \in 1..n - 1, m \in STRING \ own :
       /\ Provides(p, ts, c, i, m) => m \in DOMAIN table
       /\ LastOf(p, ts, c, n, m, i) => table[m] = ts[BasesOf(p, c)[i]].vtable[m]

Resolved(p, ts, c) ==
  LET table == ts[c].vtable
      n == Len(BasesOf(p, c)) + 1
  IN  /\ \A m \in p[c].methods : m \in DOMAIN table /\ table[m] = <<c, m>>
      /\ Merged(p, ts, c, n, p[c].methods, table)
      /\ \A m \in DOMAIN table \ p[c].methods : \E i \in 1..n - 1 : LastOf(p, ts, c, n, m, i)

\* An activation has merged the bases before the next one into what the class had.
Halfway(p, ts, a) ==
  /\ a.type \in DOMAIN p /\ a.next \in 1..Len(BasesOf(p, a.type)) + 1
  /\ a.called => a.next \in DOMAIN p[a.type].parents
  /\ Merged(p, ts, a.type, a.next, {}, a.data.vtable)
  /\ \A m \in DOMAIN a.data.vtable :
       \/ \E i \in 1..a.next - 1 : LastOf(p, ts, a.type, a.next, m, i)
       \/ a.type \in DOMAIN ts /\ m \in DOMAIN ts[a.type].vtable

\* A parent that was called is being loaded by the next activation, or it is loaded.
Answered(p, ts, q) ==
  \A k \in DOMAIN q : q[k].called =>
    LET parent == p[q[k].type].parents[q[k].next]
    IN  IF k < Len(q) THEN q[k + 1].type = parent
        ELSE parent \in DOMAIN p => parent \in DOMAIN ts

\* A type's table is made once: what is loaded again gets the same one.
Grows(ts, later) ==
  /\ DOMAIN ts \subseteq DOMAIN later
  /\ \A t \in DOMAIN ts : later[t].vtable = ts[t].vtable

LoaderInv ==
  /\ Typed
  /\ \A c \in DOMAIN types \intersect DOMAIN program : Resolved(program, types, c)
  /\ \A k \in DOMAIN loads : Halfway(program, types, loads[k])
  /\ Answered(program, types, loads)

\* Which base comes last for a method does not change when further types are loaded.
LEMMA LastGrows ==
  ASSUME NEW p, NEW ts, NEW later, NEW c, NEW n \in Nat, NEW m, NEW i, Grows(ts, later),
         \A j \in 1..n - 1 : BasesOf(p, c)[j] \in DOMAIN ts
  PROVE  LastOf(p, later, c, n, m, i) <=> LastOf(p, ts, c, n, m, i)
BY DEF LastOf, Provides, Grows

\* What has been merged from the bases stays right when further types are loaded.
LEMMA MergedGrows ==
  ASSUME NEW p, NEW ts, NEW later, NEW c, NEW n \in Nat, NEW own, NEW table,
         Grows(ts, later), Merged(p, ts, c, n, own, table)
  PROVE  Merged(p, later, c, n, own, table)
<1>1. \A j \in 1..n - 1 : BasesOf(p, c)[j] \in DOMAIN ts
  BY DEF Merged
<1>2. \A m, i : LastOf(p, later, c, n, m, i) <=> LastOf(p, ts, c, n, m, i)
  BY <1>1, LastGrows
<1>3. \A i \in 1..n - 1 : \A m : Provides(p, later, c, i, m) <=> Provides(p, ts, c, i, m)
  BY <1>1 DEF Provides, Grows
<1> QED
  BY <1>1, <1>2, <1>3 DEF Merged, Grows

\* A class that is resolved stays so when further types are loaded.
LEMMA ResolvedGrows ==
  ASSUME NEW p, NEW ts, NEW later, NEW c \in DOMAIN ts, Len(BasesOf(p, c)) \in Nat,
         Grows(ts, later), Resolved(p, ts, c)
  PROVE  Resolved(p, later, c)
<1> DEFINE n == Len(BasesOf(p, c)) + 1
<1>1. Merged(p, ts, c, n, p[c].methods, ts[c].vtable)
  BY DEF Resolved
<1>2. later[c].vtable = ts[c].vtable
  BY DEF Grows
<1>3. Merged(p, later, c, n, p[c].methods, later[c].vtable)
  BY <1>1, <1>2, MergedGrows
<1>4. \A m, i : LastOf(p, later, c, n, m, i) <=> LastOf(p, ts, c, n, m, i)
  <2>1. \A j \in 1..n - 1 : BasesOf(p, c)[j] \in DOMAIN ts
    BY <1>1 DEF Merged
  <2> QED
    BY <2>1, LastGrows
<1> QED
  BY <1>2, <1>3, <1>4 DEF Resolved

\* An activation of load_programtype is not disturbed when further types are loaded.
LEMMA HalfwayGrows ==
  ASSUME NEW p, NEW ts, NEW later, NEW a, Len(BasesOf(p, a.type)) \in Nat,
         Grows(ts, later), Halfway(p, ts, a)
  PROVE  Halfway(p, later, a)
<1>1. a.next \in Nat /\ Merged(p, ts, a.type, a.next, {}, a.data.vtable)
  BY DEF Halfway
<1>2. Merged(p, later, a.type, a.next, {}, a.data.vtable)
  BY <1>1, MergedGrows
<1>3. \A m, i : LastOf(p, later, a.type, a.next, m, i) <=> LastOf(p, ts, a.type, a.next, m, i)
  <2>1. \A j \in 1..a.next - 1 : BasesOf(p, a.type)[j] \in DOMAIN ts
    BY <1>1 DEF Merged
  <2> QED
    BY <1>1, <2>1, LastGrows
<1> QED
  BY <1>2, <1>3 DEF Halfway, Grows

\* Merging one more base.
LEMMA MergeBase ==
  ASSUME NEW p, NEW ts, NEW c, NEW n \in Nat \ {0}, NEW table \in Tables,
         BasesOf(p, c)[n] \in DOMAIN ts, ts[BasesOf(p, c)[n]].vtable \in Tables,
         Merged(p, ts, c, n, {}, table)
  PROVE  Merged(p, ts, c, n + 1, {}, Inherit(table, ts[BasesOf(p, c)[n]].vtable))
<1> DEFINE from == ts[BasesOf(p, c)[n]].vtable
           merged == Inherit(table, from)
<1>1. /\ DOMAIN merged = DOMAIN from \union DOMAIN table
      /\ \A m \in DOMAIN from : merged[m] = from[m]
      /\ \A m \in DOMAIN table \ DOMAIN from : merged[m] = table[m]
  BY OverTables DEF Inherit
<1>2. \A i \in 1..n : BasesOf(p, c)[i] \in DOMAIN ts
  BY DEF Merged
<1>3. ASSUME NEW i \in 1..n, NEW m \in STRING
      PROVE  /\ Provides(p, ts, c, i, m) => m \in DOMAIN merged
             /\ LastOf(p, ts, c, n + 1, m, i)
                  => merged[m] = ts[BasesOf(p, c)[i]].vtable[m]
  <2>1. CASE i = n
    BY <1>1, <2>1 DEF Provides, LastOf
  <2>2. CASE i \in 1..n - 1
    <3>1. Provides(p, ts, c, i, m) => m \in DOMAIN merged
      BY <1>1, <2>2 DEF Merged
    <3>2. ASSUME LastOf(p, ts, c, n + 1, m, i)
          PROVE  merged[m] = ts[BasesOf(p, c)[i]].vtable[m]
      <4>1. m \notin DOMAIN from /\ LastOf(p, ts, c, n, m, i)
        BY <2>2, <3>2 DEF LastOf, Provides
      <4>2. m \in DOMAIN table /\ table[m] = ts[BasesOf(p, c)[i]].vtable[m]
        BY <2>2, <4>1 DEF Merged, LastOf
      <4> QED
        BY <1>1, <4>1, <4>2
    <3> QED
      BY <3>1, <3>2
  <2> QED
    BY <2>1, <2>2
<1> QED
  BY <1>2, <1>3 DEF Merged

\* An activation that has merged its next base is half-way through one more.
LEMMA HalfwayNext ==
  ASSUME NEW p, NEW ts, NEW a \in Activations, NEW b \in Activations,
         Len(BasesOf(p, a.type)) \in Nat, Halfway(p, ts, a),
         a.next <= Len(BasesOf(p, a.type)), BasesOf(p, a.type)[a.next] \in DOMAIN ts,
         ts[BasesOf(p, a.type)[a.next]].vtable \in Tables,
         b.type = a.type, b.next = a.next + 1, ~b.called,
         b.data.vtable = Inherit(a.data.vtable, ts[BasesOf(p, a.type)[a.next]].vtable)
  PROVE  Halfway(p, ts, b)
<1> DEFINE n == a.next
           from == ts[BasesOf(p, a.type)[n]].vtable
<1>1. n \in Nat \ {0} /\ a.data.vtable \in Tables
  BY DEF Halfway, Activations, Data
<1>2. Merged(p, ts, a.type, n + 1, {}, b.data.vtable)
  BY <1>1, MergeBase DEF Halfway
<1>3. DOMAIN b.data.vtable = DOMAIN from \union DOMAIN a.data.vtable
  BY <1>1, OverTables DEF Inherit
<1>4. ASSUME NEW m \in DOMAIN b.data.vtable
      PROVE  \/ \E i \in 1..n : LastOf(p, ts, a.type, n + 1, m, i)
             \/ a.type \in DOMAIN ts /\ m \in DOMAIN ts[a.type].vtable
  <2>1. CASE m \in DOMAIN from
    <3>1. LastOf(p, ts, a.type, n + 1, m, n)
      BY <1>1, <2>1 DEF LastOf, Provides
    <3> QED
      BY <1>1, <3>1
  <2>2. CASE m \notin DOMAIN from
    <3>1. \A i : LastOf(p, ts, a.type, n, m, i) => LastOf(p, ts, a.type, n + 1, m, i)
      BY <1>1, <2>2 DEF LastOf, Provides
    <3>2. m \in DOMAIN a.data.vtable
      BY <1>3, <2>2
    <3> QED
      BY <1>1, <3>1, <3>2 DEF Halfway
  <2> QED
    BY <2>1, <2>2
<1>5. b.next \in 1..Len(BasesOf(p, b.type)) + 1
  BY <1>1
<1> QED
  BY <1>1, <1>2, <1>4, <1>5 DEF Halfway

-----------------------------------------------------------------------------
(* Type correctness. *)

\* A sequence of one.
LEMMA Single ==
  ASSUME NEW S, NEW o \in S
  PROVE  <<o>> \in Seq(S) /\ Len(<<o>>) = 1 /\ <<o>>[1] = o
OBVIOUS

\* The bases of a class are one or more names: its parents, or object.
LEMMA BasesTyped ==
  ASSUME NEW p, IsProgram(p), NEW c \in DOMAIN p
  PROVE  /\ p[c].parents \in Seq(STRING) /\ p[c].methods \in SUBSET STRING
         /\ BasesOf(p, c) \in Seq(STRING) /\ Len(BasesOf(p, c)) \in Nat \ {0}
         /\ c \in STRING \ DOMAIN SysMethods
         /\ p[c].parents /= <<>> => BasesOf(p, c) = p[c].parents
         /\ p[c].parents = <<>> => Len(BasesOf(p, c)) = 1 /\ BasesOf(p, c)[1] = "object"
<1>1. p[c] \in [parents : Seq(STRING), methods : SUBSET STRING] /\ c \in STRING \ DOMAIN SysMethods
  BY DEF IsProgram
<1>2. p[c].parents \in Seq(STRING) /\ p[c].methods \in SUBSET STRING
  BY <1>1
<1>3. p[c].parents /= <<>> => Len(p[c].parents) \in Nat \ {0}
  <2> DEFINE q == p[c].parents
  <2>1. q \in Seq(STRING)
    BY <1>2
  <2> HIDE DEF q
  <2>2. q /= <<>> => Len(q) \in Nat \ {0}
    BY <2>1, EmptySeq, LenProperties
  <2> QED
    BY <2>2 DEF q
<1>4. <<"object">> \in Seq(STRING) /\ Len(<<"object">>) = 1 /\ <<"object">>[1] = "object"
  BY NativeTypes, Single, Zenon
<1>5. CASE p[c].parents = <<>>
  <2>1. BasesOf(p, c) = <<"object">>
    BY <1>5 DEF BasesOf
  <2> QED
    BY <1>1, <1>2, <1>4, <1>5, <2>1
<1>6. CASE p[c].parents /= <<>>
  <2>1. BasesOf(p, c) = p[c].parents
    BY <1>6 DEF BasesOf
  <2> QED
    BY <1>1, <1>2, <1>3, <1>6, <2>1
<1> QED
  BY <1>5, <1>6

\* A name added to the ancestors leaves a sequence of names.
LEMMA AppendTyped ==
  ASSUME NEW q \in Seq(STRING), NEW t \in STRING
  PROVE  Append(q, t) \in Seq(STRING)
BY AppendProperties

\* The last item of a sequence, replaced or removed.
LEMMA LastItem ==
  ASSUME NEW S, NEW q \in Seq(S), q /= <<>>
  PROVE  /\ Len(q) \in Nat \ {0} /\ DOMAIN q = 1..Len(q)
         /\ \A k \in DOMAIN q : q[k] \in S
         /\ Len(q) \in 1..Len(q) /\ q[Len(q)] \in S
<1>1. Len(q) \in Nat \ {0} /\ DOMAIN q = 1..Len(q)
  BY EmptySeq, LenProperties
<1>2. \A k \in DOMAIN q : q[k] \in S
  BY LenProperties
<1> QED
  BY <1>1, <1>2

\* Replacing the last item, as the innermost activation is, leaves the others alone.
LEMMA ReplaceLast ==
  ASSUME NEW S, NEW q \in Seq(S), q /= <<>>, NEW a \in S, NEW r, r = [q EXCEPT ![Len(q)] = a]
  PROVE  /\ r \in Seq(S) /\ Len(r) = Len(q) /\ r[Len(q)] = a
         /\ \A j \in 1..Len(q) : j /= Len(q) => r[j] = q[j]
<1> DEFINE n == Len(q)
<1>1. q \in [1..n -> S] /\ n \in Nat /\ n \in 1..n
  BY LastItem, LenProperties
<1>2. r = [q EXCEPT ![n] = a]
  OBVIOUS
<1>3. r \in Seq(S)
  BY <1>1, ExceptSeq, Zenon
<1>4. DOMAIN r = 1..Len(r) /\ Len(r) \in Nat
  BY <1>3, LenProperties
<1> HIDE DEF n
<1>5. /\ DOMAIN r = 1..n /\ r[n] = a
      /\ \A j \in 1..n : j /= n => r[j] = q[j]
  BY <1>1, <1>2
<1>6. Len(r) = n
  BY <1>1, <1>4, <1>5
<1> QED
  BY <1>3, <1>5, <1>6 DEF n

\* Removing the last item, as a return does, leaves the others alone.
LEMMA FrontItems ==
  ASSUME NEW S, NEW q \in Seq(S), NEW n \in Nat, n + 1 = Len(q)
  PROVE  /\ SubSeq(q, 1, n) \in Seq(S) /\ Len(SubSeq(q, 1, n)) = n
         /\ \A i \in 1..n : SubSeq(q, 1, n)[i] = q[i]
BY LenProperties, SubSeqProperties

\* The table of types load_all_systypes leaves is well typed.
LEMMA SysTyped ==
  /\ DOMAIN SysTable = DOMAIN SysMethods
  /\ SysTable \in [DOMAIN SysTable -> Data]
<1>1. DOMAIN SysTable = DOMAIN SysMethods
  BY DEF SysTable
<1>2. ASSUME NEW t \in DOMAIN SysMethods
      PROVE  [vtable |-> Own(t, SysMethods[t]), parents |-> <<"object">>] \in Data
  <2>1. Own(t, SysMethods[t]) \in Tables
    BY NativeTypes, OwnTable
  <2>2. <<"object">> \in Seq(STRING)
    BY NativeTypes, Single, Zenon
  <2> QED
    BY <2>1, <2>2 DEF Data
<1> QED
  BY <1>1, <1>2 DEF SysTable

\* A call of load_programtype starts with what is known of its class.
LEMMA ActivationTyped ==
  ASSUME Typed, NEW c \in STRING
  PROVE  /\ Activation(c) \in Activations
         /\ Activation(c).type = c /\ Activation(c).next = 1 /\ Activation(c).called = FALSE
         /\ Activation(c).data = Known(c)
BY KnownData DEF Activation, Activations

\* Adding a type to the table of types, or changing one.
Entry(t, d) == [x \in {t} |-> d]

\* An activation after one more base.
Stepped(a, d) == [a EXCEPT !.data = d, !.next = a.next + 1, !.called = FALSE]

\* The fields of an activation after one more base.
LEMMA SteppedIs ==
  ASSUME NEW a \in Activations, NEW d \in Data
  PROVE  /\ Stepped(a, d) \in Activations /\ Stepped(a, d).type = a.type
         /\ Stepped(a, d).next = a.next + 1 /\ Stepped(a, d).data = d
         /\ Stepped(a, d).called = FALSE
<1>1. \A n \in Nat :
        LET b == [a EXCEPT !.data = d, !.next = n, !.called = FALSE]
        IN  b \in Activations /\ b.type = a.type /\ b.next = n /\ b.data = d /\ b.called = FALSE
  BY DEF Activations
<1>2. a.next + 1 \in Nat
  BY DEF Activations
<1> QED
  BY <1>1, <1>2, Zenon DEF Stepped

-----------------------------------------------------------------------------
(* The invariant. *)

\* What the invariant says of the innermost activation and the parent it is at.
LEMMA InnerFacts ==
  ASSUME LoaderInv, loads /= <<>>
  PROVE  /\ loads \in Seq(Activations) /\ Len(loads) \in Nat \ {0}
         /\ DOMAIN loads = 1..Len(loads) /\ Len(loads) \in 1..Len(loads)
         /\ \A k \in 1..Len(loads) : loads[k] \in Activations /\ loads[k].type \in DOMAIN program
                                     /\ Halfway(program, types, loads[k])
         /\ Inner \in Activations /\ Inner.type \in DOMAIN program
         /\ Inner.next \in Nat \ {0} /\ Inner.data.vtable \in Tables
         /\ Inner.data.parents \in Seq(STRING)
         /\ Halfway(program, types, Inner)
         /\ Parents \in Seq(STRING) /\ Parents = program[Inner.type].parents
         /\ Inner.next <= Len(Parents) =>
              Parent \in STRING /\ BasesOf(program, Inner.type) = Parents
<1>1. /\ loads \in Seq(Activations) /\ Len(loads) \in Nat \ {0}
      /\ DOMAIN loads = 1..Len(loads) /\ Len(loads) \in 1..Len(loads)
      /\ \A k \in 1..Len(loads) : loads[k] \in Activations
  BY LastItem DEF LoaderInv, Typed
<1>2. \A k \in 1..Len(loads) : Halfway(program, types, loads[k])
  BY <1>1 DEF LoaderInv
<1>3. \A k \in 1..Len(loads) : loads[k].type \in DOMAIN program
  BY <1>2 DEF Halfway
<1>4. Inner \in Activations /\ Inner.type \in DOMAIN program /\ Halfway(program, types, Inner)
  BY <1>1, <1>2, <1>3 DEF Inner
<1>5. /\ Inner.next \in Nat \ {0} /\ Inner.data.vtable \in Tables
      /\ Inner.data.parents \in Seq(STRING)
  BY <1>4 DEF Halfway, Activations, Data
<1>6. Parents \in Seq(STRING) /\ Parents = program[Inner.type].parents
  BY <1>4, BasesTyped DEF LoaderInv, Typed, Parents
<1>7. ASSUME Inner.next <= Len(Parents)
      PROVE  Parent \in STRING /\ BasesOf(program, Inner.type) = Parents
  <2>1. Parents /= <<>> /\ Inner.next \in 1..Len(Parents)
    BY <1>5, <1>6, <1>7, EmptySeq, LenProperties
  <2>2. Parent \in STRING
    BY <1>6, <2>1, ElementOfSeq DEF Parent
  <2>3. BasesOf(program, Inner.type) = Parents
    BY <1>6, <2>1 DEF BasesOf
  <2> QED
    BY <2>2, <2>3
<1> QED
  BY <1>1, <1>2, <1>3, <1>4, <1>5, <1>6, <1>7

\* The invariant of the table of types and of the activations that stay as they are.
LEMMA OthersStay ==
  ASSUME LoaderInv, NEW later, Grows(types, later)
  PROVE  /\ \A c \in DOMAIN types \intersect DOMAIN program : Resolved(program, later, c)
         /\ \A k \in DOMAIN loads : Halfway(program, later, loads[k])
         /\ Answered(program, later, loads)
<1>1. \A c \in DOMAIN program : Len(BasesOf(program, c)) \in Nat
  BY BasesTyped DEF LoaderInv, Typed
<1>2. \A c \in DOMAIN types \intersect DOMAIN program : Resolved(program, later, c)
  BY <1>1, ResolvedGrows DEF LoaderInv
<1>3. ASSUME NEW k \in DOMAIN loads
      PROVE  Halfway(program, later, loads[k])
  <2>1. Halfway(program, types, loads[k]) /\ loads[k].type \in DOMAIN program
    BY DEF LoaderInv, Halfway
  <2> QED
    BY <1>1, <2>1, HalfwayGrows
<1>4. Answered(program, later, loads)
  BY DEF LoaderInv, Answered, Grows
<1> QED
  BY <1>2, <1>3, <1>4

\* The innermost activation goes on: it becomes a, the activations become q.
GoneOn(later, a, q) ==
  /\ q \in Seq(Activations) /\ Len(q) = Len(loads) /\ q[Len(loads)] = a
  /\ DOMAIN q = 1..Len(loads)
  /\ \A k \in 1..Len(loads) : Halfway(program, later, q[k])
  /\ \A k \in 1..Len(loads) : k < Len(loads) /\ q[k].called
       => q[k + 1].type = program[q[k].type].parents[q[k].next]

\* If only the innermost activation goes on, and is half-way, all activations are in order.
LEMMA InnerGoesOn ==
  ASSUME LoaderInv, loads /= <<>>, NEW later, Grows(types, later),
         NEW a \in Activations, a.type = Inner.type, Halfway(program, later, a),
         NEW q, q = [loads EXCEPT ![Len(loads)] = a]
  PROVE  GoneOn(later, a, q)
<1> DEFINE n == Len(loads)
<1>1. /\ loads \in Seq(Activations) /\ n \in Nat \ {0}
      /\ DOMAIN loads = 1..n /\ n \in 1..n
  BY InnerFacts
<1>2. /\ q \in Seq(Activations) /\ Len(q) = n /\ q[n] = a
      /\ \A j \in 1..n : j /= n => q[j] = loads[j]
  <2>1. \A b \in Activations : \A r :
          r = [loads EXCEPT ![n] = b]
          => /\ r \in Seq(Activations) /\ Len(r) = n /\ r[n] = b
             /\ \A j \in 1..n : j /= n => r[j] = loads[j]
    BY <1>1, ReplaceLast
  <2>2. q = [loads EXCEPT ![n] = a]
    OBVIOUS
  <2> QED
    BY <2>1, <2>2
<1>3. a.type = loads[n].type
  BY DEF Inner
<1>4. \A k \in 1..n : k < n /\ loads[k].called =>
        loads[k + 1].type = program[loads[k].type].parents[loads[k].next]
  BY <1>1 DEF LoaderInv, Answered
<1> HIDE DEF n
<1>5. DOMAIN q = 1..n
  BY <1>2, LenProperties
<1>6. \A k \in 1..n : Halfway(program, later, q[k])
  BY <1>1, <1>2, OthersStay
<1>7. ASSUME NEW k \in 1..n, k < n, q[k].called
      PROVE  q[k + 1].type = program[q[k].type].parents[q[k].next]
  <2>1. q[k] = loads[k] /\ k + 1 \in 1..n
    BY <1>1, <1>2, <1>7
  <2>2. q[k + 1].type = loads[k + 1].type
    BY <1>2, <1>3, <2>1
  <2> QED
    BY <1>4, <1>7, <2>1, <2>2
<1> QED
  BY <1>2, <1>5, <1>6, <1>7 DEF n, GoneOn

\* A step that leaves the table of types alone lets it grow by nothing.
LEMMA SameGrows == ASSUME NEW ts PROVE Grows(ts, ts)
BY DEF Grows

\* A class whose loading begins is half-way through none of its bases.
LEMMA FreshActivation ==
  ASSUME LoaderInv, NEW c \in DOMAIN program
  PROVE  /\ Activation(c) \in Activations /\ Activation(c).type = c /\ ~Activation(c).called
         /\ Halfway(program, types, Activation(c))
<1>1. c \in STRING /\ Len(BasesOf(program, c)) \in Nat \ {0}
  BY BasesTyped DEF LoaderInv, Typed
<1>2. /\ Activation(c) \in Activations
      /\ Activation(c).type = c /\ Activation(c).next = 1 /\ Activation(c).called = FALSE
      /\ Activation(c).data = Known(c)
  BY <1>1, ActivationTyped DEF LoaderInv
<1>3. Merged(program, types, c, 1, {}, Known(c).vtable)
  BY DEF Merged
<1>4. \A m \in DOMAIN Known(c).vtable : c \in DOMAIN types /\ m \in DOMAIN types[c].vtable
  BY KnownData DEF LoaderInv
<1> QED
  BY <1>1, <1>2, <1>3, <1>4 DEF Halfway

\* load_all_programtypes comes to a class (runner.cpp:1063): the invariant is kept.
LEMMA LoadClassKeeps ==
  ASSUME LoaderInv, LoadClass
  PROVE  LoaderInv'
<1>1. PICK c \in toload : toload' = toload \ {c} /\ loads' = <<Activation(c)>>
  BY DEF LoadClass
<1>2. types' = types /\ program' = program
  BY DEF LoadClass
<1>3. c \in DOMAIN program /\ toload' \subseteq DOMAIN program
  BY <1>1 DEF LoaderInv, Typed
<1>4. /\ loads' \in Seq(Activations) /\ Len(loads') = 1 /\ loads'[1] = Activation(c)
      /\ DOMAIN loads' = 1..1
  BY <1>1, <1>3, FreshActivation, Single, LenProperties
<1>5. Typed'
  BY <1>2, <1>3, <1>4 DEF LoaderInv, Typed
<1>6. \A k \in DOMAIN loads' : Halfway(program, types, loads'[k]) /\ ~loads'[k].called
  BY <1>3, <1>4, FreshActivation
<1>7. Answered(program, types, loads')
  BY <1>6 DEF Answered
<1> QED
  BY <1>2, <1>5, <1>6, <1>7 DEF LoaderInv

\* A class without parents takes the methods of object: the invariant is kept.
LEMMA InheritObjectKeeps ==
  ASSUME LoaderInv, InheritObject
  PROVE  LoaderInv'
<1> DEFINE from == types["object"].vtable
           data == [vtable  |-> Inherit(Inner.data.vtable, from),
                    parents |-> Append(Inner.data.parents, "object")]
           a == [Inner EXCEPT !.data = data, !.next = 2]
<1>1. /\ loads /= <<>> /\ Parents = <<>> /\ Inner.next = 1
      /\ loads' = [loads EXCEPT ![Len(loads)] = a]
      /\ program' = program /\ types' = types /\ toload' = toload
  BY DEF InheritObject, Running, Continue
<1>2. /\ Inner \in Activations /\ Inner.type \in DOMAIN program
      /\ Halfway(program, types, Inner) /\ Inner.data.vtable \in Tables
      /\ Inner.data.parents \in Seq(STRING) /\ Parents = program[Inner.type].parents
  BY <1>1, InnerFacts
<1>3. /\ Len(BasesOf(program, Inner.type)) = 1
      /\ BasesOf(program, Inner.type)[1] = "object" /\ "object" \in STRING
      /\ "object" \in DOMAIN types /\ from \in Tables
  BY <1>1, <1>2, BasesTyped, NativeTypes DEF LoaderInv, Typed, Data
<1>4. ~Inner.called
  BY <1>1, <1>2 DEF Halfway
<1>5. data \in Data
  <2>1. Inherit(Inner.data.vtable, from) \in Tables
    BY <1>2, <1>3, OverTables DEF Inherit
  <2>2. Append(Inner.data.parents, "object") \in Seq(STRING)
    BY <1>2, <1>3, AppendTyped
  <2> QED
    BY <2>1, <2>2 DEF Data
<1> HIDE DEF data
<1>6. a \in Activations /\ a.type = Inner.type /\ a.next = 2 /\ a.data = data /\ a.called = Inner.called
  BY <1>2, <1>5 DEF Activations
<1>7. a.data.vtable = Inherit(Inner.data.vtable, from)
  BY <1>6 DEF data
<1> HIDE DEF a, from
<1>8. Halfway(program, types, a)
  BY <1>1, <1>2, <1>3, <1>4, <1>6, <1>7, HalfwayNext DEF from
<1>9. GoneOn(types, a, loads')
  <2>1. \A q : q = [loads EXCEPT ![Len(loads)] = a] => GoneOn(types, a, q)
    BY <1>1, <1>6, <1>8, SameGrows, InnerGoesOn
  <2> QED
    BY <1>1, <2>1
<1>10. Answered(program, types, loads')
  <2>1. Len(loads) \in Nat \ {0}
    BY <1>1, InnerFacts
  <2> QED
    BY <1>4, <1>6, <1>9, <2>1 DEF Answered, GoneOn
<1>11. Typed'
  BY <1>1, <1>9 DEF LoaderInv, Typed, GoneOn
<1> QED
  BY <1>1, <1>9, <1>10, <1>11 DEF LoaderInv, GoneOn

\* load_programtype calls itself for a parent, of the program or not: the invariant is kept.
LEMMA LoadParentKeeps ==
  ASSUME LoaderInv, LoadParent
  PROVE  LoaderInv'
<1> DEFINE a == [Inner EXCEPT !.called = TRUE]
           n == Len(loads)
           waiting == [loads EXCEPT ![n] = a]
<1>1. /\ loads /= <<>> /\ Inner.next <= Len(Parents)
      /\ program' = program /\ types' = types /\ toload' = toload
      /\ \/ Parent \notin DOMAIN program /\ loads' = waiting
         \/ Parent \in DOMAIN program /\ loads' = Append(waiting, Activation(Parent))
         \/ loads' = loads
  <2>1. waiting = [loads EXCEPT ![Len(loads)].called = TRUE]
    BY DEF Inner
  <2> QED
    BY <2>1 DEF LoadParent, Running
<1>2. /\ n \in Nat \ {0} /\ Inner \in Activations /\ Inner.next \in Nat \ {0}
      /\ Halfway(program, types, Inner) /\ Parents \in Seq(STRING)
      /\ Parents = program[Inner.type].parents
  BY <1>1, InnerFacts
<1>3. /\ a \in Activations /\ a.type = Inner.type /\ a.next = Inner.next
      /\ a.data = Inner.data /\ a.called
  BY <1>2 DEF Activations
<1> HIDE DEF a
<1>4. a.next \in DOMAIN program[Inner.type].parents
  BY <1>1, <1>2, <1>3, LenProperties
<1>5. Halfway(program, types, a)
  BY <1>2, <1>3, <1>4 DEF Halfway
<1>6. GoneOn(types, a, waiting)
  <2>1. \A q : q = [loads EXCEPT ![Len(loads)] = a] => GoneOn(types, a, q)
    BY <1>1, <1>3, <1>5, SameGrows, InnerGoesOn
  <2> QED
    BY <2>1
<1>7. program[a.type].parents[a.next] = Parent
  BY <1>2, <1>3 DEF Parent
<1> HIDE DEF waiting, n
<1>8. CASE Parent \notin DOMAIN program /\ loads' = waiting
  <2>1. Answered(program, types, loads')
    BY <1>2, <1>6, <1>7, <1>8 DEF Answered, GoneOn, n
  <2>2. Typed'
    BY <1>1, <1>6, <1>8 DEF LoaderInv, Typed, GoneOn
  <2> QED
    BY <1>1, <1>6, <1>8, <2>1, <2>2 DEF LoaderInv, GoneOn
<1>9. CASE Parent \in DOMAIN program /\ loads' = Append(waiting, Activation(Parent))
  <2> DEFINE q == loads'
             b == Activation(Parent)
  <2>1. /\ b \in Activations /\ b.type = Parent /\ ~b.called /\ Halfway(program, types, b)
    BY <1>9, FreshActivation
  <2>2. waiting \in Seq(Activations) /\ Len(waiting) = n
    BY <1>6 DEF GoneOn, n
  <2>3. /\ q \in Seq(Activations) /\ Len(q) = n + 1 /\ q[n + 1] = b
        /\ \A k \in 1..n : q[k] = waiting[k]
    BY <1>9, <2>1, <2>2, AppendProperties
  <2>4. DOMAIN q = 1..n + 1
    BY <2>3, LenProperties
  <2>5. /\ waiting[n] = a /\ \A k \in 1..n : Halfway(program, types, waiting[k])
        /\ \A k \in 1..n : k < n /\ waiting[k].called
             => waiting[k + 1].type = program[waiting[k].type].parents[waiting[k].next]
    BY <1>6 DEF GoneOn, n
  <2> HIDE DEF b, q
  <2>6. \A k \in DOMAIN q : Halfway(program, types, q[k])
    BY <1>2, <2>1, <2>3, <2>4, <2>5
  <2>7. ASSUME NEW k \in DOMAIN q, q[k].called
        PROVE  k < n + 1 /\ q[k + 1].type = program[q[k].type].parents[q[k].next]
    <3>1. k \in 1..n
      BY <1>2, <2>1, <2>3, <2>4, <2>7
    <3>2. CASE k = n
      BY <1>2, <1>7, <2>1, <2>3, <2>5, <3>1, <3>2
    <3>3. CASE k /= n
      <4>1. k < n /\ k + 1 \in 1..n
        BY <1>2, <3>1, <3>3
      <4> QED
        BY <1>2, <2>3, <2>5, <2>7, <3>1, <4>1
    <3> QED
      BY <3>2, <3>3
  <2>8. Answered(program, types, q)
    BY <2>3, <2>7 DEF Answered
  <2>9. Typed'
    BY <1>1, <2>3 DEF LoaderInv, Typed, q
  <2> QED
    BY <1>1, <2>6, <2>8, <2>9 DEF LoaderInv, q
<1>10. CASE loads' = loads
  BY <1>1, <1>10 DEF LoaderInv, Typed
<1> QED
  BY <1>1, <1>8, <1>9, <1>10

\* The methods of a parent that was loaded are merged: the invariant is kept.
LEMMA InheritParentKeeps ==
  ASSUME LoaderInv, InheritParent
  PROVE  LoaderInv'
<1> DEFINE from == Known(Parent)
           data == [vtable  |-> Inherit(Inner.data.vtable, from.vtable),
                    parents |-> WithAncestors(Inner.data.parents, Parent)]
           a == Stepped(Inner, data)
<1>1. /\ loads /= <<>> /\ Inner.next <= Len(Parents) /\ Inner.called
      /\ loads' = [loads EXCEPT ![Len(loads)] = a]
      /\ program' = program /\ toload' = toload
      /\ types' = Over(types, [t \in {Parent} |-> Known(t)])
  BY DEF InheritParent, Running, Continue, Stepped
<1>2. /\ Inner \in Activations /\ Inner.type \in DOMAIN program
      /\ Inner.next \in Nat \ {0}
      /\ Halfway(program, types, Inner) /\ Inner.data.vtable \in Tables
      /\ Inner.data.parents \in Seq(STRING) /\ Parents = program[Inner.type].parents
      /\ Parent \in STRING /\ BasesOf(program, Inner.type) = Parents
      /\ Parents \in Seq(STRING) /\ Len(loads) \in Nat \ {0} /\ DOMAIN loads = 1..Len(loads)
  BY <1>1, InnerFacts
<1>3. from \in Data /\ (Parent \in DOMAIN types => from = types[Parent])
  BY KnownData DEF LoaderInv
<1>4. /\ DOMAIN types' = DOMAIN types \union {Parent}
      /\ types' \in [DOMAIN types' -> Data] /\ types'[Parent] = from
      /\ \A t \in DOMAIN types \ {Parent} : types'[t] = types[t]
  <2>1. types' = Over(types, Entry(Parent, from))
    BY <1>1, Zenon DEF Over, Entry
  <2> HIDE DEF from
  <2>2. DOMAIN types \subseteq STRING /\ types \in [DOMAIN types -> Data]
    BY DEF LoaderInv, Typed
  <2>3. LET later == Over(types, Entry(Parent, from))
        IN  /\ DOMAIN later = DOMAIN types \union {Parent}
            /\ later \in [DOMAIN types \union {Parent} -> Data] /\ later[Parent] = from
            /\ \A t \in DOMAIN types \ {Parent} : later[t] = types[t]
    BY <1>3, <2>2 DEF Over, Entry
  <2> QED
    BY <2>1, <2>3
<1>5. Grows(types, types')
  BY <1>3, <1>4 DEF Grows
<1>6. Parent \in DOMAIN program => Parent \in DOMAIN types
  BY <1>1, <1>2 DEF LoaderInv, Answered, Inner, Parent
<1>7. data \in Data
  <2>1. Inherit(Inner.data.vtable, from.vtable) \in Tables
    BY <1>2, <1>3, OverTables DEF Inherit, Data
  <2>2. Append(Inner.data.parents, Parent) \in Seq(STRING)
    BY <1>2, AppendTyped
  <2>3. WithAncestors(Inner.data.parents, Parent) \in Seq(STRING)
    BY <1>3, <2>2, ConcatProperties DEF WithAncestors, Data
  <2> QED
    BY <2>1, <2>3 DEF Data
<1>8. data.vtable = Inherit(Inner.data.vtable, from.vtable)
  OBVIOUS
<1> HIDE DEF data
<1>9. a \in Activations /\ a.type = Inner.type /\ a.next = Inner.next + 1 /\ a.data = data /\ ~a.called
  BY <1>2, <1>7, SteppedIs
<1> HIDE DEF a, from
<1>10. Halfway(program, types', a)
  <2>1. Halfway(program, types', Inner)
    BY <1>2, <1>5, HalfwayGrows, BasesTyped DEF LoaderInv, Typed
  <2>2. Parent = BasesOf(program, Inner.type)[Inner.next] /\ Len(Parents) \in Nat
        /\ from.vtable \in Tables
    BY <1>2, <1>3 DEF Parent, Data
  <2> QED
    BY <1>1, <1>2, <1>4, <1>8, <1>9, <2>1, <2>2, HalfwayNext
<1>11. GoneOn(types', a, loads')
  <2>1. \A q : q = [loads EXCEPT ![Len(loads)] = a] => GoneOn(types', a, q)
    BY <1>1, <1>5, <1>9, <1>10, InnerGoesOn
  <2> QED
    BY <1>1, <2>1
<1>12. Answered(program, types', loads')
  BY <1>2, <1>9, <1>11 DEF Answered, GoneOn
<1>13. \A c \in DOMAIN types' \intersect DOMAIN program : Resolved(program, types', c)
  BY <1>4, <1>5, <1>6, OthersStay
<1>14. Typed'
  BY <1>1, <1>2, <1>4, <1>11 DEF LoaderInv, Typed, GoneOn
<1> QED
  BY <1>1, <1>11, <1>12, <1>13, <1>14 DEF LoaderInv, GoneOn

\* A class that is loaded again gets the table it had.
LEMMA SameAgain ==
  ASSUME LoaderInv, loads /= <<>>, Inner.next = Len(BasesOf(program, Inner.type)) + 1,
         Inner.type \in DOMAIN types, NEW table \in Tables,
         table = Over(Own(Inner.type, program[Inner.type].methods), Inner.data.vtable)
  PROVE  table = types[Inner.type].vtable
<1> DEFINE c == Inner.type
           n == Len(BasesOf(program, c)) + 1
           own == program[c].methods
           half == Inner.data.vtable
           old == types[c].vtable
<1>1. /\ c \in DOMAIN program /\ half \in Tables /\ Halfway(program, types, Inner)
  BY InnerFacts
<1>2. own \in SUBSET STRING /\ c \in STRING
  BY <1>1, BasesTyped DEF LoaderInv, Typed
<1>3. Resolved(program, types, c) /\ old \in Tables
  BY <1>1 DEF LoaderInv, Typed, Data
<1>4. /\ DOMAIN table = own \union DOMAIN half
      /\ \A m \in own : table[m] = <<c, m>>
      /\ \A m \in DOMAIN half \ own : table[m] = half[m]
  <2>1. /\ table = Over(Own(c, own), half) /\ c \in STRING /\ own \in SUBSET STRING
        /\ half \in Tables
    BY <1>1, <1>2
  <2> HIDE DEF c, own, half
  <2>2. Defined(c, own, half, table)
    BY <2>1, OwnOver
  <2> QED
    BY <2>2 DEF Defined
<1>5. /\ \A m \in own : m \in DOMAIN old /\ old[m] = <<c, m>>
      /\ Merged(program, types, c, n, own, old)
      /\ \A m \in DOMAIN old \ own : \E i \in 1..n - 1 : LastOf(program, types, c, n, m, i)
  BY <1>3 DEF Resolved
<1>6. /\ Merged(program, types, c, n, {}, half)
      /\ \A m \in DOMAIN half : \/ \E i \in 1..n - 1 : LastOf(program, types, c, n, m, i)
                                \/ m \in DOMAIN old
  BY <1>1 DEF Halfway
<1>7. DOMAIN half \subseteq STRING /\ DOMAIN old \subseteq STRING
  BY <1>1, <1>3, TableIs
<1> HIDE DEF c, n, own, half, old
<1>8. ASSUME NEW m \in STRING \ own, NEW i \in 1..n - 1, LastOf(program, types, c, n, m, i)
      PROVE  m \in DOMAIN half /\ m \in DOMAIN old /\ half[m] = old[m]
  BY <1>5, <1>6, <1>8 DEF Merged, LastOf
<1>9. \A m \in STRING \ own :
        /\ m \in DOMAIN half <=> m \in DOMAIN old
        /\ m \in DOMAIN half => half[m] = old[m]
  BY <1>5, <1>6, <1>8
<1>10. DOMAIN table = DOMAIN old /\ \A m \in DOMAIN table : table[m] = old[m]
  BY <1>2, <1>4, <1>5, <1>7, <1>9
<1>11. table = old
  BY <1>3, <1>10, SameTable
<1> QED
  BY <1>11 DEF old, c

\* A class whose bases are all merged is resolved when its own methods are added.
LEMMA ResolvedAtLast ==
  ASSUME NEW p, NEW ts, NEW later, NEW a \in Activations, Grows(ts, later),
         NEW c, c = a.type, NEW n \in Nat, n = Len(BasesOf(p, c)) + 1, a.next = n,
         p[c].methods \in SUBSET STRING, c \in STRING,
         Halfway(p, ts, a), c \in DOMAIN ts => Resolved(p, ts, c),
         later[c].vtable = Over(Own(c, p[c].methods), a.data.vtable)
  PROVE  Resolved(p, later, c)
<1> DEFINE own == p[c].methods
           half == a.data.vtable
           table == later[c].vtable
<1>1. half \in Tables /\ DOMAIN half \subseteq STRING
  BY TableIs DEF Activations, Data
<1>2. /\ DOMAIN table = own \union DOMAIN half
      /\ \A m \in own : table[m] = <<c, m>>
      /\ \A m \in DOMAIN half \ own : table[m] = half[m]
  <2>1. /\ table = Over(Own(c, own), half) /\ c \in STRING /\ own \in SUBSET STRING
        /\ half \in Tables
    BY <1>1
  <2> HIDE DEF own, half, table
  <2>2. Defined(c, own, half, table)
    BY <2>1, OwnOver
  <2> QED
    BY <2>2 DEF Defined
<1>3. Merged(p, ts, c, n, {}, half)
  BY DEF Halfway
<1>4. Merged(p, later, c, n, {}, half)
  BY <1>3, MergedGrows
<1>5. \A m, i : LastOf(p, later, c, n, m, i) <=> LastOf(p, ts, c, n, m, i)
  <2>1. \A j \in 1..n - 1 : BasesOf(p, c)[j] \in DOMAIN ts
    BY <1>3 DEF Merged
  <2> QED
    BY <2>1, LastGrows
<1>6. ASSUME NEW m \in DOMAIN half \ own
      PROVE  \E i \in 1..n - 1 : LastOf(p, ts, c, n, m, i)
  <2>1. \/ \E i \in 1..n - 1 : LastOf(p, ts, c, n, m, i)
        \/ c \in DOMAIN ts /\ m \in DOMAIN ts[c].vtable
    BY DEF Halfway
  <2>2. c \in DOMAIN ts /\ m \in DOMAIN ts[c].vtable
          => \E i \in 1..n - 1 : LastOf(p, ts, c, n, m, i)
    BY DEF Resolved
  <2> QED
    BY <2>1, <2>2
<1> HIDE DEF own, half, table
<1>7. Merged(p, later, c, n, own, table)
  <2>1. ASSUME NEW i \in 1..n - 1, NEW m \in STRING \ own
        PROVE  /\ Provides(p, later, c, i, m) => m \in DOMAIN half
               /\ LastOf(p, later, c, n, m, i)
                    => m \in DOMAIN half /\ half[m] = later[BasesOf(p, c)[i]].vtable[m]
    BY <1>4 DEF Merged, LastOf
  <2> QED
    BY <1>2, <1>4, <2>1 DEF Merged
<1>8. \A m \in DOMAIN table \ own : \E i \in 1..n - 1 : LastOf(p, later, c, n, m, i)
  BY <1>2, <1>5, <1>6
<1> QED
  BY <1>2, <1>7, <1>8 DEF Resolved, own, table

\* When its own methods are added, an activation has merged all bases of its class.
LEMMA AllMerged ==
  ASSUME LoaderInv, DefineMethods
  PROVE  Inner.next = Len(BasesOf(program, Inner.type)) + 1
<1> DEFINE c == Inner.type
<1>1. /\ c \in DOMAIN program /\ Halfway(program, types, Inner) /\ Inner.next \in Nat \ {0}
      /\ Parents \in Seq(STRING) /\ Parents = program[c].parents
  BY InnerFacts DEF DefineMethods, Running
<1>2. Len(BasesOf(program, c)) \in Nat \ {0}
  BY <1>1, BasesTyped DEF LoaderInv, Typed
<1>3. Inner.next = Len(BasesOf(program, c)) + 1
  <2>1. Inner.next > Len(Parents) /\ (Parents = <<>> => Inner.next = 2)
    BY DEF DefineMethods
  <2>2. Inner.next <= Len(BasesOf(program, c)) + 1
    BY <1>1, <1>2 DEF Halfway
  <2>3. /\ Parents /= <<>> => BasesOf(program, c) = Parents
        /\ Parents = <<>> => Len(BasesOf(program, c)) = 1
    BY <1>1, BasesTyped DEF LoaderInv, Typed
  <2>4. Len(Parents) \in Nat
    BY <1>1, LenProperties
  <2>5. CASE Parents = <<>>
    <3>1. Inner.next = 2 /\ Len(BasesOf(program, c)) = 1
      BY <2>1, <2>3, <2>5, Zenon
    <3>2. 2 = 1 + 1
      OBVIOUS
    <3> QED
      BY <3>1, <3>2, Zenon
  <2>6. CASE Parents /= <<>>
    <3>1. Len(BasesOf(program, c)) = Len(Parents)
      BY <2>3, <2>6
    <3>2. \A k \in Nat, len \in Nat : k > len /\ k <= len + 1 => k = len + 1
      OBVIOUS
    <3> QED
      BY <1>1, <2>1, <2>2, <2>4, <3>1, <3>2
  <2> QED
    BY <2>5, <2>6
<1> QED
  BY <1>3

\* load_programtype adds the own methods and returns: the invariant is kept.
LEMMA DefineMethodsKeeps ==
  ASSUME LoaderInv, DefineMethods
  PROVE  LoaderInv'
<1> DEFINE c == Inner.type
           own == program[c].methods
           table == Over(Own(c, own), Inner.data.vtable)
           data == [vtable |-> table, parents |-> Inner.data.parents]
           n == Len(loads) - 1
<1>1. /\ Inner \in Activations /\ c \in DOMAIN program /\ Halfway(program, types, Inner)
      /\ Inner.next \in Nat \ {0} /\ Inner.data.vtable \in Tables
      /\ Inner.data.parents \in Seq(STRING) /\ Inner.data \in Data
      /\ loads \in Seq(Activations) /\ loads /= <<>> /\ Len(loads) \in Nat \ {0}
      /\ DOMAIN loads = 1..Len(loads)
      /\ Parents \in Seq(STRING) /\ Parents = program[c].parents
  BY InnerFacts DEF DefineMethods, Running, Activations
<1>2. /\ program' = program /\ toload' = toload /\ loads' = SubSeq(loads, 1, n)
      /\ types' = Over(Entry(c, [Inner.data EXCEPT !.vtable = table]), types)
  BY Zenon DEF DefineMethods, Entry
<1>3. c \in STRING /\ own \in SUBSET STRING /\ Len(BasesOf(program, c)) \in Nat \ {0}
  BY <1>1, BasesTyped DEF LoaderInv, Typed
<1>4. Inner.next = Len(BasesOf(program, c)) + 1
  BY AllMerged
<1>5. Defined(c, own, Inner.data.vtable, table)
  BY <1>1, <1>3, OwnOver
<1>6. table \in Tables
  BY <1>5 DEF Defined
<1>7. [Inner.data EXCEPT !.vtable = table] = data /\ data \in Data /\ data.vtable = table
  <2> HIDE DEF table
  <2> QED
    BY <1>1, <1>6 DEF Data
<1>8. types' = Over(Entry(c, data), types)
  BY <1>2, <1>7
<1> HIDE DEF data
<1>9. /\ DOMAIN types' = DOMAIN types \union {c}
      /\ types' \in [DOMAIN types' -> Data] /\ types'[c] = data
      /\ \A t \in DOMAIN types \ {c} : types'[t] = types[t]
  <2>1. types \in [DOMAIN types -> Data]
    BY DEF LoaderInv, Typed
  <2> HIDE DEF c
  <2> QED
    BY <1>7, <1>8, <2>1 DEF Over, Entry
<1>10. c \in DOMAIN types => table = types[c].vtable
  BY <1>1, <1>4, <1>6, SameAgain
<1>11. Grows(types, types')
  BY <1>7, <1>9, <1>10 DEF Grows
<1>12. Resolved(program, types', c)
  <2>1. c \in DOMAIN types => Resolved(program, types, c)
    BY <1>1 DEF LoaderInv
  <2>2. types'[c].vtable = Over(Own(c, program[c].methods), Inner.data.vtable)
    BY <1>7, <1>9
  <2> QED
    BY <1>1, <1>3, <1>4, <1>11, <2>1, <2>2, ResolvedAtLast
<1>13. \A t \in DOMAIN types' \intersect DOMAIN program : Resolved(program, types', t)
  BY <1>9, <1>11, <1>12, OthersStay
<1>14. n \in Nat /\ n + 1 = Len(loads)
  BY <1>1
<1>15. /\ loads' \in Seq(Activations) /\ Len(loads') = n
       /\ \A k \in 1..n : loads'[k] = loads[k]
  BY <1>1, <1>2, <1>14, FrontItems
<1>16. DOMAIN loads' = 1..n
  BY <1>15, LenProperties
<1>17. c = loads[n + 1].type
  BY <1>14 DEF Inner
<1> HIDE DEF n, c
<1>18. \A k \in DOMAIN loads' : Halfway(program, types', loads'[k])
  BY <1>1, <1>11, <1>14, <1>15, <1>16, OthersStay
<1>19. Answered(program, types', loads')
  <2>1. ASSUME NEW k \in 1..n, loads[k].called
        PROVE  loads[k + 1].type = program[loads[k].type].parents[loads[k].next]
    BY <1>1, <1>14, <2>1 DEF LoaderInv, Answered
  <2>2. ASSUME NEW k \in 1..n, k = n, loads[k].called
        PROVE  program[loads[k].type].parents[loads[k].next] \in DOMAIN types'
    BY <1>9, <1>17, <2>1, <2>2
  <2> QED
    BY <1>14, <1>15, <1>16, <2>1, <2>2 DEF Answered
<1>20. Typed'
  BY <1>2, <1>3, <1>9, <1>15 DEF LoaderInv, Typed
<1> QED
  BY <1>2, <1>13, <1>18, <1>19, <1>20 DEF LoaderInv

\* The invariant holds when a program is about to be loaded.
LEMMA LoaderInvInit ==
  ASSUME IsProgram(program), types = SysTable, toload = DOMAIN program, loads = <<>>
  PROVE  LoaderInv
<1>1. DOMAIN types = DOMAIN SysMethods /\ types \in [DOMAIN types -> Data]
  BY SysTyped
<1>2. loads \in Seq(Activations) /\ DOMAIN loads = {}
  OBVIOUS
<1>3. Typed
  BY <1>1, <1>2, NativeTypes DEF Typed
<1>4. DOMAIN types \intersect DOMAIN program = {}
  BY <1>1 DEF IsProgram
<1> QED
  BY <1>2, <1>3, <1>4 DEF LoaderInv, Answered

\* Every step of the loader keeps the invariant.
LEMMA LoaderInvStep ==
  ASSUME LoaderInv, [LoaderNext]_loaderVars
  PROVE  LoaderInv'
<1>1. CASE AllLoaded
  BY <1>1 DEF AllLoaded, LoaderInv, Typed
<1>2. CASE UNCHANGED loaderVars
  BY <1>2 DEF loaderVars, LoaderInv, Typed
<1> QED
  BY <1>1, <1>2, LoadClassKeeps, InheritObjectKeeps, LoadParentKeeps, InheritParentKeeps,
     DefineMethodsKeeps DEF LoaderNext

\* The invariant says what VtablesResolve says.
LEMMA InvResolves == LoaderInv => VtablesResolve
<1> SUFFICES ASSUME LoaderInv,
                    NEW c \in (DOMAIN types \intersect DOMAIN program) \ DOMAIN SysMethods
             PROVE  /\ \A m \in program[c].methods :
                         m \in DOMAIN types[c].vtable /\ types[c].vtable[m] = <<c, m>>
                    /\ \A i \in DOMAIN Bases(c) :
                         \A m \in DOMAIN Known(Bases(c)[i]).vtable \ program[c].methods :
                           /\ m \in DOMAIN types[c].vtable
                           /\ Providers(c, i + 1, Len(Bases(c)), m) = {}
                                => types[c].vtable[m] = types[Bases(c)[i]].vtable[m]
                    /\ \A m \in DOMAIN types[c].vtable \ program[c].methods :
                         Providers(c, 1, Len(Bases(c)), m) /= {}
  BY DEF VtablesResolve
<1> DEFINE n == Len(Bases(c)) + 1
           own == program[c].methods
           table == types[c].vtable
<1>1. Bases(c) = BasesOf(program, c) /\ Bases(c) \in Seq(STRING) /\ n \in Nat
      /\ DOMAIN Bases(c) = 1..n - 1
  <2>1. Bases(c) = BasesOf(program, c) /\ Bases(c) \in Seq(STRING)
    BY BasesTyped DEF Bases, BasesOf, LoaderInv, Typed
  <2> QED
    BY <2>1, LenProperties
<1>2. Resolved(program, types, c)
  BY DEF LoaderInv
<1>3. /\ \A m \in own : m \in DOMAIN table /\ table[m] = <<c, m>>
      /\ Merged(program, types, c, n, own, table)
      /\ \A m \in DOMAIN table \ own : \E i \in 1..n - 1 : LastOf(program, types, c, n, m, i)
  BY <1>1, <1>2 DEF Resolved
<1>4. \A i \in 1..n - 1 : /\ Bases(c)[i] \in DOMAIN types
                          /\ Known(Bases(c)[i]) = types[Bases(c)[i]]
                          /\ \A m \in DOMAIN types[Bases(c)[i]].vtable : m \in STRING
  <2>1. ASSUME NEW i \in 1..n - 1
        PROVE  Bases(c)[i] \in DOMAIN types
    BY <1>1, <1>3 DEF Merged
  <2>2. \A t \in DOMAIN types : Known(t) = types[t] /\ DOMAIN types[t].vtable \subseteq STRING
    BY TableIs DEF Known, LoaderInv, Typed, Data
  <2> QED
    BY <2>1, <2>2
<1>5. \A i \in 1..n - 1 : \A m : Provides(program, types, c, i, m)
                               <=> m \in DOMAIN Known(Bases(c)[i]).vtable
  BY <1>1, <1>4 DEF Provides
<1>6. ASSUME NEW i \in 1..n - 1, NEW m \in DOMAIN Known(Bases(c)[i]).vtable \ own
      PROVE  /\ m \in DOMAIN table
             /\ Providers(c, i + 1, Len(Bases(c)), m) = {}
                  => table[m] = types[Bases(c)[i]].vtable[m]
  <2>1. m \in STRING \ own /\ Provides(program, types, c, i, m)
    BY <1>4, <1>5, <1>6
  <2>2. m \in DOMAIN table
    BY <1>3, <2>1 DEF Merged
  <2>3. ASSUME Providers(c, i + 1, Len(Bases(c)), m) = {}
        PROVE  LastOf(program, types, c, n, m, i)
    <3>1. ASSUME NEW j \in 1..n - 1, i < j
          PROVE  ~Provides(program, types, c, j, m)
      <4>1. j \in i + 1..Len(Bases(c)) /\ j \in DOMAIN Bases(c)
        BY <1>1, <3>1
      <4>2. m \notin DOMAIN Known(Bases(c)[j]).vtable
        BY <2>3, <4>1 DEF Providers
      <4> QED
        BY <1>5, <4>2
    <3> QED
      BY <2>1, <3>1 DEF LastOf
  <2>4. LastOf(program, types, c, n, m, i) => table[m] = types[Bases(c)[i]].vtable[m]
    BY <1>1, <1>3, <2>1 DEF Merged
  <2> QED
    BY <2>2, <2>3, <2>4
<1>7. ASSUME NEW m \in DOMAIN table \ own
      PROVE  Providers(c, 1, Len(Bases(c)), m) /= {}
  <2>1. PICK i \in 1..n - 1 : LastOf(program, types, c, n, m, i)
    BY <1>3
  <2>2. m \in DOMAIN Known(Bases(c)[i]).vtable
    BY <1>5, <2>1 DEF LastOf
  <2>3. i \in 1..Len(Bases(c)) /\ i \in DOMAIN Bases(c)
    BY <1>1
  <2> QED
    BY <2>2, <2>3 DEF Providers
<1> QED
  BY <1>1, <1>3, <1>6, <1>7

\* The table of every class of every program resolves its methods to its own and to
\* those of its last base that has them, whatever native types there are, however deep
\* the stack is, in whatever order load_all_programtypes comes to the classes, and also
\* while they are being loaded.
THEOREM TablesResolve == LoaderSpec => []VtablesResolve
<1>1. LoaderSpec => []LoaderInv
  BY LoaderInvInit, LoaderInvStep, PTL DEF LoaderSpec
<1> QED
  BY <1>1, InvResolves, PTL
-----------------------------------------------------------------------------
(* The ancestors a class gets while any program's types are loaded. The    *)
(* list grows each time the class is loaded; what is in it does not.       *)

Items(q) == {q[k] : k \in DOMAIN q}

\* What a class gets from a base, and from the bases before n.
Gives(ts, t) == {t} \union Items(ts[t].parents)
Given(p, ts, c, n) == UNION {Gives(ts, BasesOf(p, c)[i]) : i \in 1..n - 1}

AllGiven(p, ts, c) == Items(ts[c].parents) = Given(p, ts, c, Len(BasesOf(p, c)) + 1)

\* An activation has the ancestors of the bases before the next one, and those its
\* class had when it was called.
HalfGiven(p, ts, a) ==
  /\ Given(p, ts, a.type, a.next) \subseteq Items(a.data.parents)
  /\ \A t \in Items(a.data.parents) :
       \/ t \in Given(p, ts, a.type, a.next)
       \/ a.type \in DOMAIN ts /\ t \in Items(ts[a.type].parents)

\* Types are added, and those there were keep their ancestors.
Alike(ts, later) ==
  /\ DOMAIN ts \subseteq DOMAIN later
  /\ \A t \in DOMAIN ts : Items(later[t].parents) = Items(ts[t].parents)

AncestorsInv ==
  /\ LoaderInv
  /\ Items(types["object"].parents) \subseteq {"object"}
  /\ \A c \in DOMAIN types \intersect DOMAIN program : AllGiven(program, types, c)
  /\ \A k \in DOMAIN loads : HalfGiven(program, types, loads[k])

-----------------------------------------------------------------------------
(* Sequences and what is in them. *)

\* One more item.
LEMMA ItemsAppend ==
  ASSUME NEW S, NEW q \in Seq(S), NEW t \in S
  PROVE  Items(Append(q, t)) = Items(q) \union {t}
<1> DEFINE r == Append(q, t)
<1>1. /\ r \in Seq(S) /\ Len(r) = Len(q) + 1 /\ r[Len(q) + 1] = t
      /\ \A k \in 1..Len(q) : r[k] = q[k]
  BY AppendProperties
<1>2. DOMAIN q = 1..Len(q) /\ DOMAIN r = 1..Len(q) + 1 /\ Len(q) \in Nat
  BY <1>1, LenProperties
<1> HIDE DEF r
<1>3. \A k \in DOMAIN q : k \in DOMAIN r /\ r[k] = q[k]
  BY <1>1, <1>2
<1>4. Len(q) + 1 \in DOMAIN r /\ \A k \in DOMAIN r : k \in DOMAIN q \/ r[k] = t
  BY <1>1, <1>2
<1>5. Items(q) \union {t} \subseteq Items(r)
  BY <1>1, <1>3, <1>4 DEF Items
<1>6. Items(r) \subseteq Items(q) \union {t}
  BY <1>3, <1>4 DEF Items
<1> QED
  BY <1>5, <1>6 DEF r

\* Two lists in a row.
LEMMA ItemsConcat ==
  ASSUME NEW q \in Seq(STRING), NEW r \in Seq(STRING)
  PROVE  Items(q \o r) = Items(q) \union Items(r)
<1> DEFINE both == q \o r
<1>1. /\ both \in Seq(STRING) /\ Len(both) = Len(q) + Len(r)
      /\ \A k \in 1..Len(both) : both[k] = IF k <= Len(q) THEN q[k] ELSE r[k - Len(q)]
  BY ConcatProperties
<1>2. /\ DOMAIN q = 1..Len(q) /\ DOMAIN r = 1..Len(r) /\ DOMAIN both = 1..Len(q) + Len(r)
      /\ Len(q) \in Nat /\ Len(r) \in Nat
  BY <1>1, LenProperties
<1> HIDE DEF both
<1>3. \A k \in 1..Len(q) : k \in DOMAIN both /\ both[k] = q[k]
  BY <1>1, <1>2
<1>4. \A k \in 1..Len(r) : k + Len(q) \in DOMAIN both /\ both[k + Len(q)] = r[k]
  BY <1>1, <1>2
<1>5. \A k \in DOMAIN both : \/ k \in 1..Len(q) /\ both[k] = q[k]
                             \/ k - Len(q) \in 1..Len(r) /\ both[k] = r[k - Len(q)]
  BY <1>1, <1>2
<1>6. Items(both) = Items(q) \union Items(r)
  <2>1. Items(q) \subseteq Items(both)
    BY <1>2, <1>3 DEF Items
  <2>2. Items(r) \subseteq Items(both)
    BY <1>2, <1>4 DEF Items
  <2>3. Items(both) \subseteq Items(q) \union Items(r)
    BY <1>2, <1>5 DEF Items
  <2> QED
    BY <2>1, <2>2, <2>3
<1> QED
  BY <1>6 DEF both

-----------------------------------------------------------------------------
(* What is given by the bases. *)

\* Nothing is given before the first base.
LEMMA GivenNone == \A p, ts, c : Given(p, ts, c, 1) = {}
BY DEF Given

\* One base more.
LEMMA GivenNext ==
  ASSUME NEW p, NEW ts, NEW c, NEW n \in Nat \ {0}
  PROVE  Given(p, ts, c, n + 1) = Given(p, ts, c, n) \union Gives(ts, BasesOf(p, c)[n])
<1>1. 1..(n + 1) - 1 = (1..n - 1) \union {n}
  OBVIOUS
<1> QED
  BY <1>1 DEF Given

\* What bases that are known give stays the same.
LEMMA GivenAlike ==
  ASSUME NEW p, NEW ts, NEW later, NEW c, NEW n, Alike(ts, later),
         \A i \in 1..n - 1 : BasesOf(p, c)[i] \in DOMAIN ts
  PROVE  Given(p, later, c, n) = Given(p, ts, c, n)
<1>1. \A i \in 1..n - 1 : Gives(later, BasesOf(p, c)[i]) = Gives(ts, BasesOf(p, c)[i])
  BY DEF Gives, Alike
<1> QED
  BY <1>1 DEF Given

\* An activation is not disturbed by types that are added.
LEMMA HalfGivenAlike ==
  ASSUME NEW p, NEW ts, NEW later, NEW a, Alike(ts, later), Halfway(p, ts, a), HalfGiven(p, ts, a)
  PROVE  HalfGiven(p, later, a)
<1>1. \A i \in 1..a.next - 1 : BasesOf(p, a.type)[i] \in DOMAIN ts
  BY DEF Halfway, Merged
<1>2. Given(p, later, a.type, a.next) = Given(p, ts, a.type, a.next)
  BY <1>1, GivenAlike
<1> QED
  BY <1>2 DEF HalfGiven, Alike

\* Nor is a class that is loaded, or an activation that stays as it is.
LEMMA KinStays ==
  ASSUME AncestorsInv, NEW later, Alike(types, later)
  PROVE  /\ \A c \in DOMAIN types \intersect DOMAIN program : AllGiven(program, later, c)
         /\ \A k \in DOMAIN loads : HalfGiven(program, later, loads[k])
<1>1. ASSUME NEW c \in DOMAIN types \intersect DOMAIN program
      PROVE  AllGiven(program, later, c)
  <2> DEFINE n == Len(BasesOf(program, c)) + 1
  <2>1. \A i \in 1..n - 1 : BasesOf(program, c)[i] \in DOMAIN types
    BY DEF AncestorsInv, LoaderInv, Resolved, Merged
  <2>2. Given(program, later, c, n) = Given(program, types, c, n)
    BY <2>1, GivenAlike
  <2>3. Items(types[c].parents) = Given(program, types, c, n)
    BY DEF AncestorsInv, AllGiven
  <2> QED
    BY <2>2, <2>3 DEF AllGiven, Alike
<1>2. ASSUME NEW k \in DOMAIN loads
      PROVE  HalfGiven(program, later, loads[k])
  BY HalfGivenAlike DEF AncestorsInv, LoaderInv
<1> QED
  BY <1>1, <1>2

\* An activation that takes the ancestors of its next base.
LEMMA HalfGivenNext ==
  ASSUME NEW p, NEW ts, NEW a, NEW b, a.next \in Nat \ {0}, HalfGiven(p, ts, a),
         b.type = a.type, b.next = a.next + 1,
         Items(b.data.parents) = Items(a.data.parents) \union Gives(ts, BasesOf(p, a.type)[a.next])
  PROVE  HalfGiven(p, ts, b)
<1>1. Given(p, ts, b.type, b.next)
        = Given(p, ts, a.type, a.next) \union Gives(ts, BasesOf(p, a.type)[a.next])
  BY GivenNext
<1> QED
  BY <1>1 DEF HalfGiven

\* A call that begins has what its class has.
LEMMA HalfGivenFresh ==
  ASSUME LoaderInv, NEW c \in DOMAIN program
  PROVE  HalfGiven(program, types, Activation(c))
<1>1. Activation(c).type = c /\ Activation(c).next = 1 /\ Activation(c).data = Known(c)
  BY DEF Activation
<1>2. Given(program, types, c, 1) = {}
  BY GivenNone
<1>3. \A t \in Items(Known(c).parents) : c \in DOMAIN types /\ t \in Items(types[c].parents)
  BY DEF Known, Items
<1> QED
  BY <1>1, <1>2, <1>3 DEF HalfGiven

\* The innermost activation goes on as a, the others stay.
LEMMA KinGoesOn ==
  ASSUME AncestorsInv, loads /= <<>>, NEW later, Alike(types, later),
         NEW a \in Activations, HalfGiven(program, later, a),
         NEW q, q = [loads EXCEPT ![Len(loads)] = a]
  PROVE  /\ q \in Seq(Activations) /\ Len(q) = Len(loads)
         /\ \A k \in DOMAIN q : HalfGiven(program, later, q[k])
<1> DEFINE n == Len(loads)
<1>1. loads \in Seq(Activations) /\ n \in Nat \ {0} /\ DOMAIN loads = 1..n
  BY InnerFacts DEF AncestorsInv
<1>2. /\ q \in Seq(Activations) /\ Len(q) = n /\ q[n] = a
      /\ \A j \in 1..n : j /= n => q[j] = loads[j]
  <2>1. \A b \in Activations : \A r :
          r = [loads EXCEPT ![n] = b]
          => /\ r \in Seq(Activations) /\ Len(r) = n /\ r[n] = b
             /\ \A j \in 1..n : j /= n => r[j] = loads[j]
    BY <1>1, ReplaceLast
  <2>2. q = [loads EXCEPT ![n] = a]
    OBVIOUS
  <2> QED
    BY <2>1, <2>2
<1> HIDE DEF n
<1>3. DOMAIN q = 1..n
  BY <1>2, LenProperties
<1>4. \A k \in DOMAIN q : HalfGiven(program, later, q[k])
  BY <1>1, <1>2, <1>3, KinStays
<1> QED
  BY <1>2, <1>4 DEF n

\* What the table of types has stays alike if it stays.
LEMMA SameAlike == ASSUME NEW ts PROVE Alike(ts, ts)
BY DEF Alike

-----------------------------------------------------------------------------
(* The steps. *)

\* load_all_programtypes comes to a class: the ancestors stay right.
LEMMA LoadClassKin ==
  ASSUME AncestorsInv, LoaderInv', LoadClass
  PROVE  AncestorsInv'
<1>1. PICK c \in toload : loads' = <<Activation(c)>>
  BY DEF LoadClass
<1>2. types' = types /\ program' = program
  BY DEF LoadClass
<1>3. c \in DOMAIN program
  BY DEF AncestorsInv, LoaderInv, Typed
<1>4. HalfGiven(program, types, Activation(c))
  BY <1>3, HalfGivenFresh DEF AncestorsInv
<1>5. DOMAIN loads' = {1} /\ loads'[1] = Activation(c)
  BY <1>1
<1>6. \A k \in DOMAIN loads' : HalfGiven(program, types, loads'[k])
  BY <1>4, <1>5
<1> QED
  BY <1>2, <1>6 DEF AncestorsInv, AllGiven

\* A class without parents has object for its ancestor.
LEMMA InheritObjectKin ==
  ASSUME AncestorsInv, LoaderInv', InheritObject
  PROVE  AncestorsInv'
<1> DEFINE data == [vtable  |-> Inherit(Inner.data.vtable, types["object"].vtable),
                    parents |-> Append(Inner.data.parents, "object")]
           a == [Inner EXCEPT !.data = data, !.next = 2]
<1>1. /\ loads /= <<>> /\ Parents = <<>> /\ Inner.next = 1
      /\ loads' = [loads EXCEPT ![Len(loads)] = a]
      /\ program' = program /\ types' = types
  BY DEF InheritObject, Running, Continue
<1>2. /\ Inner \in Activations /\ Inner.type \in DOMAIN program
      /\ Inner.data.parents \in Seq(STRING) /\ Inner.data.vtable \in Tables
      /\ Parents = program[Inner.type].parents /\ Len(loads) \in DOMAIN loads
  BY <1>1, InnerFacts DEF AncestorsInv
<1>3. HalfGiven(program, types, Inner)
  BY <1>2 DEF AncestorsInv, Inner
<1>4. /\ BasesOf(program, Inner.type)[1] = "object" /\ "object" \in STRING
      /\ types["object"].vtable \in Tables
  BY <1>1, <1>2, BasesTyped, NativeTypes DEF AncestorsInv, LoaderInv, Typed, Data
<1>5. data \in Data
  <2>1. Inherit(Inner.data.vtable, types["object"].vtable) \in Tables
    BY <1>2, <1>4, OverTables DEF Inherit
  <2>2. Append(Inner.data.parents, "object") \in Seq(STRING)
    BY <1>2, <1>4, AppendTyped
  <2> QED
    BY <2>1, <2>2 DEF Data
<1>6. Items(data.parents) = Items(Inner.data.parents) \union {"object"}
  BY <1>2, <1>4, ItemsAppend
<1>7. Gives(types, "object") = {"object"}
  BY DEF Gives, AncestorsInv
<1> HIDE DEF data
<1>8. a \in Activations /\ a.type = Inner.type /\ a.next = 2 /\ a.data = data
  BY <1>2, <1>5 DEF Activations
<1> HIDE DEF a
<1>9. HalfGiven(program, types, a)
  BY <1>1, <1>3, <1>4, <1>6, <1>7, <1>8, HalfGivenNext
<1>10. \A k \in DOMAIN loads' : HalfGiven(program, types, loads'[k])
  <2>1. \A q : q = [loads EXCEPT ![Len(loads)] = a]
               => \A k \in DOMAIN q : HalfGiven(program, types, q[k])
    BY <1>1, <1>8, <1>9, SameAlike, KinGoesOn
  <2> QED
    BY <1>1, <2>1
<1> QED
  BY <1>1, <1>10 DEF AncestorsInv, AllGiven

\* A call for a parent changes no ancestors.
LEMMA LoadParentKin ==
  ASSUME AncestorsInv, LoaderInv', LoadParent
  PROVE  AncestorsInv'
<1> DEFINE a == [Inner EXCEPT !.called = TRUE]
           waiting == [loads EXCEPT ![Len(loads)] = a]
<1>1. /\ loads /= <<>> /\ program' = program /\ types' = types
      /\ \/ loads' = waiting \/ loads' = loads
         \/ Parent \in DOMAIN program /\ loads' = Append(waiting, Activation(Parent))
  <2>1. waiting = [loads EXCEPT ![Len(loads)].called = TRUE]
    BY DEF Inner
  <2> QED
    BY <2>1 DEF LoadParent, Running
<1>2. Inner \in Activations /\ Len(loads) \in DOMAIN loads
  BY <1>1, InnerFacts DEF AncestorsInv
<1>3. a \in Activations /\ a.type = Inner.type /\ a.next = Inner.next /\ a.data = Inner.data
  BY <1>2 DEF Activations
<1> HIDE DEF a
<1>4. HalfGiven(program, types, a)
  BY <1>2, <1>3 DEF AncestorsInv, Inner, HalfGiven
<1>5. /\ waiting \in Seq(Activations)
      /\ \A k \in DOMAIN waiting : HalfGiven(program, types, waiting[k])
  <2>1. \A q : q = [loads EXCEPT ![Len(loads)] = a]
               => /\ q \in Seq(Activations)
                  /\ \A k \in DOMAIN q : HalfGiven(program, types, q[k])
    BY <1>1, <1>3, <1>4, SameAlike, KinGoesOn
  <2> QED
    BY <2>1
<1> HIDE DEF waiting
<1>6. CASE Parent \in DOMAIN program /\ loads' = Append(waiting, Activation(Parent))
  <2>1. Activation(Parent) \in Activations /\ HalfGiven(program, types, Activation(Parent))
    BY <1>6, FreshActivation, HalfGivenFresh DEF AncestorsInv
  <2> DEFINE b == Activation(Parent)
             q == Append(waiting, b)
  <2> HIDE DEF b
  <2>2. /\ q \in Seq(Activations) /\ Len(q) = Len(waiting) + 1 /\ q[Len(waiting) + 1] = b
        /\ \A k \in 1..Len(waiting) : q[k] = waiting[k]
    BY <1>5, <2>1, AppendProperties DEF b
  <2>3. DOMAIN q = 1..Len(waiting) + 1 /\ DOMAIN waiting = 1..Len(waiting) /\ Len(waiting) \in Nat
    BY <1>5, <2>2, LenProperties
  <2> HIDE DEF q
  <2>4. \A k \in DOMAIN q : HalfGiven(program, types, q[k])
    BY <1>5, <2>1, <2>2, <2>3 DEF b
  <2> QED
    BY <1>1, <1>6, <2>4 DEF AncestorsInv, AllGiven, q, b
<1>7. CASE loads' = waiting
  BY <1>1, <1>5, <1>7 DEF AncestorsInv, AllGiven
<1>8. CASE loads' = loads
  BY <1>1, <1>8 DEF AncestorsInv, AllGiven
<1> QED
  BY <1>1, <1>6, <1>7, <1>8

\* A parent and its ancestors are ancestors of the class.
LEMMA InheritParentKin ==
  ASSUME AncestorsInv, LoaderInv', InheritParent
  PROVE  AncestorsInv'
<1> DEFINE from == Known(Parent)
           data == [vtable  |-> Inherit(Inner.data.vtable, from.vtable),
                    parents |-> WithAncestors(Inner.data.parents, Parent)]
           a == Stepped(Inner, data)
<1>1. /\ loads /= <<>> /\ Inner.next <= Len(Parents) /\ Inner.called
      /\ loads' = [loads EXCEPT ![Len(loads)] = a]
      /\ program' = program
      /\ types' = Over(types, Entry(Parent, from))
  BY Zenon DEF InheritParent, Running, Continue, Stepped, Entry
<1>2. /\ Inner \in Activations /\ Inner.type \in DOMAIN program
      /\ Inner.next \in Nat \ {0} /\ Inner.data.vtable \in Tables
      /\ Inner.data.parents \in Seq(STRING) /\ Parents = program[Inner.type].parents
      /\ Parent \in STRING /\ BasesOf(program, Inner.type) = Parents
      /\ Len(loads) \in DOMAIN loads /\ Len(loads) \in Nat /\ DOMAIN loads = 1..Len(loads)
      /\ Halfway(program, types, Inner)
  BY <1>1, InnerFacts DEF AncestorsInv
<1>3. from \in Data /\ (Parent \in DOMAIN types => from = types[Parent])
  BY KnownData DEF AncestorsInv, LoaderInv
<1>4. /\ DOMAIN types' = DOMAIN types \union {Parent} /\ types'[Parent] = from
      /\ \A t \in DOMAIN types : types'[t] = types[t]
  <2> HIDE DEF from
  <2>1. LET later == Over(types, Entry(Parent, from))
        IN  /\ DOMAIN later = DOMAIN types \union {Parent}
            /\ \A t \in DOMAIN types : later[t] = types[t]
            /\ Parent \notin DOMAIN types => later[Parent] = from
    BY DEF Over, Entry
  <2> QED
    BY <1>1, <1>3, <2>1
<1>5. Alike(types, types')
  BY <1>4 DEF Alike
<1>6. Parent \in DOMAIN program => Parent \in DOMAIN types
  <2>1. /\ loads[Len(loads)].called
        /\ program[loads[Len(loads)].type].parents[loads[Len(loads)].next] = Parent
    BY <1>1, <1>2 DEF Inner, Parent
  <2> QED
    BY <1>2, <2>1 DEF AncestorsInv, LoaderInv, Answered
<1>7. data \in Data
  <2>1. Inherit(Inner.data.vtable, from.vtable) \in Tables
    BY <1>2, <1>3, OverTables DEF Inherit, Data
  <2>2. Append(Inner.data.parents, Parent) \in Seq(STRING)
    BY <1>2, AppendTyped
  <2>3. WithAncestors(Inner.data.parents, Parent) \in Seq(STRING)
    BY <1>3, <2>2, ConcatProperties DEF WithAncestors, Data
  <2> QED
    BY <2>1, <2>3 DEF Data
<1>8. Items(data.parents) = Items(Inner.data.parents) \union {Parent} \union Items(from.parents)
  <2>1. Append(Inner.data.parents, Parent) \in Seq(STRING) /\ from.parents \in Seq(STRING)
    BY <1>2, <1>3, AppendTyped DEF Data
  <2>2. Items(Append(Inner.data.parents, Parent) \o from.parents)
          = Items(Append(Inner.data.parents, Parent)) \union Items(from.parents)
    BY <2>1, ItemsConcat
  <2>3. Items(Append(Inner.data.parents, Parent)) = Items(Inner.data.parents) \union {Parent}
    BY <1>2, ItemsAppend
  <2> QED
    BY <2>2, <2>3 DEF WithAncestors
<1> HIDE DEF data
<1>9. a \in Activations /\ a.type = Inner.type /\ a.next = Inner.next + 1 /\ a.data = data
  BY <1>2, <1>7, SteppedIs
<1> HIDE DEF a, from
<1>10. HalfGiven(program, types', a)
  <2>1. HalfGiven(program, types', Inner)
    BY <1>2, <1>5, HalfGivenAlike DEF AncestorsInv, Inner
  <2>2. Gives(types', BasesOf(program, Inner.type)[Inner.next]) = {Parent} \union Items(from.parents)
    BY <1>2, <1>4 DEF Gives, Parent
  <2>3. Items(a.data.parents) = Items(Inner.data.parents)
                                  \union Gives(types', BasesOf(program, Inner.type)[Inner.next])
    BY <1>8, <1>9, <2>2
  <2> QED
    BY <1>2, <1>9, <2>1, <2>3, HalfGivenNext
<1>11. \A k \in DOMAIN loads' : HalfGiven(program, types', loads'[k])
  <2>1. \A q : q = [loads EXCEPT ![Len(loads)] = a]
               => \A k \in DOMAIN q : HalfGiven(program, types', q[k])
    BY <1>1, <1>5, <1>9, <1>10, KinGoesOn
  <2> QED
    BY <1>1, <2>1
<1>12. \A c \in DOMAIN types' \intersect DOMAIN program : AllGiven(program, types', c)
  BY <1>4, <1>5, <1>6, KinStays
<1>13. "object" \in DOMAIN types
  BY NativeTypes DEF AncestorsInv, LoaderInv, Typed
<1> QED
  BY <1>1, <1>4, <1>11, <1>12, <1>13 DEF AncestorsInv

\* A class that returns has the ancestors its bases gave it, now and before.
LEMMA DefineMethodsKin ==
  ASSUME AncestorsInv, LoaderInv', DefineMethods
  PROVE  AncestorsInv'
<1> DEFINE c == Inner.type
           data == [Inner.data EXCEPT !.vtable = Over(Own(c, program[c].methods), @)]
           n == Len(loads) - 1
           bases == Len(BasesOf(program, c)) + 1
<1>1. /\ Inner \in Activations /\ c \in DOMAIN program /\ Halfway(program, types, Inner)
      /\ Inner.next \in Nat \ {0} /\ loads /= <<>> /\ loads \in Seq(Activations)
      /\ Len(loads) \in Nat \ {0} /\ DOMAIN loads = 1..Len(loads)
      /\ Parents \in Seq(STRING) /\ Parents = program[c].parents
  BY InnerFacts DEF DefineMethods, Running, AncestorsInv
<1>2. /\ program' = program /\ loads' = SubSeq(loads, 1, n)
      /\ types' = Over(Entry(c, data), types)
  BY Zenon DEF DefineMethods, Entry
<1>3. data.parents = Inner.data.parents
  BY <1>1 DEF Activations, Data
<1>4. Inner.next = bases
  BY <1>1, AllMerged DEF AncestorsInv
<1> HIDE DEF data
<1>5. /\ DOMAIN types' = DOMAIN types \union {c} /\ types'[c] = data
      /\ \A t \in DOMAIN types \ {c} : types'[t] = types[t]
  <2> HIDE DEF c
  <2> QED
    BY <1>2 DEF Over, Entry
<1>6. HalfGiven(program, types, Inner)
  BY <1>1 DEF AncestorsInv, Inner
<1>7. c \in DOMAIN types => Items(types[c].parents) = Given(program, types, c, bases)
  BY <1>1 DEF AncestorsInv, AllGiven
<1>8. Items(data.parents) = Given(program, types, c, bases)
  <2>1. Given(program, types, c, bases) \subseteq Items(data.parents)
    BY <1>3, <1>4, <1>6 DEF HalfGiven
  <2>2. \A t \in Items(data.parents) : \/ t \in Given(program, types, c, bases)
                                       \/ c \in DOMAIN types /\ t \in Items(types[c].parents)
    BY <1>3, <1>4, <1>6 DEF HalfGiven
  <2> QED
    BY <1>7, <2>1, <2>2
<1>9. Alike(types, types')
  BY <1>5, <1>7, <1>8 DEF Alike
<1>10. AllGiven(program, types', c)
  <2>1. \A i \in 1..bases - 1 : BasesOf(program, c)[i] \in DOMAIN types
    BY <1>1, <1>4 DEF Halfway, Merged
  <2>2. Given(program, types', c, bases) = Given(program, types, c, bases)
    BY <1>9, <2>1, GivenAlike
  <2> QED
    BY <1>5, <1>8, <2>2 DEF AllGiven
<1>11. \A t \in DOMAIN types' \intersect DOMAIN program : AllGiven(program, types', t)
  BY <1>5, <1>9, <1>10, KinStays
<1>12. n \in Nat /\ n + 1 = Len(loads)
  BY <1>1
<1>13. /\ loads' \in Seq(Activations) /\ Len(loads') = n
       /\ \A k \in 1..n : loads'[k] = loads[k]
  BY <1>1, <1>2, <1>12, FrontItems
<1>14. DOMAIN loads' = 1..n
  BY <1>13, LenProperties
<1>15. \A k \in DOMAIN loads' : HalfGiven(program, types', loads'[k])
  BY <1>1, <1>9, <1>12, <1>13, <1>14, KinStays
<1>16. "object" \in DOMAIN types /\ c /= "object"
  BY <1>1, NativeTypes DEF AncestorsInv, LoaderInv, Typed, IsProgram
<1> QED
  BY <1>2, <1>5, <1>11, <1>15, <1>16 DEF AncestorsInv

-----------------------------------------------------------------------------
(* The theorem. *)

\* The native types are no one's children but object's when loading begins.
LEMMA AncestorsInvInit ==
  ASSUME IsProgram(program), types = SysTable, toload = DOMAIN program, loads = <<>>
  PROVE  AncestorsInv
<1>1. LoaderInv
  BY LoaderInvInit
<1>2. DOMAIN types \intersect DOMAIN program = {} /\ DOMAIN loads = {}
  BY SysTyped DEF IsProgram
<1>3. types["object"].parents = <<"object">>
  BY NativeTypes DEF SysTable
<1>4. Items(<<"object">>) = {"object"}
  BY DEF Items
<1> QED
  BY <1>1, <1>2, <1>3, <1>4 DEF AncestorsInv

\* Every step of the loader keeps the invariant.
LEMMA AncestorsInvStep ==
  ASSUME AncestorsInv, [LoaderNext]_loaderVars
  PROVE  AncestorsInv'
<1>1. LoaderInv'
  BY LoaderInvStep DEF AncestorsInv
<1>2. CASE AllLoaded
  BY <1>1, <1>2 DEF AllLoaded, AncestorsInv, AllGiven
<1>3. CASE UNCHANGED loaderVars
  BY <1>1, <1>3 DEF loaderVars, AncestorsInv, AllGiven
<1> QED
  BY <1>1, <1>2, <1>3, LoadClassKin, InheritObjectKin, LoadParentKin, InheritParentKin,
     DefineMethodsKin DEF LoaderNext

\* The invariant says what AncestorsResolve says.
LEMMA InvKnowsAncestors == AncestorsInv => AncestorsResolve
<1> SUFFICES ASSUME AncestorsInv,
                    NEW c \in (DOMAIN types \intersect DOMAIN program) \ DOMAIN SysMethods
             PROVE  {types[c].parents[k] : k \in DOMAIN types[c].parents} =
                      UNION {{Bases(c)[i]} \union {Known(Bases(c)[i]).parents[k] :
                                                     k \in DOMAIN Known(Bases(c)[i]).parents} :
                             i \in DOMAIN Bases(c)}
  BY DEF AncestorsResolve
<1> DEFINE n == Len(Bases(c)) + 1
<1>1. /\ Bases(c) = BasesOf(program, c) /\ n \in Nat /\ DOMAIN Bases(c) = 1..n - 1
  <2>1. Bases(c) = BasesOf(program, c) /\ Bases(c) \in Seq(STRING)
    BY BasesTyped DEF Bases, BasesOf, AncestorsInv, LoaderInv, Typed
  <2> QED
    BY <2>1, LenProperties
<1>2. Items(types[c].parents) = Given(program, types, c, n)
  BY <1>1 DEF AncestorsInv, AllGiven
<1>3. \A i \in 1..n - 1 : BasesOf(program, c)[i] \in DOMAIN types
  BY <1>1 DEF AncestorsInv, LoaderInv, Resolved, Merged
<1>4. \A i \in 1..n - 1 : Known(Bases(c)[i]) = types[BasesOf(program, c)[i]]
  BY <1>1, <1>3 DEF Known
<1> HIDE DEF n
<1>5. \A i \in DOMAIN Bases(c) :
        {Bases(c)[i]} \union {Known(Bases(c)[i]).parents[k] :
                                k \in DOMAIN Known(Bases(c)[i]).parents}
          = Gives(types, BasesOf(program, c)[i])
  BY <1>1, <1>4 DEF Gives, Items
<1>6. Given(program, types, c, n) = UNION {Gives(types, BasesOf(program, c)[i]) : i \in DOMAIN Bases(c)}
  BY <1>1 DEF Given
<1>7. UNION {Gives(types, BasesOf(program, c)[i]) : i \in DOMAIN Bases(c)}
        = UNION {{Bases(c)[i]} \union {Known(Bases(c)[i]).parents[k] :
                                         k \in DOMAIN Known(Bases(c)[i]).parents} :
                 i \in DOMAIN Bases(c)}
  BY <1>5
<1>8. {types[c].parents[k] : k \in DOMAIN types[c].parents} = Items(types[c].parents)
  BY DEF Items
<1> QED
  BY <1>2, <1>6, <1>7, <1>8

\* The ancestors of every class of every program are its bases and the ancestors of
\* these, whatever native types there are, in whatever order and however often the
\* classes are loaded, and at all times: what `is` answers for an object does not depend
\* on the order of names.
THEOREM AncestorsOfBases == LoaderSpec => []AncestorsResolve
<1>1. LoaderSpec => []AncestorsInv
  BY AncestorsInvInit, AncestorsInvStep, PTL DEF LoaderSpec
<1> QED
  BY <1>1, InvKnowsAncestors, PTL
=============================================================================
