----------------------------- MODULE CodeGenProofs -----------------------------
(***************************************************************************)
(* The code generator emits what the interpreter relies on (Verifier).     *)
(*                                                                         *)
(* The provers have no induction over terms.  What is emitted is therefore *)
(* described as a least set, and shown of it by the lemmas about each      *)
(* emit operator; sums along a piece of code are functions on its indices, *)
(* shown to exist by induction over a set of numbers.                      *)
(***************************************************************************)
EXTENDS CodeGen, CallProofs, FiniteSetTheorems

LOCAL INSTANCE SequencesExt

(***************************************************************************)
(* Induction, over the sets of indices that occur here.                    *)
(***************************************************************************)
\* a set of numbers that is not empty has a least member
LEMMA Least ==
    ASSUME NEW S \in SUBSET Nat, S # {}
    PROVE  \E m \in S : \A n \in S : m <= n
<1>1. PICK s \in S : TRUE
  OBVIOUS
<1> DEFINE A == {k \in 0..s : \A n \in S : k <= n}
<1> DEFINE c == Cardinality(A)
<1>2. A \subseteq 0..s /\ IsFiniteSet(0..s) /\ IsFiniteSet(A)
  <2>1. s \in Int /\ 0 \in Int
    BY <1>1
  <2>2. A \in SUBSET (0..s)
    OBVIOUS
  <2> HIDE DEF A
  <2> QED BY <2>1, <2>2, FS_Interval, FS_Subset
<1>3. c \in Nat
  BY <1>2, FS_CardinalityType
<1>4. \A k \in A : 0..k \subseteq A
  BY <1>1
<1> HIDE DEF c
<1>5. c \notin A
  <2> SUFFICES ASSUME c \in A PROVE FALSE
    OBVIOUS
  <2>1. 0..c \subseteq A
    BY <1>4
  <2>2. Cardinality(0..c) <= c
    BY <2>1, <1>2, FS_Subset DEF c
  <2>3. Cardinality(0..c) = c + 1
    BY <1>3, FS_Interval
  <2> QED BY <2>2, <2>3, <1>3
<1>6. c > 0
  BY <1>1, <1>3, <1>5
<1>7. c - 1 \in A
  <2> SUFFICES ASSUME c - 1 \notin A PROVE FALSE
    OBVIOUS
  <2>1. A \subseteq 0..(c - 2)
    <3> SUFFICES ASSUME NEW k \in A, k > c - 2 PROVE FALSE
      BY <1>2, <1>3
    <3>1. 0..k \subseteq A /\ k \in Nat
      BY <1>4, <1>2
    <3> HIDE DEF A
    <3>2. c - 1 \in 0..k
      BY <3>1, <1>3, <1>6
    <3> QED BY <3>1, <3>2
  <2> HIDE DEF A
  <2>2. Cardinality(A) <= Cardinality(0..(c - 2))
    <3>1. A \in SUBSET (0..(c - 2)) /\ c - 2 \in Int /\ 0 \in Int
      BY <2>1, <1>3
    <3>2. IsFiniteSet(0..(c - 2))
      BY <3>1, FS_Interval
    <3> QED BY <3>1, <3>2, FS_Subset
  <2>3. Cardinality(0..(c - 2)) = c - 1
    BY <1>3, <1>6, FS_Interval
  <2> QED BY <2>2, <2>3, <1>3 DEF c
<1>8. PICK n \in S : n < c
  BY <1>1, <1>3, <1>5, <1>7
<1>9. \A m \in S : c - 1 <= m
  BY <1>7
<1> QED BY <1>3, <1>8, <1>9

\* a set that has 0, and i + 1 whenever it has i, has all numbers up to n
LEMMA Induction ==
    ASSUME NEW n \in Nat, NEW S, 0 \in S, \A i \in 0..(n - 1) : i \in S => i + 1 \in S
    PROVE  \A i \in 0..n : i \in S
<1> SUFFICES ASSUME NEW k \in 0..n, k \notin S PROVE FALSE
  OBVIOUS
<1> DEFINE Out == {i \in 0..n : i \notin S}
<1>1. PICK m \in Out : \A i \in Out : m <= i
  <2>1. Out \in SUBSET Nat /\ Out # {}
    OBVIOUS
  <2> HIDE DEF Out
  <2> QED BY <2>1, Least
<1>2. m - 1 \in 0..(n - 1) /\ m - 1 \notin Out
  BY <1>1
<1> QED BY <1>1, <1>2

\* FlattenSeq appends the sequences one by one; f[i] is what the first i give
LEMMA FlattenPrefixes ==
    ASSUME NEW T, NEW ss \in Seq(Seq(T))
    PROVE  \E f \in [0..Len(ss) -> Seq(T)] :
             /\ f[0] = <<>>
             /\ \A i \in 1..Len(ss) : f[i] = f[i - 1] \o ss[i]
             /\ FlattenSeq(ss) = f[Len(ss)]
<1> DEFINE n == Len(ss)
<1> DEFINE Sums(k, g) == /\ g \in [0..k -> Seq(T)] /\ g[0] = <<>>
                         /\ \A i \in 1..k : g[i] = g[i - 1] \o ss[i]
<1> DEFINE Ok == {k \in 0..n : \E g : Sums(k, g)}
<1>1. n \in Nat /\ \A i \in 1..n : ss[i] \in Seq(T)
  OBVIOUS
<1> HIDE DEF n
<1>2. 0 \in Ok
  <2>1. Sums(0, [i \in 0..0 |-> <<>>])
    BY <1>1
  <2> HIDE DEF Sums
  <2> QED BY <2>1, <1>1
<1>3. ASSUME NEW k \in 0..(n - 1), k \in Ok PROVE k + 1 \in Ok
  <2>1. PICK g : Sums(k, g)
    BY <1>3
  <2> DEFINE g1 == [i \in 0..(k + 1) |-> IF i = k + 1 THEN g[k] \o ss[k + 1] ELSE g[i]]
  <2>2. k + 1 \in 1..n /\ k \in 0..k /\ k \in Nat
    BY <1>1
  <2>3. g[k] \o ss[k + 1] \in Seq(T)
    BY <2>1, <2>2, <1>1
  <2>4. g1 \in [0..(k + 1) -> Seq(T)] 
    BY <2>1, <2>3
  <2>5. g1[0] = <<>>
    BY <2>1, <2>2
  <2>6. ASSUME NEW i \in 1..(k + 1) PROVE g1[i] = g1[i - 1] \o ss[i]
    <3>1. CASE i = k + 1
      <4>1. k + 1 \in 0..(k + 1) /\ k \in 0..(k + 1) /\ k # k + 1 /\ i - 1 = k
        BY <3>1, <2>2
      <4>2. g1[k + 1] = g[k] \o ss[k + 1] /\ g1[k] = g[k]
        BY <4>1
      <4> HIDE DEF g1
      <4> QED BY <4>1, <4>2, <3>1
    <3>2. CASE i # k + 1
      <4>1. i \in 1..k /\ i \in 0..(k + 1) /\ i - 1 \in 0..(k + 1) /\ i - 1 # k + 1
        BY <3>2, <2>2
      <4> QED BY <4>1, <3>2, <2>1
    <3> QED BY <3>1, <3>2
  <2> HIDE DEF g1
  <2>7. Sums(k + 1, g1)
    BY <2>4, <2>5, <2>6
  <2> HIDE DEF Sums
  <2> QED BY <2>7, <2>2, <1>1
<1>4. n \in Ok
  <2> HIDE DEF Ok
  <2>1. \A i \in 0..n : i \in Ok
    BY <1>1, <1>2, <1>3, Induction
  <2> QED BY <2>1, <1>1
<1>5. PICK g : Sums(n, g)
  BY <1>4
<1>6. CASE n = 0
  BY <1>5, <1>6, <1>1 DEF FlattenSeq, n
<1>7. CASE n > 0
  <2> DEFINE IsF(f) == f = [i \in 1..n |-> IF i = 1 THEN ss[i] ELSE f[i - 1] \o ss[i]]
  <2>1. IsF([i \in 1..n |-> g[i]])
    <3>1. g[1] = ss[1]
      <4>1. 1 \in 1..n /\ 1 - 1 = 0
        BY <1>7, <1>1
      <4>2. g[1] = <<>> \o ss[1]
        BY <4>1, <1>5
      <4>3. ss[1] \in Seq(T)
        BY <4>1, <1>1
      <4> QED BY <4>2, <4>3
    <3>2. \A i \in 1..n : i # 1 => i - 1 \in 1..n
      BY <1>1
    <3> QED BY <3>1, <3>2, <1>5
  <2>2. PICK f : IsF(f) /\ FlattenSeq(ss) = f[n]
    <3>1. FlattenSeq(ss) = (CHOOSE f : IsF(f))[n]
      BY <1>7, <1>1 DEF FlattenSeq, n
    <3> QED BY <3>1, <2>1
  <2>3. \A i \in 1..n : f[i] = g[i]
    <3> DEFINE S == {0} \cup {i \in 1..n : f[i] = g[i]}
    <3>1. ASSUME NEW i \in 0..(n - 1), i \in S PROVE i + 1 \in S
      <4>1. i + 1 \in 1..n /\ (i + 1) - 1 = i
        BY <1>1
      <4>2. g[i + 1] = g[i] \o ss[i + 1]
        BY <4>1, <1>5
      <4>3. f[i + 1] = IF i + 1 = 1 THEN ss[i + 1] ELSE f[i] \o ss[i + 1]
        BY <4>1, <2>2
      <4>4. CASE i = 0
        BY <4>1, <4>2, <4>3, <4>4, <1>5, <1>1
      <4>5. CASE i # 0
        <5>1. f[i] = g[i] /\ i + 1 # 1
          BY <4>5, <3>1
        <5> QED BY <4>1, <4>2, <4>3, <5>1
      <4> QED BY <4>4, <4>5
    <3>2. 0 \in S
      OBVIOUS
    <3>3. \A i \in 0..n : i \in S
      <4> HIDE DEF S
      <4> QED BY <3>1, <3>2, <1>1, Induction
    <3> QED BY <3>3
  <2>4. FlattenSeq(ss) = g[n]
    BY <2>2, <2>3, <1>7, <1>1
  <2> QED BY <2>4, <1>5 DEF n
<1>8. n = 0 \/ n > 0
  BY <1>1
<1> QED BY <1>6, <1>7, <1>8

(***************************************************************************)
(* Code as emitted: instructions without marks, so without try blocks, and *)
(* with relative jumps.  C says which names a program uses and which of its*)
(* classes have a constructor.                                             *)
(***************************************************************************)
Opcodes ==
    {"ld", "ldthis", "ldloc", "stloc", "ldprop", "stprop", "dup", "pop", "binary", "equal", "arith", "add",
     "jmp", "jmp_true", "jmp_false", "call", "vcall", "syscall", "setcallee", "newobj", "newarr",
     "ret", "throw", "nop"}
Names(C) == {"", "equal", "get_iterator", "current", "move_next"} \cup C.names
Modes == {"plain", "prints", "fails"}
Records(C) ==
    [op : Opcodes, v : Value, k : Int, n : Nat, name : Names(C), mode : Modes, arity : Nat,
     marks : {<<>>}]
Instructions(C) == {i \in Records(C) : i.op = "newobj" => i.n = 0 \/ i.name \in C.ctors}
Codes(C) == Seq(Instructions(C))

\* Rise(c)[i] is how much the first i instructions of c, one after the other, grow the stack.
Rising(c, r) ==
    /\ r \in [0..Len(c) -> Int] /\ r[0] = 0
    /\ \A i \in 1..Len(c) : r[i] = r[i - 1] + Effect(c[i])
Rise(c) == CHOOSE r : Rising(c, r)

\* Instruction i of c finds its operands when c begins with d of them.  A jump leads into c or to its
\* end, to where the stack is as high as at the jump; a return finds one operand, and only where returns
\* are allowed.
At(c, d, ends, i) ==
    /\ d + Rise(c)[i - 1] >= Needs(c[i])
    /\ c[i].op \in Jumps => i + c[i].k \in 1..(Len(c) + 1) /\ Rise(c)[i + c[i].k - 1] = Rise(c)[i]
    /\ c[i].op = "ret" => ends = "returns" /\ d + Rise(c)[i - 1] = 1

\* c, with d operands to begin with, grows the stack by m
Runs(C, c, d, m, ends) ==
    /\ c \in Codes(C)
    /\ Rise(c)[Len(c)] = m
    /\ \A i \in 1..Len(c) : At(c, d, ends, i)

\* p is the part of c after the first o instructions
Stands(p, c, o) == o \in Nat /\ o + Len(p) <= Len(c) /\ \A i \in 1..Len(p) : c[o + i] = p[i]

\* what Effect and Needs give of an instruction that is emitted, and of those of a piece of code
LEMMA Counts ==
    ASSUME NEW C, NEW i \in Instructions(C)
    PROVE  Effect(i) \in Int /\ Needs(i) \in Nat
BY DEF Effect, Needs, Instructions, Records

LEMMA CodeFacts ==
    ASSUME NEW C, NEW c \in Codes(C)
    PROVE  Len(c) \in Nat /\ \A i \in 1..Len(c) : c[i] \in Instructions(C) /\ Effect(c[i]) \in Int /\ Needs(c[i]) \in Nat
<1>1. Len(c) \in Nat /\ \A i \in 1..Len(c) : c[i] \in Instructions(C)
  BY DEF Codes
<1> QED BY <1>1, Counts

\* there is such a function for every piece of code
LEMMA RiseFacts ==
    ASSUME NEW C, NEW c \in Codes(C)
    PROVE  Rising(c, Rise(c))
<1> DEFINE n == Len(c)
<1> DEFINE Sums(k, g) == /\ g \in [0..k -> Int] /\ g[0] = 0
                         /\ \A i \in 1..k : g[i] = g[i - 1] + Effect(c[i])
<1> DEFINE Ok == {k \in 0..n : \E g : Sums(k, g)}
<1>1. n \in Nat /\ \A i \in 1..n : Effect(c[i]) \in Int
  BY CodeFacts
<1> HIDE DEF n
<1>2. 0 \in Ok
  <2>1. Sums(0, [i \in 0..0 |-> 0])
    BY <1>1
  <2> HIDE DEF Sums
  <2> QED BY <2>1, <1>1
<1>3. ASSUME NEW k \in 0..(n - 1), k \in Ok PROVE k + 1 \in Ok
  <2>1. PICK g : Sums(k, g)
    BY <1>3
  <2> DEFINE g1 == [i \in 0..(k + 1) |-> IF i = k + 1 THEN g[k] + Effect(c[k + 1]) ELSE g[i]]
  <2>2. k + 1 \in 1..n /\ k \in 0..k /\ k \in Nat
    BY <1>1
  <2>3. g[k] + Effect(c[k + 1]) \in Int
    BY <2>1, <2>2, <1>1
  <2>4. g1 \in [0..(k + 1) -> Int] 
    BY <2>1, <2>3
  <2>5. g1[0] = 0
    BY <2>1, <2>2
  <2>6. ASSUME NEW i \in 1..(k + 1) PROVE g1[i] = g1[i - 1] + Effect(c[i])
    <3>1. CASE i = k + 1
      <4>1. k + 1 \in 0..(k + 1) /\ k \in 0..(k + 1) /\ k # k + 1 /\ i - 1 = k
        BY <3>1, <2>2
      <4>2. g1[k + 1] = g[k] + Effect(c[k + 1]) /\ g1[k] = g[k]
        BY <4>1
      <4> HIDE DEF g1
      <4> QED BY <4>1, <4>2, <3>1
    <3>2. CASE i # k + 1
      <4>1. i \in 1..k /\ i \in 0..(k + 1) /\ i - 1 \in 0..(k + 1) /\ i - 1 # k + 1
        BY <3>2, <2>2
      <4> QED BY <4>1, <3>2, <2>1
    <3> QED BY <3>1, <3>2
  <2> HIDE DEF g1
  <2>7. Sums(k + 1, g1)
    BY <2>4, <2>5, <2>6
  <2> HIDE DEF Sums
  <2> QED BY <2>7, <2>2, <1>1
<1>4. n \in Ok
  <2> HIDE DEF Ok
  <2>1. \A i \in 0..n : i \in Ok
    BY <1>1, <1>2, <1>3, Induction
  <2> QED BY <2>1, <1>1
<1>5. \E g : Rising(c, g)
  BY <1>4 DEF Rising, n
<1> QED BY <1>5 DEF Rise

\* a part grows the stack as it does where it stands alone
LEMMA RiseInside ==
    ASSUME NEW C, NEW c \in Codes(C), NEW p \in Codes(C), NEW o, Stands(p, c, o)
    PROVE  \A i \in 0..Len(p) : /\ Rise(c)[o + i] = Rise(c)[o] + Rise(p)[i]
                                /\ Rise(p)[i] \in Int /\ Rise(c)[o] \in Int
<1>1. /\ Len(p) \in Nat /\ Len(c) \in Nat /\ o \in Nat /\ o + Len(p) <= Len(c)
      /\ \A i \in 1..Len(p) : c[o + i] = p[i]
  BY CodeFacts DEF Stands
<1>2. Rising(c, Rise(c)) /\ Rising(p, Rise(p))
  BY RiseFacts
<1> DEFINE S == {i \in 0..Len(p) : Rise(c)[o + i] = Rise(c)[o] + Rise(p)[i]}
<1>3. 0 \in S
  <2>1. o \in 0..Len(c) /\ 0 \in 0..Len(p) /\ o + 0 = o
    BY <1>1
  <2>2. Rise(c)[o] \in Int /\ Rise(p)[0] = 0
    BY <1>2, <2>1 DEF Rising
  <2> QED BY <2>1, <2>2
<1>4. ASSUME NEW i \in 0..(Len(p) - 1), i \in S PROVE i + 1 \in S
  <2>1. /\ i + 1 \in 1..Len(p) /\ o + (i + 1) \in 1..Len(c) /\ (i + 1) - 1 = i
        /\ (o + (i + 1)) - 1 = o + i /\ i \in 0..Len(p) /\ o \in 0..Len(c)
    BY <1>1
  <2>2. Rise(p)[i + 1] = Rise(p)[i] + Effect(p[i + 1])
    BY <1>2, <2>1 DEF Rising
  <2>3. Rise(c)[o + (i + 1)] = Rise(c)[o + i] + Effect(c[o + (i + 1)])
    BY <1>2, <2>1 DEF Rising
  <2>4. c[o + (i + 1)] = p[i + 1]
    BY <1>1, <2>1
  <2>5. Rise(c)[o] \in Int /\ Rise(p)[i] \in Int /\ Effect(p[i + 1]) \in Int
    BY <1>2, <2>1, CodeFacts DEF Rising
  <2>6. Rise(c)[o + i] = Rise(c)[o] + Rise(p)[i]
    BY <1>4
  <2>7. Rise(c)[o + (i + 1)] = Rise(c)[o] + Rise(p)[i + 1]
    BY ONLY <2>2, <2>3, <2>4, <2>5, <2>6
  <2>8. i + 1 \in 0..Len(p)
    BY <2>1, <1>1
  <2> QED BY <2>7, <2>8
<1>5. \A i \in 0..Len(p) : i \in S
  <2> HIDE DEF S
  <2> QED BY <1>1, <1>3, <1>4, Induction
<1>6. o \in 0..Len(c)
  BY <1>1
<1> QED BY <1>2, <1>5, <1>6 DEF Rising

\* a part is as it should be where there are as many operands as it needs alone
LEMMA Part ==
    ASSUME NEW C, NEW c \in Codes(C), NEW p, NEW o, Stands(p, c, o), NEW d \in Int, NEW ends,
           NEW dp \in Int, NEW m, NEW mine, Runs(C, p, dp, m, mine),
           d + Rise(c)[o] >= dp, mine = "returns" => ends = "returns" /\ d + Rise(c)[o] = dp
    PROVE  /\ Rise(c)[o + Len(p)] = Rise(c)[o] + m /\ m \in Int
           /\ \A i \in 1..Len(p) : At(c, d, ends, o + i)
<1>1. p \in Codes(C) /\ Rise(p)[Len(p)] = m /\ \A i \in 1..Len(p) : At(p, dp, mine, i)
  BY DEF Runs
<1>2. /\ Len(p) \in Nat /\ Len(c) \in Nat /\ o \in Nat /\ o + Len(p) <= Len(c)
      /\ \A i \in 1..Len(p) : c[o + i] = p[i]
  BY <1>1, CodeFacts DEF Stands
<1>3. \A i \in 0..Len(p) : /\ Rise(c)[o + i] = Rise(c)[o] + Rise(p)[i]
                           /\ Rise(p)[i] \in Int /\ Rise(c)[o] \in Int
  BY <1>1, RiseInside
<1>4. Rise(c)[o + Len(p)] = Rise(c)[o] + m /\ m \in Int
  BY <1>1, <1>2, <1>3
<1>5. ASSUME NEW i \in 1..Len(p) PROVE At(c, d, ends, o + i)
  <2> DEFINE inst == p[i]
  <2>1. i - 1 \in 0..Len(p) /\ i \in 0..Len(p) /\ (o + i) - 1 = o + (i - 1)
    BY <1>2
  <2>2. c[o + i] = inst /\ inst \in Instructions(C) /\ Needs(inst) \in Nat /\ inst.k \in Int
    BY <1>1, <1>2, CodeFacts DEF Instructions, Records
  <2>3. At(p, dp, mine, i)
    BY <1>1
  <2> HIDE DEF inst
  <2>4. /\ dp + Rise(p)[i - 1] >= Needs(inst)
        /\ inst.op = "ret" => mine = "returns" /\ dp + Rise(p)[i - 1] = 1
        /\ inst.op \in Jumps => i + inst.k \in 1..(Len(p) + 1) /\ Rise(p)[i + inst.k - 1] = Rise(p)[i]
    BY <2>3 DEF At, inst
  <2>5. d + Rise(c)[(o + i) - 1] >= Needs(inst)
    BY <2>4, <2>1, <2>2, <1>3
  <2>6. inst.op = "ret" => ends = "returns" /\ d + Rise(c)[(o + i) - 1] = 1
    BY <2>4, <2>1, <1>3
  <2>7. ASSUME inst.op \in Jumps
        PROVE  o + i + inst.k \in 1..(Len(c) + 1) /\ Rise(c)[o + i + inst.k - 1] = Rise(c)[o + i]
    <3>0. /\ i + inst.k \in 1..(Len(p) + 1) /\ Rise(p)[i + inst.k - 1] = Rise(p)[i]
          /\ i \in Int /\ inst.k \in Int /\ o \in Int /\ Len(p) \in Nat /\ Len(c) \in Nat /\ o >= 0
          /\ o + Len(p) <= Len(c)
      BY <2>4, <2>7, <2>2, <1>2
    <3>1. i + inst.k - 1 \in 0..Len(p) /\ o + i + inst.k - 1 = o + (i + inst.k - 1)
      <4>1. i + inst.k \in 1..(Len(p) + 1) /\ i \in Int /\ inst.k \in Int /\ o \in Int /\ Len(p) \in Nat
        BY <3>0
      <4> QED BY ONLY <4>1
    <3>2. Rise(c)[o + (i + inst.k - 1)] = Rise(c)[o] + Rise(p)[i]
      BY <3>1, <1>3, <3>0
    <3>3. o + i + inst.k \in 1..(Len(c) + 1)
      BY ONLY <3>0
    <3> QED BY <3>1, <3>2, <3>3, <2>1, <1>3
  <2> QED BY <2>2, <2>5, <2>6, <2>7 DEF At
<1> QED BY <1>4, <1>5
\* how pieces stand in what they are put together to
LEMMA Whole ==
    ASSUME NEW C, NEW c \in Codes(C)
    PROVE  Stands(c, c, 0)
BY CodeFacts DEF Stands

LEMMA Cat ==
    ASSUME NEW C, NEW a \in Codes(C), NEW b \in Codes(C)
    PROVE  /\ a \o b \in Codes(C) /\ Len(a \o b) = Len(a) + Len(b)
           /\ Stands(a, a \o b, 0) /\ Stands(b, a \o b, Len(a))
<1>1. /\ a \o b \in Seq(Instructions(C)) /\ Len(a \o b) = Len(a) + Len(b)
      /\ \A i \in 1..(Len(a) + Len(b)) : (a \o b)[i] = IF i <= Len(a) THEN a[i] ELSE b[i - Len(a)]
  BY ConcatProperties DEF Codes
<1>2. Len(a) \in Nat /\ Len(b) \in Nat
  BY CodeFacts
<1>3. ASSUME NEW i \in 1..Len(a) PROVE (a \o b)[0 + i] = a[i]
  BY <1>1, <1>2
<1>4. ASSUME NEW i \in 1..Len(b) PROVE (a \o b)[Len(a) + i] = b[i]
  <2>1. Len(a) + i \in 1..(Len(a) + Len(b)) /\ ~(Len(a) + i <= Len(a)) /\ (Len(a) + i) - Len(a) = i
    BY <1>2
  <2> QED BY <2>1, <1>1
<1> QED BY <1>1, <1>2, <1>3, <1>4 DEF Stands, Codes

LEMMA Splits ==
    ASSUME NEW C, NEW a \in Codes(C), NEW b \in Codes(C), NEW c, NEW o, Len(c) \in Nat, Stands(a \o b, c, o)
    PROVE  Stands(a, c, o) /\ Stands(b, c, o + Len(a))
<1>1. /\ Len(a \o b) = Len(a) + Len(b) /\ Len(a) \in Nat /\ Len(b) \in Nat
      /\ \A i \in 1..Len(a) : (a \o b)[0 + i] = a[i]
      /\ \A i \in 1..Len(b) : (a \o b)[Len(a) + i] = b[i]
  BY Cat, CodeFacts DEF Stands
<1>2. o \in Nat /\ o + (Len(a) + Len(b)) <= Len(c) /\ \A i \in 1..(Len(a) + Len(b)) : c[o + i] = (a \o b)[i]
  BY <1>1 DEF Stands
<1>3. ASSUME NEW i \in 1..Len(a) PROVE c[o + i] = a[i]
  <2>1. i \in 1..(Len(a) + Len(b)) /\ 0 + i = i
    BY <1>1
  <2> QED BY <2>1, <1>1, <1>2
<1>4. ASSUME NEW i \in 1..Len(b) PROVE c[o + Len(a) + i] = b[i]
  <2>1. Len(a) + i \in 1..(Len(a) + Len(b)) /\ o + Len(a) + i = o + (Len(a) + i)
    BY <1>1, <1>2
  <2> QED BY <2>1, <1>1, <1>2
<1> QED BY <1>1, <1>2, <1>3, <1>4 DEF Stands

\* two pieces of which the first leaves what the second needs
LEMMA Both ==
    ASSUME NEW C, NEW a, NEW b, NEW d \in Int, NEW e \in Int, NEW m, NEW n, NEW s, NEW t, NEW ends,
           Runs(C, a, d, m, s), Runs(C, b, e, n, t), d + m >= e,
           s = "returns" => ends = "returns", t = "returns" => ends = "returns" /\ e = d + m
    PROVE  Runs(C, a \o b, d, m + n, ends)
<1> DEFINE c == a \o b
<1>1. a \in Codes(C) /\ b \in Codes(C)
  BY DEF Runs
<1>2. Len(a) \in Nat /\ Len(b) \in Nat
  BY <1>1, CodeFacts
<1>3. c \in Codes(C) /\ Len(c) = Len(a) + Len(b) /\ Stands(a, c, 0) /\ Stands(b, c, Len(a))
  BY <1>1, Cat
<1> HIDE DEF c
<1>4. Rise(c)[0] = 0
  BY <1>3, RiseFacts DEF Rising
<1>5. /\ Rise(c)[0 + Len(a)] = 0 + m /\ m \in Int
      /\ \A i \in 1..Len(a) : At(c, d, ends, 0 + i)
  <2>1. d + Rise(c)[0] >= d /\ (s = "returns" => ends = "returns" /\ d + Rise(c)[0] = d)
    BY <1>4
  <2>2. /\ Rise(c)[0 + Len(a)] = Rise(c)[0] + m /\ m \in Int
        /\ \A i \in 1..Len(a) : At(c, d, ends, 0 + i)
    BY <1>3, <2>1, Part
  <2> QED BY <2>2, <1>4
<1>6. Rise(c)[Len(a)] = m
  BY <1>5, <1>2
<1>7. /\ Rise(c)[Len(a) + Len(b)] = m + n
      /\ \A i \in 1..Len(b) : At(c, d, ends, Len(a) + i)
  <2>1. d + Rise(c)[Len(a)] >= e /\ (t = "returns" => ends = "returns" /\ d + Rise(c)[Len(a)] = e)
    BY <1>6
  <2>2. /\ Rise(c)[Len(a) + Len(b)] = Rise(c)[Len(a)] + n
        /\ \A i \in 1..Len(b) : At(c, d, ends, Len(a) + i)
    <3>1. PICK o : o = Len(a)
      OBVIOUS
    <3>2. Stands(b, c, o) /\ d + Rise(c)[o] >= e /\ (t = "returns" => ends = "returns" /\ d + Rise(c)[o] = e)
      BY <1>3, <2>1, <3>1
    <3>3. /\ Rise(c)[o + Len(b)] = Rise(c)[o] + n
          /\ \A i \in 1..Len(b) : At(c, d, ends, o + i)
      <4>1. c \in Codes(C) /\ d \in Int /\ e \in Int /\ Runs(C, b, e, n, t)
        BY <1>3
      <4> QED BY ONLY <4>1, <3>2, Part
    <3> QED BY <3>1, <3>3
  <2> QED BY <2>2, <1>6
<1>8. ASSUME NEW i \in 1..Len(c) PROVE At(c, d, ends, i)
  <2>1. CASE i <= Len(a)
    <3>1. i \in 1..Len(a) /\ 0 + i = i
      BY <2>1, <1>2, <1>3
    <3> QED BY <3>1, <1>5
  <2>2. CASE i > Len(a)
    <3>1. PICK j \in 1..Len(b) : Len(a) + j = i
      <4>1. i - Len(a) \in 1..Len(b) /\ Len(a) + (i - Len(a)) = i
        BY <2>2, <1>2, <1>3
      <4> QED BY <4>1
    <3> QED BY <3>1, <1>7
  <2> QED BY <2>1, <2>2, <1>2, <1>3
<1>9. Runs(C, c, d, m + n, ends)
  BY <1>3, <1>7, <1>8 DEF Runs
<1> QED BY <1>9 DEF c

\* code that needs d operands may find more of them, unless it returns
LEMMA Higher ==
    ASSUME NEW C, NEW c, NEW d \in Int, NEW e \in Int, NEW m, NEW s, NEW ends, Runs(C, c, d, m, s), e >= d,
           s = "returns" => ends = "returns" /\ e = d
    PROVE  Runs(C, c, e, m, ends)
<1>1. c \in Codes(C)
  BY DEF Runs
<1>2. Len(c) \in Nat /\ Rise(c)[0] = 0 /\ Stands(c, c, 0)
  BY <1>1, CodeFacts, RiseFacts, Whole DEF Rising
<1>3. e + Rise(c)[0] >= d /\ (s = "returns" => ends = "returns" /\ e + Rise(c)[0] = d)
  BY <1>2
<1>4. \A i \in 1..Len(c) : At(c, e, ends, 0 + i)
  BY <1>1, <1>2, <1>3, Part
<1>5. \A i \in 1..Len(c) : 0 + i = i
  BY <1>2
<1> QED BY <1>4, <1>5 DEF Runs

\* no code, and one instruction that is not a jump
LEMMA Nil ==
    ASSUME NEW C, NEW d \in Int, NEW ends PROVE Runs(C, <<>>, d, 0, ends)
<1>1. <<>> \in Codes(C) /\ Len(<<>>) = 0
  BY DEF Codes
<1>2. Rise(<<>>)[0] = 0
  BY <1>1, RiseFacts DEF Rising
<1> QED BY <1>1, <1>2 DEF Runs

LEMMA One ==
    ASSUME NEW C, NEW i \in Instructions(C), NEW d \in Int, d >= Needs(i), i.op \notin Jumps, NEW ends,
           i.op = "ret" => ends = "returns" /\ d = 1
    PROVE  Runs(C, <<i>>, d, Effect(i), ends)
<1> DEFINE c == <<i>>
<1>1. c \in Codes(C) /\ Len(c) = 1 /\ c[1] = i
  BY DEF Codes
<1> HIDE DEF c
<1>2. Rising(c, Rise(c))
  BY <1>1, RiseFacts
<1>3. Effect(i) \in Int /\ Needs(i) \in Nat
  BY Counts
<1>4. Rise(c)[0] = 0 /\ Rise(c)[1] = Rise(c)[0] + Effect(c[1])
  BY <1>1, <1>2 DEF Rising
<1>5. Rise(c)[1] = Effect(i)
  BY <1>4, <1>1, <1>3
<1>6. d + Rise(c)[0] = d
  BY <1>4
<1>7. At(c, d, ends, 1)
  BY <1>1, <1>6 DEF At
<1>8. Runs(C, c, d, Effect(i), ends)
  BY <1>1, <1>5, <1>7 DEF Runs
<1> QED BY <1>8 DEF c

(***************************************************************************)
(* Single instructions: what the operators of CodeGen make, what it takes  *)
(* from the stack and what it leaves there.                                *)
(***************************************************************************)
Is(C, i, op, k, n, name, arity) ==
    i \in Records(C) /\ i.op = op /\ i.k = k /\ i.n = n /\ i.name = name /\ i.arity = arity

LEMMA Bare ==
    ASSUME NEW C, NEW op \in Opcodes
    PROVE  Is(C, I(op), op, 0, 0, "", 0)
BY DEF Is, I, Records, Value, Names, Modes

LEMMA Changed ==
    ASSUME NEW C, NEW i, NEW op, NEW k, NEW n, NEW name, NEW arity, Is(C, i, op, k, n, name, arity)
    PROVE  /\ \A v1 \in Value : Is(C, [i EXCEPT !.v = v1], op, k, n, name, arity)
           /\ \A k1 \in Int : Is(C, [i EXCEPT !.k = k1], op, k1, n, name, arity)
           /\ \A n1 \in Nat : Is(C, [i EXCEPT !.n = n1], op, k, n1, name, arity)
           /\ \A name1 \in Names(C) : Is(C, [i EXCEPT !.name = name1], op, k, n, name1, arity)
           /\ \A arity1 \in Nat : Is(C, [i EXCEPT !.arity = arity1], op, k, n, name, arity1)
           /\ \A mode \in Modes : Is(C, [i EXCEPT !.mode = mode], op, k, n, name, arity)
<1>1. \A v1 \in Value : Is(C, [i EXCEPT !.v = v1], op, k, n, name, arity)
  BY DEF Is, Records
<1>2. \A k1 \in Int : Is(C, [i EXCEPT !.k = k1], op, k1, n, name, arity)
  BY DEF Is, Records
<1>3. \A n1 \in Nat : Is(C, [i EXCEPT !.n = n1], op, k, n1, name, arity)
  BY DEF Is, Records
<1>4. \A name1 \in Names(C) : Is(C, [i EXCEPT !.name = name1], op, k, n, name1, arity)
  BY DEF Is, Records
<1>5. \A arity1 \in Nat : Is(C, [i EXCEPT !.arity = arity1], op, k, n, name, arity1)
  BY DEF Is, Records
<1>6. \A mode \in Modes : Is(C, [i EXCEPT !.mode = mode], op, k, n, name, arity)
  BY DEF Is, Records
<1> QED BY <1>1, <1>2, <1>3, <1>4, <1>5, <1>6

LEMMA Loading ==
    ASSUME NEW C, NEW v \in Value
    PROVE  Is(C, Ld(v), "ld", 0, 0, "", 0)
<1>1. Is(C, I("ld"), "ld", 0, 0, "", 0)
  BY Bare DEF Opcodes
<1> QED BY <1>1, Changed DEF Ld

LEMMA Offset ==
    ASSUME NEW C, NEW op \in Opcodes, NEW k \in Int
    PROVE  Is(C, Local(op, k), op, k, 0, "", 0) /\ Is(C, Rel(op, k), op, k, 0, "", 0)
BY Bare, Changed DEF Local, Rel

LEMMA Named ==
    ASSUME NEW C, NEW op \in Opcodes, NEW name \in Names(C)
    PROVE  Is(C, [I(op) EXCEPT !.name = name], op, 0, 0, name, 0)
BY Bare, Changed

LEMMA Counted ==
    ASSUME NEW C, NEW op \in Opcodes, NEW n \in Nat
    PROVE  Is(C, [I(op) EXCEPT !.n = n], op, 0, n, "", 0)
BY Bare, Changed

LEMMA NamedCounted ==
    ASSUME NEW C, NEW op \in Opcodes, NEW n \in Nat, NEW name \in Names(C)
    PROVE  Is(C, [I(op) EXCEPT !.name = name, !.n = n], op, 0, n, name, 0)
<1>1. Is(C, [I(op) EXCEPT !.name = name], op, 0, 0, name, 0)
  BY Named
<1>2. [I(op) EXCEPT !.name = name, !.n = n] = [[I(op) EXCEPT !.name = name] EXCEPT !.n = n]
  OBVIOUS
<1>3. Is(C, [[I(op) EXCEPT !.name = name] EXCEPT !.n = n], op, 0, n, name, 0)
  BY <1>1, Changed
<1> QED BY <1>2, <1>3

LEMMA OffsetCounted ==
    ASSUME NEW C, NEW op \in Opcodes, NEW n \in Nat, NEW k \in Int
    PROVE  Is(C, [I(op) EXCEPT !.k = k, !.n = n], op, k, n, "", 0)
<1>1. Is(C, [I(op) EXCEPT !.k = k], op, k, 0, "", 0)
  BY Bare, Changed
<1>2. [I(op) EXCEPT !.k = k, !.n = n] = [[I(op) EXCEPT !.k = k] EXCEPT !.n = n]
  OBVIOUS
<1>3. Is(C, [[I(op) EXCEPT !.k = k] EXCEPT !.n = n], op, k, n, "", 0)
  BY <1>1, Changed
<1> QED BY <1>2, <1>3

LEMMA Moded ==
    ASSUME NEW C, NEW op \in Opcodes, NEW n \in Nat, NEW mode \in Modes
    PROVE  Is(C, [I(op) EXCEPT !.mode = mode, !.arity = n], op, 0, 0, "", n)
<1>1. Is(C, [I(op) EXCEPT !.mode = mode], op, 0, 0, "", 0)
  BY Bare, Changed
<1>2. [I(op) EXCEPT !.mode = mode, !.arity = n] = [[I(op) EXCEPT !.mode = mode] EXCEPT !.arity = n]
  OBVIOUS
<1>3. Is(C, [[I(op) EXCEPT !.mode = mode] EXCEPT !.arity = n], op, 0, 0, "", n)
  BY <1>1, Changed
<1> QED BY <1>2, <1>3

\* an instruction that needs no more than there is, and is no jump or return
LEMMA Single ==
    ASSUME NEW C, NEW i, NEW op, NEW k, NEW n, NEW name, NEW arity, Is(C, i, op, k, n, name, arity),
           op # "jmp", op # "jmp_true", op # "jmp_false", op # "ret",
           op = "newobj" => n = 0 \/ name \in C.ctors,
           NEW d \in Int, NEW need, NEW by, Needs(i) = need, Effect(i) = by, d >= need
    PROVE  Runs(C, <<i>>, d, by, "stays")
<1>1. i \in Instructions(C) /\ i.op \notin Jumps /\ i.op # "ret"
  BY DEF Is, Instructions, Jumps
<1> QED BY <1>1, One

\* instructions that need no operand
LEMMA Loads ==
    ASSUME NEW C, NEW d \in Nat, NEW v \in Value, NEW k \in Int
    PROVE  /\ Runs(C, <<Ld(v)>>, d, 1, "stays")
           /\ Runs(C, <<I("ldthis")>>, d, 1, "stays")
           /\ Runs(C, <<Local("ldloc", k)>>, d, 1, "stays")
           /\ Runs(C, <<I("nop")>>, d, 0, "stays")
<1>0. d \in Int /\ d >= 0
  OBVIOUS
<1>1. Runs(C, <<Ld(v)>>, d, 1, "stays")
  <2>1. Is(C, Ld(v), "ld", 0, 0, "", 0)
    BY Loading
  <2>2. Needs(Ld(v)) = 0 /\ Effect(Ld(v)) = 1
    BY <2>1 DEF Is, Needs, Effect
  <2> QED BY <1>0, <2>1, <2>2, Single
<1>2. Runs(C, <<I("ldthis")>>, d, 1, "stays")
  <2>1. Is(C, I("ldthis"), "ldthis", 0, 0, "", 0)
    BY Bare DEF Opcodes
  <2>2. Needs(I("ldthis")) = 0 /\ Effect(I("ldthis")) = 1
    BY <2>1 DEF Is, Needs, Effect
  <2> QED BY <1>0, <2>1, <2>2, Single
<1>3. Runs(C, <<Local("ldloc", k)>>, d, 1, "stays")
  <2>1. Is(C, Local("ldloc", k), "ldloc", k, 0, "", 0)
    BY Offset DEF Opcodes
  <2>2. Needs(Local("ldloc", k)) = 0 /\ Effect(Local("ldloc", k)) = 1
    BY <2>1 DEF Is, Needs, Effect
  <2> QED BY <1>0, <2>1, <2>2, Single
<1>4. Runs(C, <<I("nop")>>, d, 0, "stays")
  <2>1. Is(C, I("nop"), "nop", 0, 0, "", 0)
    BY Bare DEF Opcodes
  <2>2. Needs(I("nop")) = 0 /\ Effect(I("nop")) = 0
    BY <2>1 DEF Is, Needs, Effect
  <2> QED BY <1>0, <2>1, <2>2, Single
<1> QED BY <1>1, <1>2, <1>3, <1>4

\* instructions on one operand
LEMMA OnOne ==
    ASSUME NEW C, NEW d \in Int, d >= 1, NEW k \in Int
    PROVE  /\ Runs(C, <<Local("stloc", k)>>, d, -1, "stays")
           /\ Runs(C, <<I("ldprop")>>, d, 0, "stays")
           /\ Runs(C, <<I("setcallee")>>, d, 0, "stays")
           /\ Runs(C, <<I("dup")>>, d, 1, "stays")
           /\ Runs(C, <<I("pop")>>, d, -1, "stays")
           /\ Runs(C, <<I("throw")>>, d, -1, "stays")
<1>0. d \in Int /\ d >= 1
  OBVIOUS
<1>1. Runs(C, <<Local("stloc", k)>>, d, -1, "stays")
  <2>1. Is(C, Local("stloc", k), "stloc", k, 0, "", 0)
    BY Offset DEF Opcodes
  <2>2. Needs(Local("stloc", k)) = 1 /\ Effect(Local("stloc", k)) = -1
    BY <2>1 DEF Is, Needs, Effect
  <2> QED BY <1>0, <2>1, <2>2, Single
<1>2. Runs(C, <<I("ldprop")>>, d, 0, "stays")
  <2>1. Is(C, I("ldprop"), "ldprop", 0, 0, "", 0)
    BY Bare DEF Opcodes
  <2>2. Needs(I("ldprop")) = 1 /\ Effect(I("ldprop")) = 0
    BY <2>1 DEF Is, Needs, Effect
  <2> QED BY <1>0, <2>1, <2>2, Single
<1>3. Runs(C, <<I("setcallee")>>, d, 0, "stays")
  <2>1. Is(C, I("setcallee"), "setcallee", 0, 0, "", 0)
    BY Bare DEF Opcodes
  <2>2. Needs(I("setcallee")) = 1 /\ Effect(I("setcallee")) = 0
    BY <2>1 DEF Is, Needs, Effect
  <2> QED BY <1>0, <2>1, <2>2, Single
<1>4. Runs(C, <<I("dup")>>, d, 1, "stays")
  <2>1. Is(C, I("dup"), "dup", 0, 0, "", 0)
    BY Bare DEF Opcodes
  <2>2. Needs(I("dup")) = 1 /\ Effect(I("dup")) = 1
    BY <2>1 DEF Is, Needs, Effect
  <2> QED BY <1>0, <2>1, <2>2, Single
<1>5. Runs(C, <<I("pop")>>, d, -1, "stays")
  <2>1. Is(C, I("pop"), "pop", 0, 0, "", 0)
    BY Bare DEF Opcodes
  <2>2. Needs(I("pop")) = 1 /\ Effect(I("pop")) = -1
    BY <2>1 DEF Is, Needs, Effect
  <2> QED BY <1>0, <2>1, <2>2, Single
<1>6. Runs(C, <<I("throw")>>, d, -1, "stays")
  <2>1. Is(C, I("throw"), "throw", 0, 0, "", 0)
    BY Bare DEF Opcodes
  <2>2. Needs(I("throw")) = 1 /\ Effect(I("throw")) = -1
    BY <2>1 DEF Is, Needs, Effect
  <2> QED BY <1>0, <2>1, <2>2, Single
<1> QED BY <1>1, <1>2, <1>3, <1>4, <1>5, <1>6

\* instructions on two operands
LEMMA OnTwo ==
    ASSUME NEW C, NEW d \in Int, d >= 2, NEW name \in Names(C)
    PROVE  /\ Runs(C, <<[I("binary") EXCEPT !.name = name]>>, d, -1, "stays")
           /\ Runs(C, <<[I("arith") EXCEPT !.name = name]>>, d, -1, "stays")
           /\ Runs(C, <<[I("equal") EXCEPT !.name = name]>>, d, -1, "stays")
           /\ Runs(C, <<[I("add") EXCEPT !.name = name]>>, d, -1, "stays")
<1>0. d \in Int /\ d >= 2
  OBVIOUS
<1>1. Runs(C, <<[I("binary") EXCEPT !.name = name]>>, d, -1, "stays")
  <2>1. Is(C, [I("binary") EXCEPT !.name = name], "binary", 0, 0, name, 0)
    BY Named DEF Opcodes
  <2>2. Needs([I("binary") EXCEPT !.name = name]) = 2 /\ Effect([I("binary") EXCEPT !.name = name]) = -1
    BY <2>1 DEF Is, Needs, Effect
  <2> QED BY <1>0, <2>1, <2>2, Single
<1>2. Runs(C, <<[I("arith") EXCEPT !.name = name]>>, d, -1, "stays")
  <2>1. Is(C, [I("arith") EXCEPT !.name = name], "arith", 0, 0, name, 0)
    BY Named DEF Opcodes
  <2>2. Needs([I("arith") EXCEPT !.name = name]) = 2 /\ Effect([I("arith") EXCEPT !.name = name]) = -1
    BY <2>1 DEF Is, Needs, Effect
  <2> QED BY <1>0, <2>1, <2>2, Single
<1>3. Runs(C, <<[I("equal") EXCEPT !.name = name]>>, d, -1, "stays")
  <2>1. Is(C, [I("equal") EXCEPT !.name = name], "equal", 0, 0, name, 0)
    BY Named DEF Opcodes
  <2>2. Needs([I("equal") EXCEPT !.name = name]) = 2 /\ Effect([I("equal") EXCEPT !.name = name]) = -1
    BY <2>1 DEF Is, Needs, Effect
  <2> QED BY <1>0, <2>1, <2>2, Single
<1>4. Runs(C, <<[I("add") EXCEPT !.name = name]>>, d, -1, "stays")
  <2>1. Is(C, [I("add") EXCEPT !.name = name], "add", 0, 0, name, 0)
    BY Named DEF Opcodes
  <2>2. Needs([I("add") EXCEPT !.name = name]) = 2 /\ Effect([I("add") EXCEPT !.name = name]) = -1
    BY <2>1 DEF Is, Needs, Effect
  <2> QED BY <1>0, <2>1, <2>2, Single
<1> QED BY <1>1, <1>2, <1>3, <1>4

\* a store to a property
LEMMA Storing ==
    ASSUME NEW C, NEW d \in Int, d >= 2
    PROVE  /\ Runs(C, <<I("stprop")>>, d, -2, "stays")
<1>0. d \in Int /\ d >= 2
  OBVIOUS
<1>1. Runs(C, <<I("stprop")>>, d, -2, "stays")
  <2>1. Is(C, I("stprop"), "stprop", 0, 0, "", 0)
    BY Bare DEF Opcodes
  <2>2. Needs(I("stprop")) = 2 /\ Effect(I("stprop")) = -2
    BY <2>1 DEF Is, Needs, Effect
  <2> QED BY <1>0, <2>1, <2>2, Single
<1> QED BY <1>1

\* instructions on as many operands as they say
LEMMA Counting ==
    ASSUME NEW C, NEW d \in Int, NEW n \in Nat, d >= n, NEW k \in Int, NEW mode \in Modes
    PROVE  /\ Runs(C, <<[I("newarr") EXCEPT !.n = n]>>, d, 1 - n, "stays")
           /\ Runs(C, <<[I("call") EXCEPT !.k = k, !.n = n]>>, d, 1 - n, "stays")
           /\ Runs(C, <<[I("syscall") EXCEPT !.mode = mode, !.arity = n]>>, d, 1 - n, "stays")
<1>0. d \in Int /\ d >= n
  OBVIOUS
<1>1. Runs(C, <<[I("newarr") EXCEPT !.n = n]>>, d, 1 - n, "stays")
  <2>1. Is(C, [I("newarr") EXCEPT !.n = n], "newarr", 0, n, "", 0)
    BY Counted DEF Opcodes
  <2>2. Needs([I("newarr") EXCEPT !.n = n]) = n /\ Effect([I("newarr") EXCEPT !.n = n]) = 1 - n
    BY <2>1 DEF Is, Needs, Effect
  <2> QED BY <1>0, <2>1, <2>2, Single
<1>2. Runs(C, <<[I("call") EXCEPT !.k = k, !.n = n]>>, d, 1 - n, "stays")
  <2>1. Is(C, [I("call") EXCEPT !.k = k, !.n = n], "call", k, n, "", 0)
    BY OffsetCounted DEF Opcodes
  <2> DEFINE i == [I("call") EXCEPT !.k = k, !.n = n]
  <2>2. Is(C, i, "call", k, n, "", 0)
    BY <2>1
  <2> HIDE DEF i
  <2>3. Needs(i) = n /\ Effect(i) = 1 - n
    BY <2>2 DEF Is, Needs, Effect
  <2>4. Runs(C, <<i>>, d, 1 - n, "stays")
    <3>1. "call" # "jmp" /\ "call" # "jmp_true" /\ "call" # "jmp_false" /\ "call" # "ret" /\ "call" # "newobj"
      OBVIOUS
    <3> QED BY ONLY <1>0, <3>1, <2>2, <2>3, Single
  <2> QED BY <2>4 DEF i
<1>3. Runs(C, <<[I("syscall") EXCEPT !.mode = mode, !.arity = n]>>, d, 1 - n, "stays")
  <2>1. Is(C, [I("syscall") EXCEPT !.mode = mode, !.arity = n], "syscall", 0, 0, "", n)
    BY Moded DEF Opcodes
  <2>2. Needs([I("syscall") EXCEPT !.mode = mode, !.arity = n]) = n /\ Effect([I("syscall") EXCEPT !.mode = mode, !.arity = n]) = 1 - n
    BY <2>1 DEF Is, Needs, Effect
  <2> QED BY <1>0, <2>1, <2>2, Single
<1> QED BY <1>1, <1>2, <1>3

\* a call, on a receiver and arguments
LEMMA Sending ==
    ASSUME NEW C, NEW d \in Int, NEW n \in Nat, d >= n + 1, NEW name \in Names(C)
    PROVE  /\ Runs(C, <<Send(name, n)>>, d, -n, "stays")
<1>0. d \in Int /\ d >= n + 1
  OBVIOUS
<1>1. Runs(C, <<Send(name, n)>>, d, -n, "stays")
  <2>1. Is(C, Send(name, n), "vcall", 0, n, name, 0)
    BY NamedCounted DEF Opcodes, Send
  <2>2. Needs(Send(name, n)) = n + 1 /\ Effect(Send(name, n)) = -n
    BY <2>1 DEF Is, Needs, Effect
  <2> QED BY <1>0, <2>1, <2>2, Single
<1> QED BY <1>1

\* a new object, of a class with a constructor unless there are no arguments
LEMMA Making ==
    ASSUME NEW C, NEW d \in Int, NEW n \in Nat, d >= n, NEW name \in Names(C), n = 0 \/ name \in C.ctors
    PROVE  /\ Runs(C, <<[I("newobj") EXCEPT !.name = name, !.n = n]>>, d, 1 - n, "stays")
<1>0. d \in Int /\ d >= n
  OBVIOUS
<1>1. Runs(C, <<[I("newobj") EXCEPT !.name = name, !.n = n]>>, d, 1 - n, "stays")
  <2>1. Is(C, [I("newobj") EXCEPT !.name = name, !.n = n], "newobj", 0, n, name, 0)
    BY NamedCounted DEF Opcodes, Send
  <2>2. Needs([I("newobj") EXCEPT !.name = name, !.n = n]) = n /\ Effect([I("newobj") EXCEPT !.name = name, !.n = n]) = 1 - n
    BY <2>1 DEF Is, Needs, Effect
  <2> QED BY <1>0, <2>1, <2>2, Single
<1> QED BY <1>1

(***************************************************************************)
(* Sequences given by their elements.                                      *)
(***************************************************************************)
LEMMA Pairs ==
    ASSUME NEW a, NEW b
    PROVE  <<a>> \o <<b>> = <<a, b>>
<1> DEFINE T == {a, b}
<1>1. <<a>> \in Seq(T) /\ <<b>> \in Seq(T) /\ <<a, b>> \in Seq(T)
  OBVIOUS
<1>2. Len(<<a>>) = 1 /\ Len(<<b>>) = 1 /\ Len(<<a, b>>) = 2 /\ <<a, b>>[1] = a /\ <<a, b>>[2] = b
  OBVIOUS
<1>3. /\ <<a>> \o <<b>> \in Seq(T) /\ Len(<<a>> \o <<b>>) = 2
      /\ (<<a>> \o <<b>>)[1] = a /\ (<<a>> \o <<b>>)[2] = b
  OBVIOUS
<1> HIDE DEF T
<1>4. \A i \in 1..2 : (<<a>> \o <<b>>)[i] = <<a, b>>[i]
  BY <1>2, <1>3
<1> QED BY ONLY <1>1, <1>2, <1>3, <1>4, SeqEqual

LEMMA Triples ==
    ASSUME NEW a, NEW b, NEW c
    PROVE  <<a>> \o <<b, c>> = <<a, b, c>>
<1> DEFINE T == {a, b, c}
<1>1. <<a>> \in Seq(T) /\ <<b, c>> \in Seq(T) /\ <<a, b, c>> \in Seq(T)
  OBVIOUS
<1>2. Len(<<a, b, c>>) = 3 /\ <<a, b, c>>[1] = a /\ <<a, b, c>>[2] = b /\ <<a, b, c>>[3] = c
  OBVIOUS
<1>3. /\ <<a>> \o <<b, c>> \in Seq(T) /\ Len(<<a>> \o <<b, c>>) = 3
      /\ (<<a>> \o <<b, c>>)[1] = a /\ (<<a>> \o <<b, c>>)[2] = b /\ (<<a>> \o <<b, c>>)[3] = c
  OBVIOUS
<1> HIDE DEF T
<1>4. \A i \in 1..3 : (<<a>> \o <<b, c>>)[i] = <<a, b, c>>[i]
  BY <1>2, <1>3
<1> QED BY ONLY <1>1, <1>2, <1>3, <1>4, SeqEqual

LEMMA Quads ==
    ASSUME NEW a, NEW b, NEW c, NEW d
    PROVE  <<a, b, c>> \o <<d>> = <<a, b, c, d>>
<1> DEFINE T == {a, b, c, d}
<1>1. <<a, b, c>> \in Seq(T) /\ <<d>> \in Seq(T) /\ <<a, b, c, d>> \in Seq(T)
  OBVIOUS
<1>2. /\ Len(<<a, b, c, d>>) = 4 /\ <<a, b, c, d>>[1] = a /\ <<a, b, c, d>>[2] = b
      /\ <<a, b, c, d>>[3] = c /\ <<a, b, c, d>>[4] = d
  OBVIOUS
<1>3. /\ <<a, b, c>> \o <<d>> \in Seq(T) /\ Len(<<a, b, c>> \o <<d>>) = 4
      /\ (<<a, b, c>> \o <<d>>)[1] = a /\ (<<a, b, c>> \o <<d>>)[2] = b
      /\ (<<a, b, c>> \o <<d>>)[3] = c /\ (<<a, b, c>> \o <<d>>)[4] = d
  OBVIOUS
<1> HIDE DEF T
<1>4. \A i \in 1..4 : (<<a, b, c>> \o <<d>>)[i] = <<a, b, c, d>>[i]
  BY <1>2, <1>3
<1> QED BY ONLY <1>1, <1>2, <1>3, <1>4, SeqEqual

LEMMA Quints ==
    ASSUME NEW a, NEW b, NEW c, NEW d, NEW e
    PROVE  <<a, b, c>> \o (<<d>> \o <<e>>) = <<a, b, c, d, e>>
<1> DEFINE T == {a, b, c, d, e}
<1>0. <<d>> \o <<e>> = <<d, e>>
  BY Pairs
<1>1. <<a, b, c>> \in Seq(T) /\ <<d, e>> \in Seq(T) /\ <<a, b, c, d, e>> \in Seq(T)
  OBVIOUS
<1>2. /\ Len(<<a, b, c, d, e>>) = 5 /\ <<a, b, c, d, e>>[1] = a /\ <<a, b, c, d, e>>[2] = b
      /\ <<a, b, c, d, e>>[3] = c /\ <<a, b, c, d, e>>[4] = d /\ <<a, b, c, d, e>>[5] = e
  OBVIOUS
<1>3. /\ <<a, b, c>> \o <<d, e>> \in Seq(T) /\ Len(<<a, b, c>> \o <<d, e>>) = 5
      /\ (<<a, b, c>> \o <<d, e>>)[1] = a /\ (<<a, b, c>> \o <<d, e>>)[2] = b
      /\ (<<a, b, c>> \o <<d, e>>)[3] = c /\ (<<a, b, c>> \o <<d, e>>)[4] = d
      /\ (<<a, b, c>> \o <<d, e>>)[5] = e
  OBVIOUS
<1> HIDE DEF T
<1>4. \A i \in 1..5 : (<<a, b, c>> \o <<d, e>>)[i] = <<a, b, c, d, e>>[i]
  BY <1>2, <1>3
<1>5. <<a, b, c>> \o <<d, e>> = <<a, b, c, d, e>>
  BY ONLY <1>1, <1>2, <1>3, <1>4, SeqEqual
<1> QED BY <1>0, <1>5

(***************************************************************************)
(* Expressions and statements: pieces of code that begin with no operand of*)
(* their own.  An expression leaves its value, a statement nothing.        *)
(***************************************************************************)
\* i pieces that grow the stack by m each
Grown(m, i) == IF m = 0 THEN 0 ELSE i

LEMMA Flattens ==
    ASSUME NEW C, NEW ss, NEW m \in {0, 1}, NEW ends, ss \in Seq(Codes(C)),
           ends = "returns" => m = 0, \A j \in 1..Len(ss) : Runs(C, ss[j], 0, m, ends)
    PROVE  Runs(C, FlattenSeq(ss), 0, Grown(m, Len(ss)), ends)
<1>1. ss \in Seq(Seq(Instructions(C))) /\ Len(ss) \in Nat
  BY DEF Codes
<1>2. PICK f : /\ f[0] = <<>>
               /\ \A i \in 1..Len(ss) : f[i] = f[i - 1] \o ss[i]
               /\ FlattenSeq(ss) = f[Len(ss)]
  BY <1>1, FlattenPrefixes
<1> DEFINE S == {i \in 0..Len(ss) : Runs(C, f[i], 0, Grown(m, i), ends)}
<1>3. 0 \in S
  <2>1. f[0] = <<>> /\ Grown(m, 0) = 0 /\ 0 \in 0..Len(ss) /\ 0 \in Int
    BY <1>1, <1>2 DEF Grown
  <2>2. Runs(C, <<>>, 0, 0, ends)
    BY Nil
  <2> QED BY <2>1, <2>2
<1>4. ASSUME NEW i \in 0..(Len(ss) - 1), i \in S PROVE i + 1 \in S
  <2>1. i + 1 \in 1..Len(ss) /\ (i + 1) - 1 = i /\ i \in Nat
    BY <1>1
  <2>2. f[i + 1] = f[i] \o ss[i + 1]
    BY <1>2, <2>1
  <2>3. PICK a, b, g : a = f[i] /\ b = ss[i + 1] /\ g = Grown(m, i)
    OBVIOUS
  <2>4. /\ Runs(C, a, 0, g, ends) /\ Runs(C, b, 0, m, ends) /\ 0 \in Int
        /\ 0 + g >= 0 /\ (ends = "returns" => 0 = 0 + g)
    BY <2>1, <2>3, <1>4 DEF Grown
  <2>5. Runs(C, a \o b, 0, g + m, ends)
    BY ONLY <2>4, Both
  <2>6. g + m = Grown(m, i + 1)
    BY <2>3, <2>1 DEF Grown
  <2>7. i + 1 \in 0..Len(ss) /\ f[i + 1] = a \o b
    BY <2>1, <2>2, <2>3, <1>1
  <2>8. Runs(C, f[i + 1], 0, Grown(m, i + 1), ends)
    BY <2>5, <2>6, <2>7
  <2> QED BY <2>7, <2>8
<1>5. \A i \in 0..Len(ss) : i \in S
  <2> HIDE DEF S
  <2> QED BY <1>1, <1>3, <1>4, Induction
<1> QED BY <1>1, <1>2, <1>5

\* a jump, where the code of a statement leads on
LEMMA Jumping ==
    ASSUME NEW C, NEW c \in Codes(C), NEW d \in Int, NEW ends, NEW op, op \in Jumps, NEW k \in Int, NEW o,
           Stands(<<Rel(op, k)>>, c, o),
           NEW h \in Int, Rise(c)[o] = h, d + h >= 0, op # "jmp" => d + h >= 1,
           NEW g \in Int, op = "jmp" => g = h, op # "jmp" => g = h - 1
    PROVE  /\ Rise(c)[o + 1] = g
           /\ o + 1 + k \in 1..(Len(c) + 1) /\ Rise(c)[o + k] = g => At(c, d, ends, o + 1)
<1> DEFINE inst == Rel(op, k)
<1>1. op \in Opcodes /\ op # "ret"
  BY DEF Jumps, Opcodes
<1>2. Is(C, inst, op, k, 0, "", 0)
  BY <1>1, Offset
<1> HIDE DEF inst
<1>3. o \in Nat /\ o + 1 \in 1..Len(c) /\ Len(c) \in Nat /\ c[o + 1] = inst
  <2>1. Len(<<inst>>) = 1 /\ <<inst>>[1] = inst
    OBVIOUS
  <2>2. o \in Nat /\ o + 1 <= Len(c) /\ c[o + 1] = inst
    BY <2>1 DEF Stands, inst
  <2> QED BY <2>2, CodeFacts
<1>4. inst.op = op /\ inst.k = k
  BY <1>2 DEF Is
<1>5. (op # "jmp" => Needs(inst) = 1 /\ Effect(inst) = -1) /\ (op = "jmp" => Needs(inst) = 0 /\ Effect(inst) = 0)
  BY <1>4 DEF Needs, Effect, Jumps
<1>6. Rise(c)[o + 1] = Rise(c)[(o + 1) - 1] + Effect(c[o + 1])
  BY <1>3, RiseFacts DEF Rising
<1>7. (o + 1) - 1 = o /\ o + 1 + k - 1 = o + k
  BY <1>3
<1>8. Rise(c)[o + 1] = g
  BY <1>3, <1>5, <1>6, <1>7
<1>9. Rise(c)[(o + 1) - 1] = h
  BY <1>7
<1>10. ASSUME o + 1 + k \in 1..(Len(c) + 1), Rise(c)[o + k] = g PROVE At(c, d, ends, o + 1)
  <2>1. d + Rise(c)[(o + 1) - 1] >= Needs(c[o + 1])
    <3>1. d + h >= Needs(inst)
      BY <1>5
    <3> QED BY <3>1, <1>3, <1>9
  <2>2. o + 1 + c[o + 1].k \in 1..(Len(c) + 1) /\ Rise(c)[o + 1 + c[o + 1].k - 1] = Rise(c)[o + 1]
    BY <1>3, <1>4, <1>7, <1>8, <1>10
  <2>3. c[o + 1].op # "ret"
    BY <1>1, <1>3, <1>4
  <2> QED BY <2>1, <2>2, <2>3 DEF At
<1> QED BY <1>8, <1>10

Pushes(C, c) == Runs(C, c, 0, 1, "stays")
Leaves(C, c, ends) == Runs(C, c, 0, 0, ends)

\* the values of a list of arguments, one on the other
LEMMA Arguments ==
    ASSUME NEW C, NEW args \in Seq(Codes(C)), \A j \in 1..Len(args) : Pushes(C, args[j])
    PROVE  Len(args) \in Nat /\ Runs(C, FlattenSeq(args), 0, Len(args), "stays")
<1>1. \A j \in 1..Len(args) : Runs(C, args[j], 0, 1, "stays")
  BY DEF Pushes
<1>2. 1 \in {0, 1} /\ "stays" # "returns"
  OBVIOUS
<1>3. Runs(C, FlattenSeq(args), 0, Grown(1, Len(args)), "stays")
  BY <1>1, <1>2, Flattens
<1> QED BY <1>3 DEF Grown

\* arguments stay arguments when they are reversed
LEMMA Backwards ==
    ASSUME NEW C, NEW args \in Seq(Codes(C)), \A j \in 1..Len(args) : Pushes(C, args[j])
    PROVE  /\ Reverse(args) \in Seq(Codes(C)) /\ Len(Reverse(args)) = Len(args)
           /\ \A j \in 1..Len(Reverse(args)) : Pushes(C, Reverse(args)[j])
<1>1. Len(args) \in Nat /\ Reverse(args) = [i \in 1..Len(args) |-> args[(Len(args) - i) + 1]]
  BY DEF Reverse
<1>2. \A i \in 1..Len(args) : (Len(args) - i) + 1 \in 1..Len(args)
  BY <1>1
<1>3. \A i \in 1..Len(args) : args[(Len(args) - i) + 1] \in Codes(C) /\ Pushes(C, args[(Len(args) - i) + 1])
  BY <1>2
<1>4. Reverse(args) \in Seq(Codes(C)) /\ Len(Reverse(args)) = Len(args)
  BY <1>1, <1>3
<1> QED BY <1>1, <1>3, <1>4

\* two pieces of which the first leaves m operands and the second does not end the method
LEMMA Then ==
    ASSUME NEW C, NEW a, NEW b, NEW m \in Int, NEW n \in Int, Runs(C, a, 0, m, "stays"), Runs(C, b, m, n, "stays")
    PROVE  Runs(C, a \o b, 0, m + n, "stays")
<1>1. 0 \in Int /\ m \in Int /\ 0 + m >= m /\ "stays" # "returns"
  OBVIOUS
<1> QED BY <1>1, Both

\* an expression or statement may stand where operands wait
LEMMA OverOperands ==
    ASSUME NEW C, NEW b, NEW m \in Nat, NEW n, Runs(C, b, 0, n, "stays")
    PROVE  Runs(C, b, m, n, "stays")
<1>1. 0 \in Int /\ m \in Int /\ m >= 0 /\ "stays" # "returns"
  OBVIOUS
<1> QED BY <1>1, Higher

(***************************************************************************)
(* The expressions.                                                        *)
(***************************************************************************)
\* literals, null, locals, this
LEMMA Simple ==
    ASSUME NEW C, NEW v \in Value, NEW slot \in Int
    PROVE  /\ Pushes(C, emit_literal(v)) /\ Pushes(C, emit_null)
           /\ Pushes(C, emit_ident(slot)) /\ Pushes(C, emit_this)
<1>1. 0 \in Nat /\ Null \in Value
  BY DEF Value
<1>2. Runs(C, <<Ld(v)>>, 0, 1, "stays") /\ Runs(C, <<Ld(Null)>>, 0, 1, "stays")
  BY <1>1, Loads
<1>3. Runs(C, <<Local("ldloc", slot)>>, 0, 1, "stays") /\ Runs(C, <<I("ldthis")>>, 0, 1, "stays")
  BY <1>1, Loads
<1> QED BY <1>2, <1>3 DEF Pushes, emit_literal, emit_null, emit_ident, emit_this

\* a property of an object
LEMMA Members ==
    ASSUME NEW C, NEW obj, Pushes(C, obj)
    PROVE  Pushes(C, emit_memberaccess(obj))
<1>1. Runs(C, <<I("ldprop")>>, 1, 0, "stays")
  <2>1. 1 \in Int /\ 1 >= 1 /\ 0 \in Int
    OBVIOUS
  <2> QED BY <2>1, OnOne
<1>2. Runs(C, obj \o <<I("ldprop")>>, 0, 1 + 0, "stays")
  <2>1. Runs(C, obj, 0, 1, "stays") /\ 1 \in Int /\ 0 \in Int
    BY DEF Pushes
  <2> QED BY <1>1, <2>1, Then
<1> QED BY <1>2 DEF Pushes, emit_memberaccess

\* operators, with or without a method that overloads them
Operations == {"binary", "arith", "equal", "add"}

LEMMA Operators ==
    ASSUME NEW C, NEW left, NEW right, Pushes(C, left), Pushes(C, right),
           NEW op \in Operations, NEW name \in Names(C)
    PROVE  Pushes(C, emit_op(left, right, op, name))
<1>1. Runs(C, left \o right, 0, 1 + 1, "stays")
  <2>1. Runs(C, left, 0, 1, "stays") /\ Runs(C, right, 0, 1, "stays") /\ 1 \in Nat /\ 1 \in Int
    BY DEF Pushes
  <2>2. Runs(C, right, 1, 1, "stays")
    BY <2>1, OverOperands
  <2> QED BY <2>1, <2>2, Then
<1>2. Runs(C, <<[I(op) EXCEPT !.name = name]>>, 2, -1, "stays")
  <2>1. 2 \in Int /\ 2 >= 2
    OBVIOUS
  <2>2. /\ Runs(C, <<[I("binary") EXCEPT !.name = name]>>, 2, -1, "stays")
        /\ Runs(C, <<[I("arith") EXCEPT !.name = name]>>, 2, -1, "stays")
        /\ Runs(C, <<[I("equal") EXCEPT !.name = name]>>, 2, -1, "stays")
        /\ Runs(C, <<[I("add") EXCEPT !.name = name]>>, 2, -1, "stays")
    BY <2>1, OnTwo
  <2> QED BY <2>2 DEF Operations
<1>3. Runs(C, (left \o right) \o <<[I(op) EXCEPT !.name = name]>>, 0, 2 + (-1), "stays")
  <2>1. Runs(C, left \o right, 0, 2, "stays") /\ 2 \in Int /\ -1 \in Int
    BY <1>1
  <2> QED BY <1>2, <2>1, Then
<1>4. 2 + (-1) = 1
  OBVIOUS
<1> QED BY <1>3, <1>4 DEF Pushes, emit_op

\* arrays, whose items are pushed from the last to the first
LEMMA Arrays ==
    ASSUME NEW C, NEW args \in Seq(Codes(C)), \A j \in 1..Len(args) : Pushes(C, args[j])
    PROVE  Pushes(C, emit_newarr(args))
<1> DEFINE n == Len(args)
<1>1. n \in Nat /\ Runs(C, FlattenSeq(Reverse(args)), 0, n, "stays")
  BY Arguments, Backwards
<1> HIDE DEF n
<1>2. n \in Int /\ 1 - n \in Int /\ n >= n /\ n + (1 - n) = 1 /\ 0 \in Int
  BY <1>1
<1>3. Runs(C, <<[I("newarr") EXCEPT !.n = n]>>, n, 1 - n, "stays")
  <2>1. 0 \in Int /\ "plain" \in Modes
    BY DEF Modes
  <2> QED BY <1>1, <1>2, <2>1, Counting
<1>4. Runs(C, FlattenSeq(Reverse(args)) \o <<[I("newarr") EXCEPT !.n = n]>>, 0, n + (1 - n), "stays")
  BY <1>1, <1>2, <1>3, Then
<1>5. Runs(C, FlattenSeq(Reverse(args)) \o <<[I("newarr") EXCEPT !.n = n]>>, 0, 1, "stays")
  BY <1>2, <1>4
<1> QED BY <1>5 DEF n, Pushes, emit_newarr

\* new objects
LEMMA News ==
    ASSUME NEW C, NEW args \in Seq(Codes(C)), \A j \in 1..Len(args) : Pushes(C, args[j]),
           NEW class \in Names(C), Len(args) = 0 \/ class \in C.ctors
    PROVE  Pushes(C, emit_newobj(class, args))
<1> DEFINE n == Len(args)
<1>1. n \in Nat /\ Runs(C, FlattenSeq(args), 0, n, "stays")
  BY Arguments
<1> HIDE DEF n
<1>2. n \in Int /\ 1 - n \in Int /\ n >= n /\ n + (1 - n) = 1 /\ 0 \in Int
  BY <1>1
<1>3. Runs(C, <<[I("newobj") EXCEPT !.name = class, !.n = n]>>, n, 1 - n, "stays")
  <2>1. n = 0 \/ class \in C.ctors
    BY DEF n
  <2> QED BY <1>1, <1>2, <2>1, Making
<1>4. Runs(C, FlattenSeq(args) \o <<[I("newobj") EXCEPT !.name = class, !.n = n]>>, 0, n + (1 - n), "stays")
  BY <1>1, <1>2, <1>3, Then
<1>5. Runs(C, FlattenSeq(args) \o <<[I("newobj") EXCEPT !.name = class, !.n = n]>>, 0, 1, "stays")
  BY <1>2, <1>4
<1> QED BY <1>5 DEF n, Pushes, emit_newobj

\* calls of native functions that take as many arguments as there are, and of static methods
LEMMA Natives ==
    ASSUME NEW C, NEW args \in Seq(Codes(C)), \A j \in 1..Len(args) : Pushes(C, args[j]),
           NEW mode \in Modes
    PROVE  Pushes(C, emit_syscall(mode, Len(args), args))
<1> DEFINE n == Len(args)
<1>1. n \in Nat /\ Runs(C, FlattenSeq(args), 0, n, "stays")
  BY Arguments
<1> HIDE DEF n
<1>2. n \in Int /\ 1 - n \in Int /\ n >= n /\ n + (1 - n) = 1 /\ 0 \in Int
  BY <1>1
<1>3. Runs(C, <<[I("syscall") EXCEPT !.mode = mode, !.arity = n]>>, n, 1 - n, "stays")
  BY <1>1, <1>2, Counting
<1>4. Runs(C, FlattenSeq(args) \o <<[I("syscall") EXCEPT !.mode = mode, !.arity = n]>>, 0, n + (1 - n), "stays")
  BY <1>1, <1>2, <1>3, Then
<1>5. Runs(C, FlattenSeq(args) \o <<[I("syscall") EXCEPT !.mode = mode, !.arity = n]>>, 0, 1, "stays")
  BY <1>2, <1>4
<1> QED BY <1>5 DEF n, Pushes, emit_syscall

LEMMA Statics ==
    ASSUME NEW C, NEW args \in Seq(Codes(C)), \A j \in 1..Len(args) : Pushes(C, args[j]),
           NEW entry \in Int
    PROVE  Pushes(C, emit_callstatic(entry, args))
<1> DEFINE n == Len(args)
<1>1. n \in Nat /\ Runs(C, FlattenSeq(args), 0, n, "stays")
  BY Arguments
<1> HIDE DEF n
<1>2. n \in Int /\ 1 - n \in Int /\ n >= n /\ n + (1 - n) = 1 /\ 0 \in Int
  BY <1>1
<1>3. Runs(C, <<[I("call") EXCEPT !.k = entry, !.n = n]>>, n, 1 - n, "stays")
  <2>1. 0 \in Int /\ "plain" \in Modes
    BY DEF Modes
  <2> QED BY <1>1, <1>2, <2>1, Counting
<1>4. Runs(C, FlattenSeq(args) \o <<[I("call") EXCEPT !.k = entry, !.n = n]>>, 0, n + (1 - n), "stays")
  BY <1>1, <1>2, <1>3, Then
<1>5. Runs(C, FlattenSeq(args) \o <<[I("call") EXCEPT !.k = entry, !.n = n]>>, 0, 1, "stays")
  BY <1>2, <1>4
<1> QED BY <1>5 DEF n, Pushes, emit_callstatic

\* one more operand is there for the call, the receiver
LEMMA Calling ==
    ASSUME NEW C, NEW n \in Nat, NEW name \in Names(C)
    PROVE  Runs(C, <<Send(name, n)>>, n + 1, -n, "stays")
<1>1. n + 1 \in Int /\ n + 1 >= n + 1
  OBVIOUS
<1> QED BY <1>1, Sending

\* calls of a method of an object, and of this
LEMMA Methods ==
    ASSUME NEW C, NEW receiver, Pushes(C, receiver), NEW args \in Seq(Codes(C)),
           \A j \in 1..Len(args) : Pushes(C, args[j]), NEW name \in Names(C)
    PROVE  Pushes(C, emit_callmember(receiver, name, args))
<1> DEFINE n == Len(args)
<1>1. n \in Nat /\ Runs(C, FlattenSeq(args), 0, n, "stays")
  BY Arguments
<1> HIDE DEF n
<1>2. Runs(C, receiver, 0, 1, "stays") /\ 1 \in Int /\ 0 \in Int /\ 1 \in Nat /\ n \in Int /\ 1 >= 1
  BY <1>1 DEF Pushes
<1>3. Runs(C, <<I("setcallee")>>, 1, 0, "stays")
  BY <1>2, OnOne
<1>4. Runs(C, receiver \o <<I("setcallee")>>, 0, 1, "stays")
  <2>1. 1 + 0 = 1
    OBVIOUS
  <2>2. Runs(C, receiver \o <<I("setcallee")>>, 0, 1 + 0, "stays")
    BY ONLY <1>2, <1>3, Then
  <2> QED BY <2>1, <2>2
<1>5. Runs(C, FlattenSeq(args), 1, n, "stays")
  BY <1>1, <1>2, OverOperands
<1>6. Runs(C, receiver \o <<I("setcallee")>> \o FlattenSeq(args), 0, 1 + n, "stays")
  BY ONLY <1>2, <1>4, <1>5, Then
<1>7. Runs(C, <<Send(name, n)>>, 1 + n, -n, "stays") /\ 1 + n \in Int /\ -n \in Int /\ (1 + n) + (-n) = 1
  <2>1. 1 + n = n + 1 /\ 1 + n \in Int /\ -n \in Int /\ (1 + n) + (-n) = 1
    BY <1>1
  <2> QED BY <2>1, <1>1, Calling
<1>8. Runs(C, (receiver \o <<I("setcallee")>> \o FlattenSeq(args)) \o <<Send(name, n)>>, 0, 1, "stays")
  <2>1. PICK a : a = receiver \o <<I("setcallee")>> \o FlattenSeq(args)
    OBVIOUS
  <2>2. Runs(C, a, 0, 1 + n, "stays")
    BY <1>6, <2>1
  <2>3. Runs(C, a \o <<Send(name, n)>>, 0, (1 + n) + (-n), "stays")
    BY ONLY <2>2, <1>7, Then
  <2> QED BY <2>1, <2>3, <1>7
<1> QED BY <1>8 DEF n, Pushes, emit_callmember

LEMMA Selves ==
    ASSUME NEW C, NEW args \in Seq(Codes(C)), \A j \in 1..Len(args) : Pushes(C, args[j]),
           NEW name \in Names(C)
    PROVE  Pushes(C, emit_call(name, args))
<1> DEFINE n == Len(args)
<1>1. n \in Nat /\ Runs(C, FlattenSeq(args), 0, n, "stays")
  BY Arguments
<1> HIDE DEF n
<1>2. /\ n \in Int /\ 1 \in Int /\ 0 \in Int /\ -n \in Int /\ 1 + n \in Int /\ n + 1 = 1 + n
      /\ 0 \in Nat /\ 1 >= 1 /\ 1 + 0 = 1 /\ n + 1 \in Int /\ n + 1 >= 1
  BY <1>1
<1>3. Runs(C, <<I("ldthis")>>, n, 1, "stays")
  <2>1. Empty \in Value
    BY DEF Value
  <2> QED BY <1>1, <1>2, <2>1, Loads
<1>4. Runs(C, <<I("setcallee")>>, n + 1, 0, "stays")
  BY <1>2, OnOne
<1>5. Runs(C, <<Send(name, n)>>, n + 1, -n, "stays")
  BY <1>1, Calling
<1>6. <<I("ldthis"), I("setcallee"), Send(name, n)>> = <<I("ldthis")>> \o (<<I("setcallee")>> \o <<Send(name, n)>>)
  BY Pairs, Triples
<1> DEFINE a == <<I("ldthis")>> b == <<I("setcallee")>> c == <<Send(name, n)>> f == FlattenSeq(args)
<1>7. /\ Runs(C, a, n, 1, "stays") /\ Runs(C, b, n + 1, 0, "stays") /\ Runs(C, c, n + 1, -n, "stays")
      /\ Runs(C, f, 0, n, "stays") /\ emit_call(name, args) = f \o (a \o (b \o c))
  BY <1>1, <1>3, <1>4, <1>5, <1>6 DEF emit_call, n
<1> HIDE DEF a, b, c, f
<1>8. Runs(C, b \o c, n + 1, 0 + -n, "stays")
  <2>1. (n + 1) + 0 >= n + 1 /\ "stays" # "returns"
    BY <1>2
  <2> QED BY ONLY <1>2, <1>7, <2>1, Both
<1>9. Runs(C, a \o (b \o c), n, 1 + (0 + -n), "stays")
  <2>1. n + 1 >= n + 1 /\ "stays" # "returns"
    BY <1>2
  <2>2. PICK bc : bc = b \o c
    OBVIOUS
  <2>3. Runs(C, bc, n + 1, 0 + -n, "stays")
    BY <1>8, <2>2
  <2>4. Runs(C, a \o bc, n, 1 + (0 + -n), "stays")
    BY ONLY <1>2, <1>7, <2>1, <2>3, Both
  <2> QED BY <2>2, <2>4
<1>10. Runs(C, f \o (a \o (b \o c)), 0, n + (1 + (0 + -n)), "stays")
  <2>1. 1 + (0 + -n) \in Int
    BY <1>2
  <2>2. PICK abc, m : abc = a \o (b \o c) /\ m = 1 + (0 + -n)
    OBVIOUS
  <2>3. Runs(C, abc, n, m, "stays") /\ m \in Int
    BY <1>9, <2>1, <2>2
  <2>4. Runs(C, f \o abc, 0, n + m, "stays")
    BY ONLY <1>2, <1>7, <2>3, Then
  <2> QED BY <2>2, <2>4
<1>11. n + (1 + (0 + -n)) = 1
  BY <1>2
<1> QED BY <1>7, <1>10, <1>11 DEF Pushes

(***************************************************************************)
(* The statements.                                                         *)
(***************************************************************************)
\* an expression as a statement, an assignment, throw and return
LEMMA Discarded ==
    ASSUME NEW C, NEW value, Pushes(C, value)
    PROVE  Leaves(C, emit_pop(value), "stays")
<1>1. /\ Runs(C, value, 0, 1, "stays") /\ 1 \in Int /\ -1 \in Int /\ 0 \in Int
      /\ 1 >= 1 /\ 1 + -1 = 0
  BY DEF Pushes
<1>2. Runs(C, <<I("pop")>>, 1, -1, "stays")
  BY <1>1, OnOne
<1>3. Runs(C, value \o <<I("pop")>>, 0, 1 + -1, "stays")
  BY ONLY <1>1, <1>2, Then
<1> QED BY <1>1, <1>3 DEF Leaves, emit_pop

LEMMA Assigned ==
    ASSUME NEW C, NEW value, Pushes(C, value), NEW slot \in Int
    PROVE  Leaves(C, emit_assignment(slot, value), "stays")
<1>1. /\ Runs(C, value, 0, 1, "stays") /\ 1 \in Int /\ -1 \in Int /\ 0 \in Int
      /\ 1 >= 1 /\ 1 + -1 = 0
  BY DEF Pushes
<1>2. Runs(C, <<Local("stloc", slot)>>, 1, -1, "stays")
  BY <1>1, OnOne
<1>3. Runs(C, value \o <<Local("stloc", slot)>>, 0, 1 + -1, "stays")
  BY ONLY <1>1, <1>2, Then
<1> QED BY <1>1, <1>3 DEF Leaves, emit_assignment

LEMMA Thrown ==
    ASSUME NEW C, NEW value, Pushes(C, value)
    PROVE  Leaves(C, emit_throw(value), "stays")
<1>1. /\ Runs(C, value, 0, 1, "stays") /\ 1 \in Int /\ -1 \in Int /\ 0 \in Int
      /\ 1 >= 1 /\ 1 + -1 = 0
  BY DEF Pushes
<1>2. Runs(C, <<I("throw")>>, 1, -1, "stays")
  BY <1>1, OnOne
<1>3. Runs(C, value \o <<I("throw")>>, 0, 1 + -1, "stays")
  BY ONLY <1>1, <1>2, Then
<1> QED BY <1>1, <1>3 DEF Leaves, emit_throw

LEMMA Returned ==
    ASSUME NEW C, NEW value, Pushes(C, value)
    PROVE  Leaves(C, emit_return(value), "returns")
<1>1. /\ Runs(C, value, 0, 1, "stays") /\ 1 \in Int /\ 0 \in Int /\ 1 + -1 = 0
      /\ 0 + 1 >= 1 /\ "stays" # "returns" /\ 0 + 1 = 1
  BY DEF Pushes
<1>2. Is(C, I("ret"), "ret", 0, 0, "", 0)
  BY Bare DEF Opcodes
<1>3. I("ret") \in Instructions(C) /\ Needs(I("ret")) = 1 /\ Effect(I("ret")) = -1 /\ I("ret").op \notin Jumps
  BY <1>2 DEF Is, Instructions, Needs, Effect, Jumps
<1>4. Runs(C, <<I("ret")>>, 1, -1, "returns")
  <2>1. PICK i : i = I("ret")
    OBVIOUS
  <2>2. /\ i \in Instructions(C) /\ 1 >= Needs(i) /\ i.op \notin Jumps
        /\ (i.op = "ret" => "returns" = "returns" /\ 1 = 1) /\ 1 \in Int
    BY <1>3, <2>1
  <2>3. Runs(C, <<i>>, 1, Effect(i), "returns")
    BY ONLY <2>2, One
  <2> QED BY <2>1, <2>3, <1>3
<1>5. Runs(C, value \o <<I("ret")>>, 0, 1 + -1, "returns")
  BY ONLY <1>1, <1>4, Both
<1> QED BY <1>1, <1>5 DEF Leaves, emit_return

\* an assignment to a property
LEMMA PropAssigned ==
    ASSUME NEW C, NEW value, NEW obj, Pushes(C, value), Pushes(C, obj)
    PROVE  Leaves(C, emit_assignprop(obj, value), "stays")
<1>1. /\ Runs(C, value, 0, 1, "stays") /\ Runs(C, obj, 0, 1, "stays") /\ 1 \in Int /\ 1 \in Nat /\ -2 \in Int
      /\ 0 \in Int /\ 2 \in Int /\ 2 >= 2 /\ 1 + 1 = 2 /\ 2 + -2 = 0
  BY DEF Pushes
<1>2. Runs(C, obj, 1, 1, "stays")
  BY <1>1, OverOperands
<1>3. Runs(C, value \o obj, 0, 1 + 1, "stays")
  BY ONLY <1>1, <1>2, Then
<1>4. Runs(C, <<I("stprop")>>, 2, -2, "stays")
  BY <1>1, Storing
<1>5. PICK a : a = value \o obj
  OBVIOUS
<1>6. Runs(C, a, 0, 2, "stays")
  BY <1>1, <1>3, <1>5
<1>7. Runs(C, a \o <<I("stprop")>>, 0, 2 + -2, "stays")
  BY ONLY <1>1, <1>4, <1>6, Then
<1> QED BY <1>1, <1>5, <1>7 DEF Leaves, emit_assignprop

\* a statement that does not return may stand where one may
LEMMA Anywhere ==
    ASSUME NEW C, NEW c, NEW ends, Leaves(C, c, "stays")
    PROVE  Leaves(C, c, ends)
<1>1. /\ Runs(C, c, 0, 0, "stays") /\ 0 \in Int /\ 0 >= 0 /\ "stays" # "returns"
  BY DEF Leaves
<1>2. Runs(C, c, 0, 0, ends)
  BY ONLY <1>1, Higher
<1> QED BY <1>2 DEF Leaves

\* nop, two statements one after the other, a block of statements
LEMMA Nops == ASSUME NEW C, NEW ends PROVE Leaves(C, <<I("nop")>>, ends)
<1>1. Empty \in Value /\ 0 \in Nat /\ 0 \in Int
  BY DEF Value
<1>2. Leaves(C, <<I("nop")>>, "stays")
  BY <1>1, Loads DEF Leaves
<1> QED BY <1>2, Anywhere

LEMMA Sequences ==
    ASSUME NEW C, NEW a, NEW b, NEW ends, Leaves(C, a, ends), Leaves(C, b, ends)
    PROVE  Leaves(C, a \o b, ends)
<1>1. /\ Runs(C, a, 0, 0, ends) /\ Runs(C, b, 0, 0, ends) /\ 0 \in Int /\ 0 + 0 >= 0 /\ 0 = 0 + 0
  BY DEF Leaves
<1>2. Runs(C, a \o b, 0, 0 + 0, ends)
  BY ONLY <1>1, Both
<1> QED BY <1>1, <1>2 DEF Leaves

LEMMA Blocks ==
    ASSUME NEW C, NEW statements \in Seq(Codes(C)), NEW ends,
           \A j \in 1..Len(statements) : Leaves(C, statements[j], ends)
    PROVE  Leaves(C, emit_block(statements), ends)
<1>1. Runs(C, FlattenSeq(statements), 0, Grown(0, Len(statements)), ends)
  <2>1. \A j \in 1..Len(statements) : Runs(C, statements[j], 0, 0, ends)
    BY DEF Leaves
  <2>2. 0 \in {0, 1}
    OBVIOUS
  <2> QED BY <2>1, <2>2, Flattens
<1>2. Leaves(C, FlattenSeq(statements), ends)
  BY <1>1 DEF Leaves, Grown
<1>3. Leaves(C, <<I("nop")>>, ends)
  BY Nops
<1> QED BY <1>2, <1>3, Sequences DEF emit_block

\* a jump forward or back within the code of a statement
LEMMA RelCode ==
    ASSUME NEW C, NEW op \in Jumps, NEW k \in Int
    PROVE  <<Rel(op, k)>> \in Codes(C) /\ Len(<<Rel(op, k)>>) = 1
<1>1. op \in Opcodes /\ op # "newobj"
  BY DEF Jumps, Opcodes
<1>2. Is(C, Rel(op, k), op, k, 0, "", 0)
  BY <1>1, Offset
<1>3. Rel(op, k) \in Instructions(C)
  BY <1>1, <1>2 DEF Is, Instructions
<1> QED BY <1>3 DEF Codes

\* the instructions of the code of a statement that follow the first o, up to the first r, are as
\* they should be
Stretch(c, ends, o, r) == \A i \in (o + 1)..r : At(c, 0, ends, i)

\* the parts of a statement: the code of a child, a conditional jump, a jump
Within(C, c, p, o, r, ends, h, d, m, mine) ==
    /\ c \in Codes(C) /\ p \in Codes(C) /\ Stands(p, c, o) /\ r = o + Len(p) /\ h \in Nat /\ d \in Nat
    /\ Runs(C, p, d, m, mine) /\ Rise(c)[o] = h /\ h >= d /\ (mine = "returns" => ends = "returns" /\ h = d)
\* the code of a child: of any kind, of an expression, of a statement
LEMMA Piece ==
    ASSUME NEW C, NEW c, NEW p, NEW o, NEW r, NEW ends, NEW h, NEW d, NEW m, NEW mine,
           Within(C, c, p, o, r, ends, h, d, m, mine)
    PROVE  Rise(c)[r] = h + m /\ Stretch(c, ends, o, r)
<1>0. /\ c \in Codes(C) /\ p \in Codes(C) /\ Stands(p, c, o) /\ r = o + Len(p) /\ h \in Nat /\ d \in Nat
      /\ Runs(C, p, d, m, mine) /\ Rise(c)[o] = h /\ h >= d /\ (mine = "returns" => ends = "returns" /\ h = d)
  BY DEF Within
<1>1. o \in Nat /\ Len(p) \in Nat
  BY <1>0, CodeFacts DEF Stands
<1>2. PICK z : z = 0
  OBVIOUS
<1>3. /\ z \in Int /\ d \in Int /\ c \in Codes(C) /\ Stands(p, c, o) /\ Runs(C, p, d, m, mine)
      /\ z + Rise(c)[o] >= d /\ (mine = "returns" => ends = "returns" /\ z + Rise(c)[o] = d)
  BY <1>0, <1>2
<1>4. Rise(c)[o + Len(p)] = Rise(c)[o] + m /\ \A i \in 1..Len(p) : At(c, z, ends, o + i)
  BY ONLY <1>3, Part
<1>5. ASSUME NEW i \in (o + 1)..r PROVE At(c, 0, ends, i)
  <2>1. i - o \in 1..Len(p) /\ o + (i - o) = i
    BY <1>0, <1>1
  <2> QED BY <2>1, <1>2, <1>4
<1> QED BY <1>0, <1>4, <1>5 DEF Stretch

LEMMA ChildValue ==
    ASSUME NEW C, NEW c \in Codes(C), NEW p, NEW o, NEW r, Stands(p, c, o), r = o + Len(p), NEW ends,
           Pushes(C, p), Rise(c)[o] = 0
    PROVE  Rise(c)[r] = 1 /\ Stretch(c, ends, o, r)
<1>1. PICK h, d, m, mine : h = 0 /\ d = 0 /\ m = 1 /\ mine = "stays"
  OBVIOUS
<1>2. Within(C, c, p, o, r, ends, h, d, m, mine)
  BY <1>1 DEF Pushes, Runs, Within
<1>3. Rise(c)[r] = h + m /\ Stretch(c, ends, o, r)
  BY ONLY <1>2, Piece
<1> QED BY <1>1, <1>3

LEMMA ChildStatement ==
    ASSUME NEW C, NEW c \in Codes(C), NEW p, NEW o, NEW r, Stands(p, c, o), r = o + Len(p), NEW ends,
           Leaves(C, p, ends), Rise(c)[o] = 0
    PROVE  Rise(c)[r] = 0 /\ Stretch(c, ends, o, r)
<1>1. PICK h, d, m, mine : h = 0 /\ d = 0 /\ m = 0 /\ mine = ends
  OBVIOUS
<1>2. Within(C, c, p, o, r, ends, h, d, m, mine)
  BY <1>1 DEF Leaves, Runs, Within
<1>3. Rise(c)[r] = h + m /\ Stretch(c, ends, o, r)
  BY ONLY <1>2, Piece
<1> QED BY <1>1, <1>3

\* the instruction at o is as it should be if its target is a place of height h
Lands(c, ends, o, r, k, h) ==
    \A to \in 0..Len(c) : to + 1 = r + k /\ Rise(c)[to] = h => Stretch(c, ends, o, r)
Branch(C, c, op, k, o, r, h) ==
    /\ c \in Codes(C) /\ (op = "jmp_true" \/ op = "jmp_false") /\ k \in Int /\ h \in Nat
    /\ Rise(c)[o] = h + 1 /\ Stands(<<Rel(op, k)>>, c, o) /\ r = o + 1
\* a jump that takes a condition, and one that does not
LEMMA Branching ==
    ASSUME NEW C, NEW c, NEW ends, NEW op, NEW k, NEW o, NEW r, NEW h, Branch(C, c, op, k, o, r, h)
    PROVE  Rise(c)[r] = h /\ Lands(c, ends, o, r, k, h)
<1>0. /\ c \in Codes(C) /\ (op = "jmp_true" \/ op = "jmp_false") /\ k \in Int /\ h \in Nat
      /\ Rise(c)[o] = h + 1 /\ Stands(<<Rel(op, k)>>, c, o) /\ r = o + 1
  BY DEF Branch
<1>1. PICK d, g : d = 0 /\ g = h + 1
  OBVIOUS
<1>2. /\ c \in Codes(C) /\ d \in Int /\ op \in Jumps /\ k \in Int /\ Stands(<<Rel(op, k)>>, c, o) /\ g \in Int
      /\ Rise(c)[o] = g /\ d + g >= 0 /\ (op # "jmp" => d + g >= 1) /\ (op = "jmp" => h = g) /\ (op # "jmp" => h = g - 1)
      /\ h \in Int
  BY <1>0, <1>1 DEF Jumps
<1>3. /\ Rise(c)[o + 1] = h
      /\ o + 1 + k \in 1..(Len(c) + 1) /\ Rise(c)[o + k] = h => At(c, d, ends, o + 1)
  BY ONLY <1>2, Jumping
<1>4. o \in Nat /\ Len(c) \in Nat
  BY <1>0, CodeFacts DEF Stands
<1>5. ASSUME NEW to \in 0..Len(c), to + 1 = r + k, Rise(c)[to] = h PROVE Stretch(c, ends, o, r)
  <2>1. o + 1 + k \in 1..(Len(c) + 1) /\ o + k = to
    BY <1>0, <1>4, <1>5
  <2>2. At(c, 0, ends, o + 1)
    BY <2>1, <1>1, <1>3, <1>5
  <2>3. \A i \in (o + 1)..r : i = o + 1
    BY <1>0, <1>4
  <2> QED BY <2>2, <2>3 DEF Stretch
<1> QED BY <1>0, <1>3, <1>5 DEF Lands

LEMMA Leaping ==
    ASSUME NEW C, NEW c \in Codes(C), NEW ends, NEW k \in Int,
           NEW o, NEW r, Stands(<<Rel("jmp", k)>>, c, o), r = o + 1, Rise(c)[o] = 0
    PROVE  Rise(c)[r] = 0 /\ Lands(c, ends, o, r, k, 0)
<1>1. PICK op, h, d, g : op = "jmp" /\ h = 0 /\ d = 0 /\ g = 0
  OBVIOUS
<1>2. /\ c \in Codes(C) /\ d \in Int /\ op \in Jumps /\ k \in Int /\ Stands(<<Rel(op, k)>>, c, o) /\ h \in Int
      /\ Rise(c)[o] = h /\ d + h >= 0 /\ (op # "jmp" => d + h >= 1) /\ (op = "jmp" => g = h) /\ (op # "jmp" => g = h - 1)
      /\ g \in Int
  BY <1>1 DEF Jumps
<1>3. /\ Rise(c)[o + 1] = g
      /\ o + 1 + k \in 1..(Len(c) + 1) /\ Rise(c)[o + k] = g => At(c, d, ends, o + 1)
  BY ONLY <1>2, Jumping
<1>4. o \in Nat /\ Len(c) \in Nat
  BY CodeFacts DEF Stands
<1>5. ASSUME NEW to \in 0..Len(c), to + 1 = r + k, Rise(c)[to] = 0 PROVE Stretch(c, ends, o, r)
  <2>1. o + 1 + k \in 1..(Len(c) + 1) /\ o + k = to
    BY <1>4, <1>5
  <2>2. At(c, 0, ends, o + 1)
    BY <2>1, <1>1, <1>3, <1>5
  <2>3. \A i \in (o + 1)..r : i = o + 1
    BY <1>4
  <2> QED BY <2>2, <2>3 DEF Stretch
<1> QED BY <1>1, <1>3, <1>5 DEF Lands

\* five pieces one after the other, and where each of them stands
Pieces(C, p, q, r, s, t) == {p, q, r, s, t} \subseteq Codes(C)
Layout(C, p, q, r, s, t) ==
    LET c == p \o q \o r \o s \o t
    IN  /\ c \in Codes(C) /\ Rise(c)[0] = 0
        /\ \E x, y, z, w, n \in Nat :
             /\ x = 0 + Len(p) /\ y = x + Len(q) /\ z = y + Len(r) /\ w = z + Len(s) /\ n = w + Len(t) /\ n = Len(c)
             /\ Stands(p, c, 0) /\ Stands(q, c, x) /\ Stands(r, c, y) /\ Stands(s, c, z) /\ Stands(t, c, w)
LEMMA Five ==
    ASSUME NEW C, NEW p, NEW q, NEW r, NEW s, NEW t, Pieces(C, p, q, r, s, t)
    PROVE  Layout(C, p, q, r, s, t)
<1>0. p \in Codes(C) /\ q \in Codes(C) /\ r \in Codes(C) /\ s \in Codes(C) /\ t \in Codes(C)
  BY DEF Pieces
<1> DEFINE c == p \o q \o r \o s \o t
<1>1. Len(p) \in Nat /\ Len(q) \in Nat /\ Len(r) \in Nat /\ Len(s) \in Nat /\ Len(t) \in Nat
  BY <1>0, CodeFacts
<1>2. p \o q \in Codes(C) /\ Len(p \o q) = Len(p) + Len(q)
  BY <1>0, Cat
<1>3. p \o q \o r \in Codes(C) /\ Len(p \o q \o r) = Len(p) + Len(q) + Len(r)
  BY <1>0, <1>2, Cat
<1>4. p \o q \o r \o s \in Codes(C) /\ Len(p \o q \o r \o s) = Len(p) + Len(q) + Len(r) + Len(s)
  BY <1>0, <1>3, Cat
<1>5. /\ c \in Codes(C) /\ Len(c) = Len(p) + Len(q) + Len(r) + Len(s) + Len(t)
      /\ Stands(p \o q \o r \o s, c, 0) /\ Stands(t, c, Len(p) + Len(q) + Len(r) + Len(s))
  BY <1>0, <1>4, Cat
<1> HIDE DEF c
<1>6. Len(c) \in Nat /\ Rise(c)[0] = 0
  BY <1>5, CodeFacts, RiseFacts DEF Rising
<1>7. Stands(p \o q \o r, c, 0) /\ Stands(s, c, 0 + (Len(p) + Len(q) + Len(r)))
  BY <1>0, <1>3, <1>5, <1>6, Splits
<1>8. Stands(p \o q, c, 0) /\ Stands(r, c, 0 + (Len(p) + Len(q)))
  BY <1>0, <1>2, <1>6, <1>7, Splits
<1>9. Stands(p, c, 0) /\ Stands(q, c, 0 + Len(p))
  BY <1>0, <1>6, <1>8, Splits
<1>10. PICK x, y, z, w, n : x = 0 + Len(p) /\ y = x + Len(q) /\ z = y + Len(r) /\ w = z + Len(s) /\ n = w + Len(t)
  OBVIOUS
<1>11. /\ 0 + (Len(p) + Len(q) + Len(r)) = z /\ 0 + (Len(p) + Len(q)) = y /\ 0 + Len(p) = x
       /\ Len(p) + Len(q) + Len(r) + Len(s) = w /\ Len(p) + Len(q) + Len(r) + Len(s) + Len(t) = n
       /\ x \in Nat /\ y \in Nat /\ z \in Nat /\ w \in Nat /\ n \in Nat
  BY ONLY <1>1, <1>10
<1>12. /\ n = Len(c) /\ Stands(p, c, 0) /\ Stands(q, c, x) /\ Stands(r, c, y) /\ Stands(s, c, z) /\ Stands(t, c, w)
  BY <1>5, <1>7, <1>8, <1>9, <1>11
<1>13. /\ c \in Codes(C) /\ Rise(c)[0] = 0
       /\ \E x1, y1, z1, w1, n1 \in Nat :
            /\ x1 = 0 + Len(p) /\ y1 = x1 + Len(q) /\ z1 = y1 + Len(r) /\ w1 = z1 + Len(s) /\ n1 = w1 + Len(t) /\ n1 = Len(c)
            /\ Stands(p, c, 0) /\ Stands(q, c, x1) /\ Stands(r, c, y1) /\ Stands(s, c, z1) /\ Stands(t, c, w1)
  BY <1>5, <1>6, <1>10, <1>11, <1>12
<1> QED BY <1>13 DEF c, Layout

\* the whole is as it should be when each of the five is
LEMMA FiveFit ==
    ASSUME NEW C, NEW c \in Codes(C), NEW ends, NEW x \in Nat, NEW y \in Nat, NEW z \in Nat, NEW w \in Nat, NEW n,
           n = Len(c), Rise(c)[n] = 0,
           Stretch(c, ends, 0, x), Stretch(c, ends, x, y), Stretch(c, ends, y, z), Stretch(c, ends, z, w), Stretch(c, ends, w, n)
    PROVE  Leaves(C, c, ends)
<1>0. n \in Nat
  BY CodeFacts
<1>1. ASSUME NEW i \in 1..n PROVE At(c, 0, ends, i)
  <2>1. i \in (0 + 1)..x \/ i \in (x + 1)..y \/ i \in (y + 1)..z \/ i \in (z + 1)..w \/ i \in (w + 1)..n
    BY <1>0
  <2> QED BY <2>1 DEF Stretch
<1> QED BY <1>1 DEF Leaves, Runs

\* if with or without else: cond, jump, then, jump, else
LEMMA Ifs ==
    ASSUME NEW C, NEW cond, NEW then, NEW else, NEW ends,
           Pushes(C, cond), Leaves(C, then, ends), Leaves(C, else, ends)
    PROVE  Leaves(C, emit_if(cond, then, else), ends)
<1> DEFINE j1 == <<Rel("jmp_false", Len(then) + 2)>> j2 == <<Rel("jmp", Len(else) + 1)>>
<1> DEFINE c == cond \o j1 \o then \o j2 \o else
<1>1. cond \in Codes(C) /\ then \in Codes(C) /\ else \in Codes(C)
  BY DEF Pushes, Leaves, Runs
<1>2. Len(cond) \in Nat /\ Len(then) \in Nat /\ Len(else) \in Nat
  BY <1>1, CodeFacts
<1>3. j1 \in Codes(C) /\ Len(j1) = 1 /\ j2 \in Codes(C) /\ Len(j2) = 1
  <2>1. "jmp" \in Jumps /\ "jmp_false" \in Jumps /\ Len(then) + 2 \in Int /\ Len(else) + 1 \in Int
    BY <1>2 DEF Jumps
  <2> QED BY <2>1, RelCode
<1> HIDE DEF j1, j2
<1>4. PICK x, y, z, w, n \in Nat :
       /\ c \in Codes(C) /\ Rise(c)[0] = 0
       /\ x = 0 + Len(cond) /\ y = x + Len(j1) /\ z = y + Len(then) /\ w = z + Len(j2) /\ n = w + Len(else) /\ n = Len(c)
       /\ Stands(cond, c, 0) /\ Stands(j1, c, x) /\ Stands(then, c, y) /\ Stands(j2, c, z) /\ Stands(else, c, w)
  <2>1. Pieces(C, cond, j1, then, j2, else)
    BY <1>1, <1>2, <1>3 DEF Pieces
  <2>2. Layout(C, cond, j1, then, j2, else)
    BY <2>1, Five
  <2> QED BY <2>2 DEF Layout
<1> HIDE DEF c
<1>5. Rise(c)[x] = 1 /\ Stretch(c, ends, 0, x)
  <2>1. PICK o : o = 0
    OBVIOUS
  <2>2. Stands(cond, c, o) /\ Rise(c)[o] = 0 /\ x = o + Len(cond)
    BY <1>4, <2>1
  <2>3. Rise(c)[x] = 1 /\ Stretch(c, ends, o, x)
    BY <1>1, <1>4, <2>2, ChildValue
  <2> QED BY <2>1, <2>3
<1>6. Rise(c)[y] = 0 /\ Lands(c, ends, x, y, Len(then) + 2, 0)
  <2>1. PICK op, k, h : op = "jmp_false" /\ k = Len(then) + 2 /\ h = 0
    OBVIOUS
  <2>2. Branch(C, c, op, k, x, y, h)
    BY <1>2, <1>3, <1>4, <1>5, <2>1 DEF j1, Branch
  <2>3. Rise(c)[y] = h /\ Lands(c, ends, x, y, k, h)
    BY ONLY <2>2, Branching
  <2> QED BY <2>1, <2>3
<1>7. Rise(c)[z] = 0 /\ Stretch(c, ends, y, z)
  BY <1>1, <1>4, <1>6, ChildStatement
<1>8. Rise(c)[w] = 0 /\ Lands(c, ends, z, w, Len(else) + 1, 0)
  <2>1. PICK k : k = Len(else) + 1
    OBVIOUS
  <2>2. k \in Int /\ Rise(c)[z] = 0 /\ Stands(<<Rel("jmp", k)>>, c, z) /\ w = z + 1
    BY <1>2, <1>3, <1>4, <1>7, <2>1 DEF j2
  <2>3. Rise(c)[w] = 0 /\ Lands(c, ends, z, w, k, 0)
    BY <1>4, <2>2, Leaping
  <2> QED BY <2>1, <2>3
<1>9. Rise(c)[n] = 0 /\ Stretch(c, ends, w, n)
  BY <1>1, <1>4, <1>8, ChildStatement
<1>10. Stretch(c, ends, x, y)
  <2>1. w \in 0..Len(c) /\ w + 1 = y + (Len(then) + 2)
    BY <1>2, <1>3, <1>4
  <2> QED BY <2>1, <1>6, <1>8 DEF Lands
<1>11. Stretch(c, ends, z, w)
  <2>1. n \in 0..Len(c) /\ n + 1 = w + (Len(else) + 1)
    BY <1>2, <1>3, <1>4
  <2> QED BY <2>1, <1>8, <1>9 DEF Lands
<1>12. Leaves(C, c, ends)
  BY <1>4, <1>5, <1>7, <1>9, <1>10, <1>11, FiveFit
<1> QED BY <1>12 DEF emit_if, c, j1, j2

\* while: nop, cond, jump, body, jump back
LEMMA Whiles ==
    ASSUME NEW C, NEW cond, NEW body, NEW ends, Pushes(C, cond), Leaves(C, body, ends)
    PROVE  Leaves(C, emit_while(cond, body), ends)
<1> DEFINE nop == <<I("nop")>> j1 == <<Rel("jmp_false", Len(body) + 2)>>
           j2 == <<Rel("jmp", -(Len(cond) + Len(body) + 1))>>
<1> DEFINE c == nop \o cond \o j1 \o body \o j2
<1>1. cond \in Codes(C) /\ body \in Codes(C) /\ nop \in Codes(C) /\ Leaves(C, nop, ends)
  BY Nops DEF Pushes, Leaves, Runs
<1>2. Len(cond) \in Nat /\ Len(body) \in Nat /\ Len(nop) = 1
  BY <1>1, CodeFacts
<1>3. j1 \in Codes(C) /\ Len(j1) = 1 /\ j2 \in Codes(C) /\ Len(j2) = 1
  <2>1. "jmp" \in Jumps /\ "jmp_false" \in Jumps /\ Len(body) + 2 \in Int /\ -(Len(cond) + Len(body) + 1) \in Int
    BY <1>2 DEF Jumps
  <2> QED BY <2>1, RelCode
<1> HIDE DEF nop, j1, j2
<1>4. PICK x, y, z, w, n \in Nat :
       /\ c \in Codes(C) /\ Rise(c)[0] = 0
       /\ x = 0 + Len(nop) /\ y = x + Len(cond) /\ z = y + Len(j1) /\ w = z + Len(body) /\ n = w + Len(j2) /\ n = Len(c)
       /\ Stands(nop, c, 0) /\ Stands(cond, c, x) /\ Stands(j1, c, y) /\ Stands(body, c, z) /\ Stands(j2, c, w)
  <2>1. Pieces(C, nop, cond, j1, body, j2)
    BY <1>1, <1>2, <1>3 DEF Pieces
  <2>2. Layout(C, nop, cond, j1, body, j2)
    BY <2>1, Five
  <2> QED BY <2>2 DEF Layout
<1> HIDE DEF c
<1>5. Rise(c)[x] = 0 /\ Stretch(c, ends, 0, x)
  <2>1. PICK o : o = 0
    OBVIOUS
  <2>2. Stands(nop, c, o) /\ Rise(c)[o] = 0 /\ x = o + Len(nop)
    BY <1>4, <2>1
  <2>3. Rise(c)[x] = 0 /\ Stretch(c, ends, o, x)
    BY <1>1, <1>4, <2>2, ChildStatement
  <2> QED BY <2>1, <2>3
<1>6. Rise(c)[y] = 1 /\ Stretch(c, ends, x, y)
  BY <1>1, <1>4, <1>5, ChildValue
<1>7. Rise(c)[z] = 0 /\ Lands(c, ends, y, z, Len(body) + 2, 0)
  <2>1. PICK op, k, h : op = "jmp_false" /\ k = Len(body) + 2 /\ h = 0
    OBVIOUS
  <2>2. Branch(C, c, op, k, y, z, h)
    BY <1>2, <1>3, <1>4, <1>6, <2>1 DEF j1, Branch
  <2>3. Rise(c)[z] = h /\ Lands(c, ends, y, z, k, h)
    BY ONLY <2>2, Branching
  <2> QED BY <2>1, <2>3
<1>8. Rise(c)[w] = 0 /\ Stretch(c, ends, z, w)
  BY <1>1, <1>4, <1>7, ChildStatement
<1>9. Rise(c)[n] = 0 /\ Lands(c, ends, w, n, -(Len(cond) + Len(body) + 1), 0)
  <2>1. PICK k : k = -(Len(cond) + Len(body) + 1)
    OBVIOUS
  <2>2. k \in Int /\ Rise(c)[w] = 0 /\ Stands(<<Rel("jmp", k)>>, c, w) /\ n = w + 1
    BY <1>2, <1>3, <1>4, <1>8, <2>1 DEF j2
  <2>3. Rise(c)[n] = 0 /\ Lands(c, ends, w, n, k, 0)
    BY <1>4, <2>2, Leaping
  <2> QED BY <2>1, <2>3
<1>10. Stretch(c, ends, y, z)
  <2>1. n \in 0..Len(c) /\ n + 1 = z + (Len(body) + 2)
    BY <1>2, <1>3, <1>4
  <2> QED BY <2>1, <1>7, <1>9 DEF Lands
<1>11. Stretch(c, ends, w, n)
  <2>1. x \in 0..Len(c) /\ x + 1 = n + (-(Len(cond) + Len(body) + 1))
    BY <1>2, <1>3, <1>4
  <2> QED BY <2>1, <1>9, <1>5 DEF Lands
<1>12. Leaves(C, c, ends)
  BY <1>4, <1>5, <1>6, <1>8, <1>9, <1>10, <1>11, FiveFit
<1> QED BY <1>12 DEF emit_while, c, nop, j1, j2

\* three elements; three pieces
LEMMA Threes ==
    ASSUME NEW a, NEW b, NEW c
    PROVE  <<a>> \o <<b>> \o <<c>> = <<a, b, c>>
<1>1. <<a>> \o <<b>> = <<a, b>>
  BY Pairs
<1> DEFINE T == {a, b, c}
<1>2. <<a, b>> \in Seq(T) /\ <<c>> \in Seq(T) /\ <<a, b, c>> \in Seq(T)
  OBVIOUS
<1>3. Len(<<a, b, c>>) = 3 /\ <<a, b, c>>[1] = a /\ <<a, b, c>>[2] = b /\ <<a, b, c>>[3] = c
  OBVIOUS
<1>4. /\ <<a, b>> \o <<c>> \in Seq(T) /\ Len(<<a, b>> \o <<c>>) = 3
      /\ (<<a, b>> \o <<c>>)[1] = a /\ (<<a, b>> \o <<c>>)[2] = b /\ (<<a, b>> \o <<c>>)[3] = c
  OBVIOUS
<1> HIDE DEF T
<1>5. \A i \in 1..3 : (<<a, b>> \o <<c>>)[i] = <<a, b, c>>[i]
  BY <1>3, <1>4
<1>6. <<a, b>> \o <<c>> = <<a, b, c>>
  BY ONLY <1>2, <1>3, <1>4, <1>5, SeqEqual
<1> QED BY <1>1, <1>6

LEMMA Joins ==
    ASSUME NEW C, NEW a \in Codes(C), NEW b \in Codes(C), NEW c \in Codes(C)
    PROVE  a \o b \o c = a \o (b \o c)
BY ConcatAssociative DEF Codes

\* for: init, jump, body with increment and nop, cond, jump back
LEMMA Fors ==
    ASSUME NEW C, NEW init, NEW cond, NEW increment, NEW body, NEW ends,
           Leaves(C, init, ends), Pushes(C, cond), Leaves(C, increment, ends), Leaves(C, body, ends)
    PROVE  Leaves(C, emit_for(init, cond, increment, body), ends)
<1> DEFINE k1 == Len(body) + Len(increment) + 2 k2 == -(Len(body) + Len(increment) + Len(cond) + 1)
<1> DEFINE nop == <<I("nop")>> j1 == <<Rel("jmp", k1)>> j2 == <<Rel("jmp_true", k2)>>
           round == body \o increment \o nop
<1> DEFINE c == init \o j1 \o round \o cond \o j2
<1>0. /\ init \in Codes(C) /\ cond \in Codes(C) /\ increment \in Codes(C) /\ body \in Codes(C)
      /\ nop \in Codes(C) /\ Leaves(C, nop, ends)
  BY Nops DEF Pushes, Leaves, Runs
<1>1. /\ init \in Codes(C) /\ cond \in Codes(C) /\ round \in Codes(C) /\ Leaves(C, round, ends)
      /\ Len(round) = Len(body) + Len(increment) + 1 /\ body \o increment \in Codes(C)
  <2>1. Leaves(C, body \o increment, ends) /\ body \o increment \in Codes(C) /\ Len(body \o increment) = Len(body) + Len(increment)
    BY <1>0, Sequences, Cat
  <2>2. Len(nop) = 1
    OBVIOUS
  <2> HIDE DEF nop
  <2>3. PICK bi : bi = body \o increment
    OBVIOUS
  <2>4. Leaves(C, bi, ends) /\ bi \in Codes(C) /\ Len(bi) = Len(body) + Len(increment)
    BY <2>1, <2>3
  <2>5. Leaves(C, bi \o nop, ends) /\ Len(bi \o nop) = Len(bi) + Len(nop)
    BY <1>0, <2>4, Sequences, Cat
  <2>6. Leaves(C, round, ends) /\ Len(round) = Len(body) + Len(increment) + 1
    BY <2>2, <2>3, <2>4, <2>5
  <2> QED BY <1>0, <2>1, <2>6 DEF Leaves, Runs
<1>2. Len(init) \in Nat /\ Len(cond) \in Nat /\ Len(increment) \in Nat /\ Len(body) \in Nat /\ k1 \in Int /\ k2 \in Int
  BY <1>0, CodeFacts
<1>3. j1 \in Codes(C) /\ Len(j1) = 1 /\ j2 \in Codes(C) /\ Len(j2) = 1
  <2>1. "jmp" \in Jumps /\ "jmp_true" \in Jumps
    BY DEF Jumps
  <2> HIDE DEF k1, k2
  <2> QED BY <1>2, <2>1, RelCode
<1> HIDE DEF nop, j1, j2, round, k1, k2
<1>4. PICK x, y, z, w, n \in Nat :
       /\ c \in Codes(C) /\ Rise(c)[0] = 0
       /\ x = 0 + Len(init) /\ y = x + Len(j1) /\ z = y + Len(round) /\ w = z + Len(cond) /\ n = w + Len(j2) /\ n = Len(c)
       /\ Stands(init, c, 0) /\ Stands(j1, c, x) /\ Stands(round, c, y) /\ Stands(cond, c, z) /\ Stands(j2, c, w)
  <2>1. Pieces(C, init, j1, round, cond, j2)
    BY <1>1, <1>2, <1>3 DEF Pieces
  <2>2. Layout(C, init, j1, round, cond, j2)
    BY <2>1, Five
  <2> QED BY <2>2 DEF Layout
<1> HIDE DEF c
<1>5. Rise(c)[x] = 0 /\ Stretch(c, ends, 0, x)
  <2>1. PICK o : o = 0
    OBVIOUS
  <2>2. Stands(init, c, o) /\ Rise(c)[o] = 0 /\ x = o + Len(init)
    BY <1>4, <2>1
  <2>3. Rise(c)[x] = 0 /\ Stretch(c, ends, o, x)
    BY <1>1, <1>4, <2>2, ChildStatement
  <2> QED BY <2>1, <2>3
<1>6. Rise(c)[y] = 0 /\ Lands(c, ends, x, y, k1, 0)
  <2>1. PICK k : k = k1
    OBVIOUS
  <2>2. k \in Int /\ Rise(c)[x] = 0 /\ Stands(<<Rel("jmp", k)>>, c, x) /\ y = x + 1
    BY <1>2, <1>3, <1>4, <1>5, <2>1 DEF j1
  <2>3. Rise(c)[y] = 0 /\ Lands(c, ends, x, y, k, 0)
    BY <1>4, <2>2, Leaping
  <2> QED BY <2>1, <2>3
<1>7. Rise(c)[z] = 0 /\ Stretch(c, ends, y, z)
  BY <1>1, <1>4, <1>6, ChildStatement
<1>8. Rise(c)[w] = 1 /\ Stretch(c, ends, z, w)
  BY <1>1, <1>4, <1>7, ChildValue
<1>9. Rise(c)[n] = 0 /\ Lands(c, ends, w, n, k2, 0)
  <2>1. PICK op, k, h : op = "jmp_true" /\ k = k2 /\ h = 0
    OBVIOUS
  <2>2. Branch(C, c, op, k, w, n, h)
    BY <1>2, <1>3, <1>4, <1>8, <2>1 DEF j2, Branch
  <2>3. Rise(c)[n] = h /\ Lands(c, ends, w, n, k, h)
    BY ONLY <2>2, Branching
  <2> QED BY <2>1, <2>3
<1>10. Stretch(c, ends, x, y)
  <2>1. z \in 0..Len(c) /\ z + 1 = y + (k1)
    BY <1>1, <1>2, <1>3, <1>4 DEF k1
  <2> QED BY <2>1, <1>6, <1>7 DEF Lands
<1>11. Stretch(c, ends, w, n)
  <2>1. y \in 0..Len(c) /\ y + 1 = n + (k2)
    BY <1>1, <1>2, <1>3, <1>4 DEF k2
  <2> QED BY <2>1, <1>9, <1>6 DEF Lands
<1>12. Leaves(C, c, ends)
  BY <1>4, <1>5, <1>7, <1>8, <1>9, <1>10, <1>11, FiveFit
<1>13. emit_for(init, cond, increment, body) = c
  <2>1. init \o j1 \in Codes(C)
    BY <1>0, <1>3, Cat
  <2>5. PICK a, bi : a = init \o j1 /\ bi = body \o increment
    OBVIOUS
  <2>6. a \in Codes(C) /\ bi \in Codes(C)
    BY <1>1, <2>1, <2>5
  <2>7. a \o body \o increment = a \o (body \o increment)
    <3>1. a \in Codes(C) /\ body \in Codes(C) /\ increment \in Codes(C)
      BY <1>0, <2>6
    <3> QED BY ONLY <3>1, Joins
  <2>8. a \o bi \o nop = a \o (bi \o nop)
    <3>1. a \in Codes(C) /\ bi \in Codes(C) /\ nop \in Codes(C)
      BY <1>0, <2>6
    <3> QED BY ONLY <3>1, Joins
  <2>2. init \o j1 \o body \o increment = init \o j1 \o (body \o increment)
    BY <2>5, <2>7
  <2>3. init \o j1 \o (body \o increment) \o nop = init \o j1 \o round
    BY <2>5, <2>8 DEF round
  <2>4. emit_for(init, cond, increment, body) = init \o j1 \o body \o increment \o nop \o cond \o j2
    BY DEF emit_for, j1, j2, k1, k2, nop
  <2> QED BY <2>2, <2>3, <2>4 DEF c
<1> QED BY <1>12, <1>13

\* two pieces of which the second begins where the first ends
LEMMA Follow ==
    ASSUME NEW C, NEW a, NEW b, NEW d \in Nat, NEW e \in Nat, NEW m, NEW n, NEW k,
           Runs(C, a, d, m, "stays"), Runs(C, b, e, n, "stays"), e = d + m, k = m + n
    PROVE  Runs(C, a \o b, d, k, "stays")
<1>1. /\ d \in Int /\ e \in Int /\ Runs(C, a, d, m, "stays") /\ Runs(C, b, e, n, "stays") /\ d + m >= e
      /\ "stays" # "returns"
  OBVIOUS
<1>2. Runs(C, a \o b, d, m + n, "stays")
  BY ONLY <1>1, Both
<1> QED BY <1>2

\* the calls of foreach: one operand, the iterator, is there already
LEMMA IteratorCalls ==
    ASSUME NEW C, NEW name \in {"get_iterator", "current", "move_next"}
    PROVE  /\ Runs(C, <<I("setcallee")>> \o <<Send(name, 0)>>, 1, 0, "stays")
           /\ Runs(C, <<I("dup")>> \o <<I("setcallee")>> \o <<Send(name, 0)>>, 1, 1, "stays")
<1> DEFINE dup == <<I("dup")>> set == <<I("setcallee")>> send == <<Send(name, 0)>>
<1>1. Runs(C, dup, 1, 1, "stays") /\ Runs(C, set, 1, 0, "stays") /\ Runs(C, set, 2, 0, "stays")
  <2>1. 1 \in Int /\ 1 >= 1 /\ 2 \in Int /\ 2 >= 1 /\ 0 \in Int
    OBVIOUS
  <2> QED BY <2>1, OnOne
<1>2. Runs(C, send, 1, 0, "stays")
  <2>1. name \in Names(C)
    BY DEF Names
  <2>2. PICK n \in Nat : n <= 0
    <3>1. 0 \in Nat /\ 0 <= 0
      OBVIOUS
    <3> QED BY <3>1
  <2>3. 1 \in Int /\ 1 >= n + 1
    BY <2>2
  <2>4. Runs(C, <<Send(name, n)>>, 1, -n, "stays")
    BY <2>1, <2>3, Sending
  <2>5. -n = 0
    BY <2>2
  <2>6. n = 0
    BY <2>2
  <2> QED BY <2>4, <2>5, <2>6
<1> HIDE DEF dup, set, send
<1>3. PICK zero, one, two : zero = 0 /\ one = 1 /\ two = 2
  OBVIOUS
<1>4. /\ one \in Int /\ two \in Int /\ two >= one /\ "stays" # "returns" /\ Runs(C, send, one, zero, "stays")
      /\ one \in Nat /\ two \in Nat /\ one = one + zero /\ two = one + one /\ two = two + zero
      /\ zero = zero + zero /\ one = one + zero /\ two = one + one
      /\ Runs(C, dup, one, one, "stays") /\ Runs(C, set, one, zero, "stays") /\ Runs(C, set, two, zero, "stays")
  BY <1>1, <1>2, <1>3
<1>5. Runs(C, send, two, zero, "stays")
  BY ONLY <1>4, Higher
<1>6. Runs(C, set \o send, one, zero, "stays")
  BY ONLY <1>4, Follow
<1>7. Runs(C, dup \o set, one, one, "stays")
  BY ONLY <1>4, Follow
<1>8. PICK on : on = dup \o set
  OBVIOUS
<1>9. Runs(C, on, one, one, "stays")
  BY <1>7, <1>8
<1>10. Runs(C, on \o send, one, one, "stays")
  BY ONLY <1>4, <1>5, <1>9, Follow
<1> QED BY <1>3, <1>6, <1>8, <1>10 DEF dup, set, send

\* foreach: the iterator stays on the stack while the body runs, so the body may not return
LEMMA Foreachs ==
    ASSUME NEW C, NEW slot \in Int, NEW collection, NEW body, NEW ends, Pushes(C, collection), Leaves(C, body, "stays")
    PROVE  Leaves(C, emit_foreach(slot, collection, body), ends)
<1> DEFINE k1 == -(Len(body) + 7)
<1> DEFINE get == <<I("setcallee")>> \o <<Send("get_iterator", 0)>>
           current == <<I("dup")>> \o <<I("setcallee")>> \o <<Send("current", 0)>>
           next == <<I("dup")>> \o <<I("setcallee")>> \o <<Send("move_next", 0)>>
           st == <<Local("stloc", slot)>>
           j1 == <<Rel("jmp_true", k1)>>
           pop == <<I("pop")>>
           first == collection \o get
           item == current \o st
           round == item \o body
<1> DEFINE c == first \o round \o next \o j1 \o pop
<1>0. /\ collection \in Codes(C) /\ body \in Codes(C) /\ Runs(C, body, 1, 0, "stays")
      /\ Runs(C, collection, 0, 1, "stays") /\ Len(body) \in Nat /\ k1 \in Int
  <2>1. 1 \in Nat
    OBVIOUS
  <2>2. body \in Codes(C) /\ Runs(C, body, 1, 0, "stays")
    BY <2>1, OverOperands DEF Leaves, Runs
  <2>3. Len(body) \in Nat
    BY <2>2, CodeFacts
  <2> QED BY <2>2, <2>3 DEF Pushes, Runs
<1>1. /\ Runs(C, get, 1, 0, "stays") /\ Runs(C, current, 1, 1, "stays") /\ Runs(C, next, 1, 1, "stays")
      /\ Runs(C, st, 2, -1, "stays") /\ Runs(C, pop, 1, -1, "stays")
  <2>1. 1 \in Int /\ 1 >= 1 /\ 2 \in Int /\ 2 >= 1
    OBVIOUS
  <2> QED BY <2>1, IteratorCalls, OnOne
<1>2. Len(current) = 3 /\ Len(next) = 3 /\ Len(st) = 1 /\ Len(pop) = 1 /\ Len(j1) = 1
  OBVIOUS
<1>3. j1 \in Codes(C)
  <2>1. "jmp_true" \in Jumps
    BY DEF Jumps
  <2> QED BY <1>0, <2>1, RelCode
<1> HIDE DEF get, current, next, st, j1, pop, k1
<1>4. /\ Pushes(C, first) /\ Runs(C, round, 1, 0, "stays") /\ Len(round) = 4 + Len(body) /\ item \in Codes(C)
  <2>1. PICK zero, one, two, less : zero = 0 /\ one = 1 /\ two = 2 /\ less = -1
    OBVIOUS
  <2>2. /\ zero \in Nat /\ one \in Nat /\ two \in Nat /\ one = zero + one /\ one = one + zero /\ two = one + one
        /\ zero = one + less /\ zero = zero + zero
        /\ Runs(C, collection, zero, one, "stays") /\ Runs(C, get, one, zero, "stays")
        /\ Runs(C, current, one, one, "stays") /\ Runs(C, st, two, less, "stays") /\ Runs(C, body, one, zero, "stays")
    BY <1>0, <1>1, <2>1
  <2>3. Runs(C, first, zero, one, "stays")
    BY ONLY <2>2, Follow
  <2>4. Runs(C, item, one, zero, "stays")
    BY ONLY <2>2, Follow
  <2> HIDE DEF item
  <2>5. Runs(C, round, one, zero, "stays")
    BY ONLY <2>2, <2>4, Follow
  <2>6. current \in Codes(C) /\ st \in Codes(C) /\ item \in Codes(C)
    BY <1>1, <2>4 DEF Runs
  <2>7. Len(item) = Len(current) + Len(st)
    BY <2>6, Cat DEF item
  <2>8. Len(round) = Len(item) + Len(body)
    BY <1>0, <2>6, Cat
  <2>9. Len(round) = 4 + Len(body)
    BY <1>0, <1>2, <2>7, <2>8
  <2> QED BY <2>1, <2>3, <2>5, <2>6, <2>9 DEF Pushes
<1> HIDE DEF first, item, round
<1>5. first \in Codes(C) /\ round \in Codes(C) /\ next \in Codes(C) /\ pop \in Codes(C)
  BY <1>1, <1>4 DEF Pushes, Runs
<1>6. PICK x, y, z, w, n \in Nat :
       /\ c \in Codes(C) /\ Rise(c)[0] = 0
       /\ x = 0 + Len(first) /\ y = x + Len(round) /\ z = y + Len(next) /\ w = z + Len(j1) /\ n = w + Len(pop) /\ n = Len(c)
       /\ Stands(first, c, 0) /\ Stands(round, c, x) /\ Stands(next, c, y) /\ Stands(j1, c, z) /\ Stands(pop, c, w)
  <2>1. Pieces(C, first, round, next, j1, pop)
    BY <1>3, <1>5 DEF Pieces
  <2>2. Layout(C, first, round, next, j1, pop)
    BY <2>1, Five
  <2> QED BY <2>2 DEF Layout
<1> HIDE DEF c
<1>7. Rise(c)[x] = 1 /\ Stretch(c, ends, 0, x)
  <2>1. PICK o : o = 0
    OBVIOUS
  <2>2. Stands(first, c, o) /\ Rise(c)[o] = 0 /\ x = o + Len(first)
    BY <1>6, <2>1
  <2>3. Rise(c)[x] = 1 /\ Stretch(c, ends, o, x)
    BY <1>4, <1>6, <2>2, ChildValue
  <2> QED BY <2>1, <2>3
<1>8. PICK zero, one, less, stays : zero = 0 /\ one = 1 /\ less = -1 /\ stays = "stays"
  OBVIOUS
<1>9. Rise(c)[y] = one + zero /\ Stretch(c, ends, x, y)
  <2>1. Within(C, c, round, x, y, ends, one, one, zero, stays)
    BY <1>4, <1>5, <1>6, <1>7, <1>8 DEF Within
  <2> QED BY ONLY <2>1, Piece
<1>10. Rise(c)[z] = one + one /\ Stretch(c, ends, y, z)
  <2>1. Within(C, c, next, y, z, ends, one, one, one, stays)
    BY <1>1, <1>5, <1>6, <1>8, <1>9 DEF Within
  <2> QED BY ONLY <2>1, Piece
<1>11. Rise(c)[w] = one /\ Lands(c, ends, z, w, k1, one)
  <2>1. PICK op : op = "jmp_true"
    OBVIOUS
  <2>2. Branch(C, c, op, k1, z, w, one)
    BY <1>0, <1>2, <1>6, <1>8, <1>10, <2>1 DEF j1, Branch
  <2> QED BY ONLY <2>2, Branching
<1>12. Rise(c)[n] = one + less /\ Stretch(c, ends, w, n)
  <2>1. Within(C, c, pop, w, n, ends, one, one, less, stays)
    BY <1>1, <1>5, <1>6, <1>8, <1>11 DEF Within
  <2> QED BY ONLY <2>1, Piece
<1>13. Stretch(c, ends, z, w)
  <2>1. x \in 0..Len(c) /\ x + 1 = w + k1
    BY <1>0, <1>2, <1>4, <1>6 DEF k1
  <2> QED BY <2>1, <1>7, <1>8, <1>11 DEF Lands
<1>14. Leaves(C, c, ends)
  <2>1. Rise(c)[n] = 0
    BY <1>8, <1>12
  <2> QED BY <1>6, <1>7, <1>9, <1>10, <1>12, <1>13, <2>1, FiveFit
<1>15. emit_foreach(slot, collection, body) = c
  <2>1. /\ <<I("setcallee"), Send("get_iterator", 0)>> = get
        /\ <<I("dup"), I("setcallee"), Send("current", 0), Local("stloc", slot)>> = current \o st
        /\ <<I("dup"), I("setcallee"), Send("move_next", 0), Rel("jmp_true", k1), I("pop")>> = next \o (j1 \o pop)
    <3>1. PICK a, b, e, f, g, h, i, j :
            /\ a = I("setcallee") /\ b = Send("get_iterator", 0) /\ e = I("dup") /\ f = Send("current", 0)
            /\ g = Local("stloc", slot) /\ h = Send("move_next", 0) /\ i = Rel("jmp_true", k1) /\ j = I("pop")
      OBVIOUS
    <3>2. /\ get = <<a>> \o <<b>> /\ current = <<e>> \o <<a>> \o <<f>> /\ st = <<g>>
          /\ next = <<e>> \o <<a>> \o <<h>> /\ j1 = <<i>> /\ pop = <<j>>
      BY <3>1 DEF get, current, st, next, j1, pop
    <3>3. get = <<a, b>>
      BY <3>2, Pairs
    <3>4. current = <<e, a, f>> /\ next = <<e, a, h>>
      BY <3>2, Threes
    <3>5. current \o st = <<e, a, f, g>>
      BY ONLY <3>2, <3>4, Quads
    <3>6. next \o (j1 \o pop) = <<e, a, h, i, j>>
      <4>1. <<e, a, h>> \o (<<i>> \o <<j>>) = <<e, a, h, i, j>>
        BY ONLY Quints
      <4> QED BY ONLY <3>2, <3>4, <4>1
    <3> QED BY <3>1, <3>3, <3>5, <3>6
  <2>2. emit_foreach(slot, collection, body) = collection \o get \o (current \o st) \o body \o (next \o (j1 \o pop))
    BY ONLY <2>1 DEF emit_foreach, k1
  <2>3. first \o item \o body = first \o round
    <3>1. first \in Codes(C) /\ item \in Codes(C) /\ body \in Codes(C)
      BY <1>0, <1>4, <1>5
    <3>2. first \o item \o body = first \o (item \o body)
      BY ONLY <3>1, Joins
    <3> QED BY <3>2 DEF round
  <2>4. first \o round \in Codes(C) /\ first \o round \o next \in Codes(C)
    BY <1>5, Cat
  <2>5. first \o round \o (next \o (j1 \o pop)) = c
    <3>1. j1 \o pop \in Codes(C)
      BY <1>3, <1>5, Cat
    <3>2. PICK fr, frn, jp : fr = first \o round /\ frn = fr \o next /\ jp = j1 \o pop
      OBVIOUS
    <3>3. fr \in Codes(C) /\ frn \in Codes(C) /\ jp \in Codes(C)
      BY <2>4, <3>1, <3>2
    <3>4. fr \o next \o jp = fr \o (next \o jp)
      <4>1. fr \in Codes(C) /\ next \in Codes(C) /\ jp \in Codes(C)
        BY <1>5, <3>3
      <4> QED BY ONLY <4>1, Joins
    <3>5. frn \o j1 \o pop = frn \o (j1 \o pop)
      <4>1. frn \in Codes(C) /\ j1 \in Codes(C) /\ pop \in Codes(C)
        BY <1>3, <1>5, <3>3
      <4> QED BY ONLY <4>1, Joins
    <3> QED BY <3>2, <3>4, <3>5 DEF c
  <2> QED BY <2>2, <2>3, <2>5 DEF first, item
<1> QED BY <1>14, <1>15

\* the default value of a parameter: test, jump, value, store
LEMMA Defaults ==
    ASSUME NEW C, NEW slot \in Int, NEW value, NEW ends, Pushes(C, value)
    PROVE  Leaves(C, DefaultParam(slot, value), ends)
<1> DEFINE k1 == Len(value) + 2
<1> DEFINE test == <<Local("ldloc", slot)>> \o <<Ld(Empty)>> \o <<[I("equal") EXCEPT !.name = "equal"]>>
           j1 == <<Rel("jmp_false", k1)>>
           set == emit_assignment(slot, value)
           nothing == <<>>
<1> DEFINE c == test \o j1 \o set \o nothing \o nothing
<1>0. 0 \in Nat /\ Empty \in Value /\ 2 \in Int /\ 2 >= 2 /\ "equal" \in Names(C) /\ 1 \in Nat
  BY DEF Value, Names
<1>1. /\ Runs(C, <<Local("ldloc", slot)>>, 0, 1, "stays") /\ Runs(C, <<Ld(Empty)>>, 1, 1, "stays")
      /\ Runs(C, <<[I("equal") EXCEPT !.name = "equal"]>>, 2, -1, "stays")
  BY <1>0, Loads, OnTwo
<1>2. Pushes(C, test)
  <2> DEFINE a == <<Local("ldloc", slot)>> b == <<Ld(Empty)>> e == <<[I("equal") EXCEPT !.name = "equal"]>>
  <2>1. PICK zero, one, two, less : zero = 0 /\ one = 1 /\ two = 2 /\ less = -1
    OBVIOUS
  <2>2. Runs(C, a, 0, 1, "stays") /\ Runs(C, b, 1, 1, "stays") /\ Runs(C, e, 2, -1, "stays") /\ test = a \o b \o e
    BY <1>1
  <2> HIDE DEF a, b, e, test
  <2>3. /\ zero \in Nat /\ one \in Nat /\ two \in Nat /\ one = zero + one /\ two = zero + two /\ two = one + one
        /\ one = two + less /\ Runs(C, a, zero, one, "stays") /\ Runs(C, b, one, one, "stays") /\ Runs(C, e, two, less, "stays")
    BY <2>1, <2>2
  <2>4. Runs(C, a \o b, zero, two, "stays")
    BY ONLY <2>3, Follow
  <2>5. PICK ab : ab = a \o b
    OBVIOUS
  <2>6. Runs(C, ab, zero, two, "stays")
    BY <2>4, <2>5
  <2>7. Runs(C, ab \o e, zero, one, "stays")
    BY ONLY <2>3, <2>6, Follow
  <2> QED BY <2>1, <2>2, <2>5, <2>7 DEF Pushes
<1>3. /\ Leaves(C, set, ends) /\ Leaves(C, nothing, ends)
  <2>1. 0 \in Int
    OBVIOUS
  <2>2. Leaves(C, nothing, ends)
    BY <2>1, Nil DEF Leaves
  <2> QED BY <2>2, Assigned, Anywhere
<1>4. Len(value) \in Nat /\ k1 \in Int /\ Len(set) = Len(value) + 1 /\ value \in Codes(C) /\ <<Local("stloc", slot)>> \in Codes(C)
  <2>1. value \in Codes(C)
    BY DEF Pushes, Runs
  <2>2. Len(value) \in Nat
    BY <2>1, CodeFacts
  <2>3. Runs(C, <<Local("stloc", slot)>>, 1, -1, "stays") /\ Len(<<Local("stloc", slot)>>) = 1
    <3>1. 1 \in Int /\ 1 >= 1
      OBVIOUS
    <3> QED BY <3>1, OnOne
  <2>4. <<Local("stloc", slot)>> \in Codes(C)
    BY <2>3 DEF Runs
  <2> QED BY <2>1, <2>2, <2>3, <2>4, Cat DEF emit_assignment
<1>5. Len(j1) = 1 /\ Len(nothing) = 0
  OBVIOUS
<1>6. j1 \in Codes(C)
  <2>1. "jmp_false" \in Jumps
    BY DEF Jumps
  <2> HIDE DEF k1
  <2> QED BY <1>4, <2>1, RelCode
<1> HIDE DEF test, set, nothing, j1, k1
<1>7. test \in Codes(C) /\ set \in Codes(C) /\ nothing \in Codes(C)
  BY <1>2, <1>3 DEF Pushes, Leaves, Runs
<1>8. PICK x, y, z, w, n \in Nat :
       /\ c \in Codes(C) /\ Rise(c)[0] = 0
       /\ x = 0 + Len(test) /\ y = x + Len(j1) /\ z = y + Len(set) /\ w = z + Len(nothing) /\ n = w + Len(nothing) /\ n = Len(c)
       /\ Stands(test, c, 0) /\ Stands(j1, c, x) /\ Stands(set, c, y) /\ Stands(nothing, c, z) /\ Stands(nothing, c, w)
  <2>1. Pieces(C, test, j1, set, nothing, nothing)
    BY <1>6, <1>7 DEF Pieces
  <2>2. Layout(C, test, j1, set, nothing, nothing)
    BY <2>1, Five
  <2> QED BY <2>2 DEF Layout
<1> HIDE DEF c
<1>9. Rise(c)[x] = 1 /\ Stretch(c, ends, 0, x)
  <2>1. PICK o : o = 0
    OBVIOUS
  <2>2. Stands(test, c, o) /\ Rise(c)[o] = 0 /\ x = o + Len(test)
    BY <1>8, <2>1
  <2>3. Rise(c)[x] = 1 /\ Stretch(c, ends, o, x)
    BY <1>2, <1>8, <2>2, ChildValue
  <2> QED BY <2>1, <2>3
<1>10. Rise(c)[y] = 0 /\ Lands(c, ends, x, y, k1, 0)
  <2>1. PICK op, h : op = "jmp_false" /\ h = 0
    OBVIOUS
  <2>2. Branch(C, c, op, k1, x, y, h)
    BY <1>4, <1>5, <1>8, <1>9, <2>1 DEF j1, Branch
  <2>3. Rise(c)[y] = h /\ Lands(c, ends, x, y, k1, h)
    BY ONLY <2>2, Branching
  <2> QED BY <2>1, <2>3
<1>11. Rise(c)[z] = 0 /\ Stretch(c, ends, y, z)
  BY <1>3, <1>8, <1>10, ChildStatement
<1>12. Rise(c)[w] = 0 /\ Stretch(c, ends, z, w)
  BY <1>3, <1>8, <1>11, ChildStatement
<1>13. Rise(c)[n] = 0 /\ Stretch(c, ends, w, n)
  BY <1>3, <1>8, <1>12, ChildStatement
<1>14. Stretch(c, ends, x, y)
  <2>1. z \in 0..Len(c) /\ z + 1 = y + k1
    BY <1>4, <1>5, <1>8 DEF k1
  <2> QED BY <2>1, <1>10, <1>11 DEF Lands
<1>15. Leaves(C, c, ends)
  BY <1>8, <1>9, <1>11, <1>12, <1>13, <1>14, FiveFit
<1>16. DefaultParam(slot, value) = c
  <2>1. test \o j1 = <<Local("ldloc", slot), Ld(Empty), [I("equal") EXCEPT !.name = "equal"], Rel("jmp_false", k1)>>
    <3>1. PICK a, b, e, f :
            /\ a = Local("ldloc", slot) /\ b = Ld(Empty) /\ e = [I("equal") EXCEPT !.name = "equal"]
            /\ f = Rel("jmp_false", k1)
      OBVIOUS
    <3>2. test = <<a>> \o <<b>> \o <<e>> /\ j1 = <<f>>
      BY <3>1 DEF test, j1
    <3>3. test = <<a, b, e>>
      BY <3>2, Threes
    <3>4. test \o j1 = <<a, b, e, f>>
      BY <3>2, <3>3, Quads
    <3> QED BY <3>1, <3>4
  <2>2. DefaultParam(slot, value) = test \o j1 \o value \o <<Local("stloc", slot)>>
    BY <2>1 DEF DefaultParam, k1
  <2>3. test \o j1 \in Codes(C)
    BY <1>6, <1>7, Cat
  <2>4. test \o j1 \o value \o <<Local("stloc", slot)>> = test \o j1 \o set
    BY <1>4, <2>3, Joins DEF set, emit_assignment
  <2>5. test \o j1 \o set \in Codes(C)
    BY <1>7, <2>3, Cat
  <2>6. test \o j1 \o set \o nothing = test \o j1 \o set
    BY <2>5, ConcatEmptySeq DEF Codes, nothing
  <2>7. c = test \o j1 \o set
    BY <2>5, <2>6, ConcatEmptySeq DEF Codes, nothing, c
  <2> QED BY <2>2, <2>4, <2>7
<1> QED BY <1>15, <1>16

(***************************************************************************)
(* Linking.  Code without marks has no handlers.                           *)
(***************************************************************************)
LEMMA Unmarked ==
    ASSUME NEW C, NEW code \in Codes(C)
    PROVE  TryCalls(code) = <<>>
<1> DEFINE calls == [i \in 1..Len(code) |->
        [j \in 1..Len(code[i].marks) |->
            [mark |-> code[i].marks[j],
             at |-> IF code[i].marks[j] = "end_catch" THEN i + 1 ELSE i]]]
<1>1. Len(code) \in Nat /\ \A i \in 1..Len(code) : Len(code[i].marks) = 0
  BY CodeFacts DEF Instructions, Records
<1>2. \A i \in 1..Len(code) : calls[i] \in Seq({})
  BY <1>1
<1>3. calls \in Seq(Seq({}))
  <2> DEFINE n == Len(code)
  <2>1. calls = [i \in 1..n |-> calls[i]]
    BY <1>1
  <2> HIDE DEF calls, n
  <2> QED BY <1>1, <1>2, <2>1 DEF n
<1>4. TryCalls(code) = FlattenSeq(calls)
  BY DEF TryCalls
<1> HIDE DEF calls
<1>5. FlattenSeq(calls) \in Seq({})
  <2>1. Len(calls) \in Nat
    BY <1>3
  <2>2. PICK f \in [0..Len(calls) -> Seq({})] : FlattenSeq(calls) = f[Len(calls)]
    BY <1>3, FlattenPrefixes
  <2> QED BY <2>1, <2>2
<1>6. \A s \in Seq({}) : s = <<>>
  OBVIOUS
<1> QED BY <1>4, <1>5, <1>6

\* the table of handlers is empty, however it is computed
LEMMA NoHandlers ==
    ASSUME NEW C, NEW code \in Codes(C)
    PROVE  Table(code) = [handlers |-> <<>>, ep |-> 0, jumps |-> <<>>] /\ Tries(code) = {}
<1> DEFINE calls == TryCalls(code)
<1>1. calls = <<>> /\ Len(calls) = 0 /\ 0..0 = {0}
  <2>1. calls = <<>>
    BY Unmarked
  <2> QED BY <2>1
<1> HIDE DEF calls
<1>2. Table(code) = [handlers |-> <<>>, ep |-> 0, jumps |-> <<>>]
  <2> DEFINE zero == [handlers |-> <<>>, ep |-> 0, jumps |-> <<>>]
             IsTable(t) == t = [i \in 0..Len(calls) |-> IF i = 0 THEN zero ELSE Record(t[i - 1], calls[i])]
  <2>1. Table(code) = (CHOOSE t : IsTable(t))[Len(calls)]
    BY DEF Table, calls
  <2> HIDE DEF zero
  <2>2. IsTable([i \in {0} |-> zero])
    BY <1>1
  <2>3. PICK t : IsTable(t) /\ Table(code) = t[Len(calls)]
    BY <2>1, <2>2
  <2> QED BY <1>1, <2>3 DEF zero
<1>3. Tries(code) = {}
  <2> DEFINE zero == [open |-> <<>>, tries |-> {}]
             IsFound(t) == t = [i \in 0..Len(calls) |-> IF i = 0 THEN zero ELSE Enclose(t[i - 1], calls[i])]
  <2>1. Tries(code) = (CHOOSE t : IsFound(t))[Len(calls)].tries
    BY DEF Tries, calls
  <2> HIDE DEF zero
  <2>2. IsFound([i \in {0} |-> zero])
    BY <1>1
  <2>3. PICK t : IsFound(t) /\ Tries(code) = t[Len(calls)].tries
    BY <2>1, <2>2
  <2> QED BY <1>1, <2>3 DEF zero
<1> QED BY <1>2, <1>3

\* FlattenSeq of the first e pieces
LEMMA Prefix ==
    ASSUME NEW T, NEW ss \in Seq(Seq(T)), NEW f \in [0..Len(ss) -> Seq(T)], f[0] = <<>>,
           \A i \in 1..Len(ss) : f[i] = f[i - 1] \o ss[i], NEW e \in 0..Len(ss)
    PROVE  FlattenSeq(SubSeq(ss, 1, e)) = f[e]
<1> DEFINE rr == SubSeq(ss, 1, e)
<1>1. e \in Nat /\ rr \in Seq(Seq(T)) /\ Len(rr) = e /\ \A i \in 1..e : rr[i] = ss[i] /\ i \in 1..Len(ss)
  OBVIOUS
<1> HIDE DEF rr
<1>2. PICK g \in [0..e -> Seq(T)] :
        g[0] = <<>> /\ (\A i \in 1..e : g[i] = g[i - 1] \o rr[i]) /\ FlattenSeq(rr) = g[e]
  BY <1>1, FlattenPrefixes
<1> DEFINE S == {k \in 0..e : f[k] = g[k]}
<1>3. 0 \in S
  BY <1>1, <1>2
<1>4. ASSUME NEW k \in 0..(e - 1), k \in S PROVE k + 1 \in S
  <2>1. k + 1 \in 1..e /\ (k + 1) - 1 = k /\ k + 1 \in 0..e
    BY <1>1
  <2>2. f[k + 1] = f[k] \o ss[k + 1] /\ g[k + 1] = g[k] \o rr[k + 1]
    BY <2>1, <1>1, <1>2
  <2> QED BY <2>1, <2>2, <1>1, <1>4
<1>5. e \in 0..e
  BY <1>1
<1> HIDE DEF S
<1>6. \A k \in 0..e : k \in S
  BY <1>1, <1>3, <1>4, Induction
<1> QED BY <1>2, <1>5, <1>6 DEF S, rr

\* the pieces ss one after the other; piece e stands at s[e - 1]
Offsets(C, ss, s) ==
    /\ s \in [0..Len(ss) -> Nat] /\ s[0] = 0
    /\ \A e \in 1..Len(ss) : s[e] = s[e - 1] + Len(ss[e])
    /\ FlattenSeq(ss) \in Codes(C) /\ Len(FlattenSeq(ss)) = s[Len(ss)]
    /\ \A e \in 1..Len(ss) :
         /\ Stands(ss[e], FlattenSeq(ss), s[e - 1])
         /\ Len(FlattenSeq(SubSeq(ss, 1, e - 1))) = s[e - 1]

\* pieces have their offsets
LEMMA Placed ==
    ASSUME NEW C, NEW ss \in Seq(Codes(C))
    PROVE  \E s : Offsets(C, ss, s)
<1> DEFINE n == Len(ss)
<1>1. PICK f \in [0..n -> Codes(C)] :
        f[0] = <<>> /\ (\A i \in 1..n : f[i] = f[i - 1] \o ss[i]) /\ FlattenSeq(ss) = f[n]
  BY FlattenPrefixes DEF Codes
<1>2. n \in Nat /\ \A i \in 1..n : ss[i] \in Codes(C)
  OBVIOUS
<1>3. \A e \in 0..n : FlattenSeq(SubSeq(ss, 1, e)) = f[e]
  <2>1. ss \in Seq(Seq(Instructions(C))) /\ f \in [0..Len(ss) -> Seq(Instructions(C))]
    BY <1>1 DEF Codes
  <2> QED BY <1>1, <2>1, Prefix
<1> HIDE DEF n
<1>4. \A e \in 0..n : f[e] \in Codes(C) /\ Len(f[e]) \in Nat
  BY <1>1, CodeFacts
<1> DEFINE s == [e \in 0..n |-> Len(f[e])]
<1>5. \A e \in 1..n : e \in 0..n /\ e - 1 \in 0..n
  BY <1>2
<1>6. s \in [0..n -> Nat] /\ s[0] = 0
  BY <1>1, <1>2, <1>4
<1>7. ASSUME NEW e \in 1..n
      PROVE  s[e] = s[e - 1] + Len(ss[e]) /\ Len(FlattenSeq(SubSeq(ss, 1, e - 1))) = s[e - 1]
  <2>1. f[e - 1] \in Codes(C) /\ ss[e] \in Codes(C)
    BY <1>2, <1>4, <1>5
  <2>2. Len(f[e - 1] \o ss[e]) = Len(f[e - 1]) + Len(ss[e])
    BY <2>1, Cat
  <2> QED BY <1>1, <1>3, <1>5, <2>2
<1>8. ASSUME NEW e \in 1..n PROVE Stands(ss[e], f[n], s[e - 1])
  <2> DEFINE S == {k \in 0..n : k >= e => Stands(ss[e], f[k], s[e - 1])}
  <2>1. 0 \in S
    BY <1>2
  <2>2. ASSUME NEW k \in 0..(n - 1), k \in S PROVE k + 1 \in S
    <3>1. k + 1 \in 1..n /\ k + 1 \in 0..n /\ (k + 1) - 1 = k /\ k \in 0..n
      BY <1>2
    <3>2. f[k] \in Codes(C) /\ ss[k + 1] \in Codes(C) /\ f[k + 1] = f[k] \o ss[k + 1] /\ f[k + 1] \in Codes(C)
      BY <3>1, <1>1, <1>2, <1>4
    <3>3. Len(f[k + 1]) = Len(f[k]) + Len(ss[k + 1]) /\ Stands(f[k], f[k + 1], 0) /\ Stands(ss[k + 1], f[k + 1], Len(f[k]))
      BY <3>2, Cat
    <3>4. CASE k + 1 = e
      BY <3>1, <3>3, <3>4
    <3>5. CASE k >= e
      <4>1. Stands(ss[e], f[k], s[e - 1])
        BY <2>2, <3>5
      <4> DEFINE o == s[e - 1]
      <4>2. o \in Nat /\ Len(f[k]) \in Nat /\ Len(ss[e]) \in Nat /\ Len(ss[k + 1]) \in Nat
        BY <1>5, <1>6, <1>4, <3>1, <1>2, CodeFacts
      <4> HIDE DEF o, s
      <4>3. \A j \in 1..Len(ss[e]) : o + j \in 1..Len(f[k]) /\ 0 + (o + j) = o + j
        BY <4>1, <4>2 DEF Stands, o
      <4>4. \A j \in 1..Len(ss[e]) : f[k + 1][o + j] = ss[e][j]
        BY <3>3, <4>1, <4>3 DEF Stands, o
      <4>5. o + Len(ss[e]) <= Len(f[k + 1])
        <5>1. o + Len(ss[e]) <= Len(f[k])
          BY <4>1 DEF Stands, o
        <5>2. Len(f[k + 1]) = Len(f[k]) + Len(ss[k + 1])
          BY <3>3
        <5>3. ASSUME NEW x \in Nat, NEW y \in Nat, NEW z \in Nat, NEW w \in Nat, NEW v, x + y <= z, v = z + w
              PROVE  x + y <= v
          BY ONLY <5>3
        <5> QED BY <4>2, <5>1, <5>2, <5>3
      <4>6. Stands(ss[e], f[k + 1], o)
        BY <4>2, <4>4, <4>5 DEF Stands
      <4> QED BY <3>1, <4>6 DEF o
    <3>6. CASE k + 1 < e
      BY <3>1, <3>6, <1>2
    <3> QED BY <3>4, <3>5, <3>6
  <2> HIDE DEF S
  <2>3. \A k \in 0..n : k \in S
    BY <1>2, <2>1, <2>2, Induction
  <2>4. n \in 0..n /\ n >= e
    BY <1>2
  <2> QED BY <2>3, <2>4 DEF S
<1>9. FlattenSeq(ss) \in Codes(C) /\ Len(FlattenSeq(ss)) = s[n]
  BY <1>1, <1>2, <1>4
<1> HIDE DEF s
<1>10. Offsets(C, ss, s)
  BY <1>1, <1>6, <1>7, <1>8, <1>9 DEF Offsets, n
<1> QED BY <1>10

\* every instruction is in one of the pieces, and in only one
LEMMA Owned ==
    ASSUME NEW n \in Nat, NEW s \in [0..n -> Nat], s[0] = 0, \A e \in 1..n : s[e - 1] < s[e]
    PROVE  /\ \A d, e \in 0..n : d <= e => s[d] <= s[e]
           /\ \A i \in 1..s[n] : \E e \in 1..n : s[e - 1] < i /\ i <= s[e]
           /\ \A i \in 1..s[n] : \A d, e \in 1..n :
                s[d - 1] < i /\ i <= s[d] /\ s[e - 1] < i /\ i <= s[e] => d = e
<1>1. ASSUME NEW d \in 0..n PROVE \A e \in 0..n : d <= e => s[d] <= s[e]
  <2> DEFINE S == {e \in 0..n : d <= e => s[d] <= s[e]}
  <2>1. 0 \in S
    OBVIOUS
  <2>2. ASSUME NEW k \in 0..(n - 1), k \in S PROVE k + 1 \in S
    <3>1. k + 1 \in 1..n /\ (k + 1) - 1 = k /\ k \in 0..n /\ k + 1 \in 0..n
      OBVIOUS
    <3>2. s[k] < s[k + 1] /\ s[k] \in Nat /\ s[k + 1] \in Nat /\ s[d] \in Nat
      BY <3>1
    <3>3. d <= k => s[d] <= s[k]
      BY <2>2
    <3>4. d <= k + 1 => d <= k \/ d = k + 1
      OBVIOUS
    <3> QED BY <3>1, <3>2, <3>3, <3>4
  <2> HIDE DEF S
  <2>3. \A k \in 0..n : k \in S
    BY <2>1, <2>2, Induction
  <2> QED BY <2>3 DEF S
<1>2. ASSUME NEW i \in 1..s[n] PROVE \E e \in 1..n : s[e - 1] < i /\ i <= s[e]
  <2> DEFINE S == {e \in 0..n : i <= s[e]}
  <2>1. s[n] \in Nat /\ i \in Nat /\ i > 0 /\ n \in 0..n /\ i <= s[n]
    OBVIOUS
  <2>2. S \in SUBSET Nat /\ S # {}
    <3>1. n \in 0..n /\ i <= s[n]
      BY <2>1
    <3>2. n \in S
      BY ONLY <3>1
    <3>3. \A e \in S : e \in Nat
      OBVIOUS
    <3> HIDE DEF S
    <3> QED BY <3>2, <3>3
  <2>3. PICK m \in S : \A k \in S : m <= k
    <3> HIDE DEF S
    <3> QED BY <2>2, Least
  <2>4. m # 0
    BY <2>1, <2>3
  <2>5. m - 1 \in 0..n /\ m \in 1..n /\ m - 1 \notin S
    BY <2>3, <2>4
  <2>6. s[m - 1] \in Nat
    BY <2>5
  <2> QED BY <2>1, <2>3, <2>5, <2>6
<1>3. ASSUME NEW i \in 1..s[n], NEW d \in 1..n, NEW e \in 1..n,
             s[d - 1] < i, i <= s[d], s[e - 1] < i, i <= s[e], d < e
      PROVE  FALSE
  <2>1. d \in 0..n /\ e - 1 \in 0..n /\ d <= e - 1
    BY <1>3
  <2>2. s[d] <= s[e - 1] /\ s[d] \in Nat /\ s[e - 1] \in Nat
    BY <1>1, <2>1
  <2>3. i \in Int
    OBVIOUS
  <2> QED BY <1>3, <2>2, <2>3
<1>4. \A d, e \in 1..n : d < e \/ e < d \/ d = e
  OBVIOUS
<1>5. \A i \in 1..s[n] : \A d, e \in 1..n :
                s[d - 1] < i /\ i <= s[d] /\ s[e - 1] < i /\ i <= s[e] => d = e
  BY <1>3, <1>4
<1> QED BY <1>1, <1>2, <1>5

\* a method that may be linked: it leaves one value over its locals when it returns, and goes on
\* inside itself
Sound(C, m) ==
    /\ m.params \in Nat /\ m.locals \in Nat /\ m.params <= m.locals /\ m.va_args = FALSE
    /\ Runs(C, m.code, 0, 0, "returns")
    /\ Len(m.code) > 0 /\ m.code[Len(m.code)].op = "ret"
    /\ \A i \in 1..Len(m.code) : m.code[i].op \in Jumps => i + m.code[i].k <= Len(m.code)

\* methods laid out: s[e] is where the code of method e ends, start[e] where it begins
Codings(all) == [e \in 1..Len(all) |-> all[e].code]

Laying(C, all, s, code, start) ==
    /\ Len(all) \in Nat /\ \A e \in 1..Len(all) : Sound(C, all[e])
    /\ Offsets(C, Codings(all), s)
    /\ code = Laid(all) /\ start = [e \in 1..Len(all) |-> s[e - 1] + 1]

LaidOut(C, all, s, code, start) ==
    /\ Len(all) \in Nat /\ Len(code) \in Nat /\ s \in [0..Len(all) -> Nat] /\ code \in Codes(C)
    /\ \A e \in 1..Len(all) :
         /\ s[e] = s[e - 1] + Len(all[e].code) /\ s[e - 1] < s[e] /\ start[e] = s[e - 1] + 1
         /\ s[e - 1] \in Nat /\ s[e] \in Nat /\ s[e] <= Len(code)
    /\ \A e \in 1..Len(all) :
         /\ Stands(all[e].code, code, s[e - 1])
         /\ all[e].code \in Codes(C) /\ Len(all[e].code) \in Nat /\ Len(all[e].code) > 0
         /\ all[e].locals \in Nat /\ all[e].params \in Nat
         /\ all[e].params <= all[e].locals
    /\ \A i \in 1..Len(code) : \E e \in 1..Len(all) : s[e - 1] < i /\ i <= s[e]
    /\ \A i \in 1..Len(code) : \A d, e \in 1..Len(all) :
         s[d - 1] < i /\ i <= s[d] /\ s[e - 1] < i /\ i <= s[e] => d = e
    /\ \A d, e \in 1..Len(all) : d < e => s[d] <= s[e - 1]

\* what follows for the offsets
LEMMA LayingFacts ==
    ASSUME NEW C, NEW all, NEW s, NEW code, NEW start, Laying(C, all, s, code, start)
    PROVE  LaidOut(C, all, s, code, start)
<1> DEFINE n == Len(all)
<1>1. n \in Nat /\ Len(Codings(all)) = n /\ \A e \in 1..n : Codings(all)[e] = all[e].code
  BY DEF Laying, Codings
<1> HIDE DEF n
<1>2. \A e \in 1..n : e \in 0..n /\ e - 1 \in 0..n
  BY <1>1
<1>3. code = FlattenSeq(Codings(all))
  BY DEF Laying, Laid, Codings
<1>4. /\ s \in [0..n -> Nat] /\ s[0] = 0 /\ code \in Codes(C) /\ Len(code) = s[n]
      /\ \A e \in 1..n : s[e] = s[e - 1] + Len(all[e].code) /\ Stands(all[e].code, code, s[e - 1])
  BY <1>1, <1>3 DEF Laying, Offsets
<1>5. \A e \in 1..n : Sound(C, all[e]) /\ start[e] = s[e - 1] + 1
  BY DEF Laying, n
<1>6. ASSUME NEW e \in 1..n
      PROVE  /\ all[e].code \in Codes(C) /\ Len(all[e].code) \in Nat /\ Len(all[e].code) > 0
             /\ all[e].locals \in Nat /\ all[e].params \in Nat
             /\ all[e].params <= all[e].locals /\ all[e].va_args = FALSE
  <2>1. Sound(C, all[e])
    BY <1>5
  <2>2. all[e].code \in Codes(C)
    BY <2>1 DEF Sound, Runs
  <2> QED BY <2>1, <2>2, CodeFacts DEF Sound
<1>7. ASSUME NEW e \in 1..n PROVE s[e - 1] < s[e]
  <2>1. s[e - 1] \in Nat /\ s[e] = s[e - 1] + Len(all[e].code)
    BY <1>2, <1>4
  <2>2. Len(all[e].code) \in Nat /\ Len(all[e].code) > 0
    BY <1>6
  <2> QED BY ONLY <2>1, <2>2
<1>8. /\ \A d, e \in 0..n : d <= e => s[d] <= s[e]
      /\ \A i \in 1..s[n] : \E e \in 1..n : s[e - 1] < i /\ i <= s[e]
      /\ \A i \in 1..s[n] : \A d, e \in 1..n :
                s[d - 1] < i /\ i <= s[d] /\ s[e - 1] < i /\ i <= s[e] => d = e
  BY <1>1, <1>4, <1>7, Owned
<1>9. Len(code) \in Nat
  BY <1>4, CodeFacts
<1>10. ASSUME NEW e \in 1..n
       PROVE  s[e - 1] \in Nat /\ s[e] \in Nat /\ s[e] <= Len(code)
  <2>1. n \in 0..n /\ e <= n
    BY <1>1
  <2>2. e \in 0..n /\ e - 1 \in 0..n
    BY <1>2
  <2>3. s[e - 1] \in Nat /\ s[e] \in Nat
    BY <1>4, <2>2
  <2>4. s[e] <= s[n]
    BY <1>8, <2>1, <2>2
  <2>5. s[n] = Len(code)
    BY <1>4
  <2> QED BY <2>3, <2>4, <2>5
<1>11. \A d, e \in 1..n : d < e => s[d] <= s[e - 1]
  <2>1. \A d, e \in 1..n : d < e => d <= e - 1 /\ d \in 0..n /\ e - 1 \in 0..n
    BY <1>1
  <2> QED BY <1>8, <2>1
<1>12. /\ \A i \in 1..Len(code) : \E e \in 1..n : s[e - 1] < i /\ i <= s[e]
       /\ \A i \in 1..Len(code) : \A d, e \in 1..n :
                s[d - 1] < i /\ i <= s[d] /\ s[e - 1] < i /\ i <= s[e] => d = e
  BY <1>4, <1>8
<1> QED BY <1>1, <1>4, <1>5, <1>6, <1>7, <1>9, <1>10, <1>11, <1>12 DEF n, LaidOut

\* what HeightsOf computes: the locals of the method, and what its code has pushed since
LEMMA HeightsLinked ==
    ASSUME NEW C, NEW all, NEW s, NEW code, NEW start, Laying(C, all, s, code, start)
    PROVE  \A e \in 1..Len(all) : \A j \in 0..(Len(all[e].code) - 1) :
             HeightsOf(all, start, code, {})[s[e - 1] + 1 + j] = all[e].locals + Rise(all[e].code)[j]
<1> DEFINE n == Len(all) N == Len(code)
<1> DEFINE Own(h, i) ==
      IF \E e \in 1..n : start[e] = i
      THEN LET e == CHOOSE e \in 1..n : start[e] = i
           IN  all[e].params + Fills(all[e].locals - all[e].params)
      ELSE IF \E t \in {} : t.catch = i
      THEN LET t == CHOOSE t \in {} : t.catch = i IN h[t.begin] + 1
      ELSE h[i - 1] + Effect(code[i - 1])
<1> DEFINE IsH(h) == h = [i \in 1..N |-> Own(h, i)]
<1>0. /\ n \in Nat /\ N \in Nat /\ s \in [0..n -> Nat] /\ code \in Codes(C)
      /\ \A e \in 1..n : /\ s[e] = s[e - 1] + Len(all[e].code) /\ s[e - 1] < s[e] /\ start[e] = s[e - 1] + 1
                        /\ s[e - 1] \in Nat /\ s[e] \in Nat /\ s[e] <= N
      /\ \A e \in 1..n : /\ Stands(all[e].code, code, s[e - 1])
                        /\ all[e].code \in Codes(C) /\ Len(all[e].code) \in Nat /\ Len(all[e].code) > 0
                        /\ all[e].locals \in Nat /\ all[e].params \in Nat
                        /\ all[e].params <= all[e].locals
      /\ \A i \in 1..N : \E e \in 1..n : s[e - 1] < i /\ i <= s[e]
  <2>1. LaidOut(C, all, s, code, start)
    BY LayingFacts
  <2> QED BY <2>1 DEF LaidOut
<1>00. \A i \in 1..N : \A d, e \in 1..n :
                s[d - 1] < i /\ i <= s[d] /\ s[e - 1] < i /\ i <= s[e] => d = e
  <2>1. LaidOut(C, all, s, code, start)
    BY LayingFacts
  <2> QED BY <2>1 DEF LaidOut
<1>1. HeightsOf(all, start, code, {}) = [i \in 1..N |-> (CHOOSE h : IsH(h))[i]]
  BY DEF HeightsOf
<1>2. ASSUME NEW h, NEW i \in 1..N, NEW e \in 1..n, start[e] = i
      PROVE  Own(h, i) = all[e].locals
  <2>1. PICK d \in 1..n : start[d] = i /\ Own(h, i) = all[d].params + Fills(all[d].locals - all[d].params)
    BY <1>2
  <2>2. d = e
    <3>1. start[d] = s[d - 1] + 1 /\ start[e] = s[e - 1] + 1 /\ s[d - 1] \in Nat /\ s[e - 1] \in Nat
          /\ s[d - 1] < s[d] /\ s[e - 1] < s[e] /\ s[d] \in Nat /\ s[e] \in Nat
      BY ONLY <1>0, <2>1, d \in 1..n, e \in 1..n
    <3>2. s[d - 1] < i /\ i <= s[d] /\ s[e - 1] < i /\ i <= s[e]
      BY ONLY <1>2, <2>1, <3>1
    <3> QED BY <1>00, <3>2
  <2>3. all[e].params \in Nat /\ all[e].locals \in Nat /\ all[e].params <= all[e].locals
    BY <1>0
  <2>4. all[e].params + Fills(all[e].locals - all[e].params) = all[e].locals
    BY <2>3 DEF Fills
  <2> QED BY <2>1, <2>2, <2>4
<1>3. ASSUME NEW h, NEW i \in 1..N, \A e \in 1..n : start[e] # i
      PROVE  Own(h, i) = h[i - 1] + Effect(code[i - 1])
  BY <1>3
<1> HIDE DEF Own, N, n
\* the instruction before one that begins no method
<1>4. ASSUME NEW i \in 1..N, NEW e \in 1..n, s[e - 1] < i, i <= s[e], \A d \in 1..n : start[d] # i
      PROVE  /\ i - 1 \in 1..N /\ s[e - 1] < i - 1 /\ i - 1 <= s[e]
             /\ Rise(all[e].code)[i - 1 - s[e - 1]]
                  = Rise(all[e].code)[i - 1 - 1 - s[e - 1]] + Effect(code[i - 1])
  <2> DEFINE c == all[e].code
  <2>1. /\ c \in Codes(C) /\ Stands(c, code, s[e - 1]) /\ s[e - 1] \in Nat /\ start[e] = s[e - 1] + 1
        /\ s[e] = s[e - 1] + Len(c) /\ Len(c) \in Nat /\ start[e] # i
    BY <1>0, <1>4
  <2>2. PICK o \in Nat, j \in Int, l \in Nat : o = s[e - 1] /\ j = i - 1 - o /\ l = Len(c)
    BY <2>1
  <2>3. i \in Nat /\ N \in Nat /\ i <= N /\ o < i /\ i <= o + l /\ o + 1 # i
    <3> QED BY <1>0, <1>4, <2>1, <2>2
  <2>4. j \in 1..l /\ i - 1 = o + j /\ i - 1 - 1 - o = j - 1 /\ i - 1 \in 1..N /\ o < i - 1 /\ i - 1 <= o + l
    <3>1. j = i - 1 - o /\ o \in Nat /\ l \in Nat /\ j \in Int
      BY <2>2
    <3> QED BY ONLY <2>3, <3>1
  <2> HIDE DEF c
  <2>5. code[o + j] = c[j]
    BY <2>1, <2>2, <2>4 DEF Stands
  <2>6. Rise(c)[j] = Rise(c)[j - 1] + Effect(c[j])
    BY <2>1, <2>2, <2>4, RiseFacts DEF Rising
  <2> QED BY <2>1, <2>2, <2>4, <2>5, <2>6 DEF c
<1> DEFINE At0(i) == CHOOSE e \in 1..n : s[e - 1] < i /\ i <= s[e]
<1> DEFINE H == [i \in 1..N |-> all[At0(i)].locals + Rise(all[At0(i)].code)[i - 1 - s[At0(i) - 1]]]
<1>5. ASSUME NEW i \in 1..N, NEW e \in 1..n, s[e - 1] < i, i <= s[e]
      PROVE  H[i] = all[e].locals + Rise(all[e].code)[i - 1 - s[e - 1]]
  <2>1. At0(i) \in 1..n /\ s[At0(i) - 1] < i /\ i <= s[At0(i)]
    BY <1>5
  <2>2. At0(i) = e
    BY <1>00, <1>5, <2>1
  <2> QED BY <2>2
<1> HIDE DEF H
<1>6. ASSUME NEW i \in 1..N PROVE H[i] = Own(H, i)
  <2>1. PICK e \in 1..n : s[e - 1] < i /\ i <= s[e]
    BY <1>0
  <2>2. H[i] = all[e].locals + Rise(all[e].code)[i - 1 - s[e - 1]]
    BY <1>5, <2>1
  <2>3. all[e].code \in Codes(C) /\ all[e].locals \in Nat /\ s[e - 1] \in Nat /\ start[e] = s[e - 1] + 1
        /\ s[e] = s[e - 1] + Len(all[e].code) /\ Len(all[e].code) \in Nat
    BY <1>0
  <2>4. CASE \E d \in 1..n : start[d] = i
    <3>1. PICK d \in 1..n : start[d] = i
      BY <2>4
    <3>2. d = e
      <4>1. s[d - 1] < i /\ i <= s[d]
        <5>1. start[d] = s[d - 1] + 1 /\ s[d - 1] \in Nat /\ s[d - 1] < s[d] /\ s[d] \in Nat
          BY <1>0
        <5> QED BY <3>1, <5>1
      <4> QED BY <1>00, <2>1, <4>1
    <3>3. Own(H, i) = all[e].locals
      BY <1>2, <3>1, <3>2
    <3>4. i - 1 - s[e - 1] = 0
      BY <2>3, <3>1, <3>2
    <3>5. Rise(all[e].code)[0] = 0
      BY <2>3, RiseFacts DEF Rising
    <3> QED BY <2>2, <2>3, <3>3, <3>4, <3>5
  <2>5. CASE \A d \in 1..n : start[d] # i
    <3>1. /\ i - 1 \in 1..N /\ s[e - 1] < i - 1 /\ i - 1 <= s[e]
          /\ Rise(all[e].code)[i - 1 - s[e - 1]] = Rise(all[e].code)[i - 1 - 1 - s[e - 1]] + Effect(code[i - 1])
      BY <1>4, <2>1, <2>5
    <3>2. H[i - 1] = all[e].locals + Rise(all[e].code)[i - 1 - 1 - s[e - 1]]
      BY <1>5, <3>1
    <3>3. Own(H, i) = H[i - 1] + Effect(code[i - 1])
      BY <1>3, <2>5
    <3>4. PICK l \in Int, r \in Int, f \in Int :
            l = all[e].locals /\ r = Rise(all[e].code)[i - 1 - 1 - s[e - 1]] /\ f = Effect(code[i - 1])
      <4>1. i - 1 - 1 - s[e - 1] \in 0..Len(all[e].code)
        BY <2>1, <2>3, <3>1
      <4>2. Rise(all[e].code)[i - 1 - 1 - s[e - 1]] \in Int
        BY <2>3, <4>1, RiseFacts DEF Rising
      <4>3. Effect(code[i - 1]) \in Int
        BY <1>0, <3>1, CodeFacts DEF N
      <4> QED BY <2>3, <4>2, <4>3
    <3> QED BY <2>2, <3>1, <3>2, <3>3, <3>4
  <2> QED BY <2>4, <2>5
<1>7. IsH(H)
  <2>1. H = [i \in 1..N |-> H[i]]
    BY DEF H
  <2> QED BY <1>6, <2>1
<1>8. PICK h : IsH(h) /\ HeightsOf(all, start, code, {}) = [i \in 1..N |-> h[i]]
  BY <1>1, <1>7
<1>9. \A i \in 1..N : h[i] = Own(h, i)
  BY <1>8
<1> HIDE DEF IsH
<1>10. ASSUME NEW e \in 1..n
       PROVE  \A j \in 0..(Len(all[e].code) - 1) :
                s[e - 1] + 1 + j \in 1..N /\ h[s[e - 1] + 1 + j] = all[e].locals + Rise(all[e].code)[j]
  <2> DEFINE c == all[e].code
  <2>1. /\ c \in Codes(C) /\ all[e].locals \in Nat /\ s[e - 1] \in Nat /\ start[e] = s[e - 1] + 1
        /\ s[e] = s[e - 1] + Len(c) /\ Len(c) \in Nat /\ Len(c) > 0 /\ s[e] <= N /\ N \in Nat
    BY <1>0
  <2>2. PICK o \in Nat, l \in Nat, m \in Nat : o = s[e - 1] /\ l = Len(c) /\ m = all[e].locals
    BY <2>1
  <2> DEFINE S == {j \in 0..(l - 1) : h[o + 1 + j] = m + Rise(c)[j]}
  <2> HIDE DEF c
  <2>3. \A j \in 0..(l - 1) : o + 1 + j \in 1..N /\ o < o + 1 + j /\ o + 1 + j <= s[e]
    BY <2>1, <2>2
  <2>4. 0 \in S
    <3>1. o + 1 + 0 = start[e] /\ 0 \in 0..(l - 1)
      BY <2>1, <2>2
    <3>2. h[o + 1 + 0] = m
      BY <1>2, <1>9, <2>2, <2>3, <3>1
    <3>3. Rise(c)[0] = 0
      BY <2>1, RiseFacts DEF Rising
    <3> QED BY <2>2, <3>1, <3>2, <3>3
  <2>6. l - 1 \in Nat
    BY <2>1, <2>2
  <2>5. ASSUME NEW j \in 0..(l - 1 - 1), j \in S PROVE j + 1 \in S
    <3>1. PICK i : i = o + 1 + (j + 1)
      OBVIOUS
    <3>2. j + 1 \in 0..(l - 1) /\ i - 1 = o + 1 + j /\ i - 1 - o = j + 1 /\ i - 1 - 1 - o = j /\ i # o + 1 /\ j \in 0..l /\ j \in 0..(l - 1)
          /\ i \in Nat
      <4>1. j \in Nat /\ j <= l - 2 /\ o \in Nat /\ l \in Nat
        BY <2>6
      <4> QED BY ONLY <3>1, <4>1
    <3>3. i \in 1..N /\ o < i /\ i <= s[e]
      BY <2>3, <3>1, <3>2
    <3>4. \A d \in 1..n : start[d] # i
      <4> SUFFICES ASSUME NEW d \in 1..n, start[d] = i PROVE FALSE
        OBVIOUS
      <4>1. start[d] = s[d - 1] + 1 /\ s[d - 1] \in Nat /\ s[d - 1] < s[d] /\ s[d] \in Nat
        BY <1>0
      <4>2. s[d - 1] < i /\ i <= s[d]
        BY <4>1
      <4>3. d = e
        BY <1>00, <2>2, <3>3, <4>2
      <4> QED BY <2>1, <2>2, <3>2, <4>3
    <3>5. Rise(c)[j + 1] = Rise(c)[j] + Effect(code[i - 1])
      <4>1. s[e - 1] < i /\ i <= s[e]
        BY <2>2, <3>3
      <4>2. Rise(c)[i - 1 - o] = Rise(c)[i - 1 - 1 - o] + Effect(code[i - 1])
        BY <1>4, <2>2, <3>3, <3>4, <4>1 DEF c
      <4> QED BY <3>2, <4>2
    <3>6. h[i] = h[i - 1] + Effect(code[i - 1])
      BY <1>3, <1>9, <3>3, <3>4
    <3>7. h[i - 1] = m + Rise(c)[j]
      BY <2>5, <3>2
    <3>8. PICK r \in Int, f \in Int : r = Rise(c)[j] /\ f = Effect(code[i - 1])
      <4>1. Rise(c)[j] \in Int
        BY <2>1, <2>2, <3>2, RiseFacts DEF Rising
      <4>2. i - 1 \in 1..N
        BY <2>3, <3>2
      <4>3. Effect(code[i - 1]) \in Int
        BY <1>0, <4>2, CodeFacts DEF N
      <4> QED BY <4>1, <4>3
    <3>9. h[i] = m + Rise(c)[j + 1]
      BY <2>2, <3>5, <3>6, <3>7, <3>8
    <3> QED BY <3>1, <3>2, <3>9
  <2> HIDE DEF S
  <2>7. \A j \in 0..(l - 1) : j \in S
    BY <2>4, <2>5, <2>6, Induction
  <2>8. \A j \in 0..(l - 1) : h[o + 1 + j] = m + Rise(c)[j]
    BY <2>7 DEF S
  <2> QED BY <2>2, <2>3, <2>8 DEF c
<1> QED BY <1>8, <1>10 DEF n

\* p is the program that Link makes of the methods all
Linking(C, all, s, code, start, p) ==
    /\ Laying(C, all, s, code, start)
    /\ p.code = Absolute(code, <<>>) /\ p.handlers = <<>> /\ p.height = HeightsOf(all, start, code, {})
    /\ DOMAIN p.entries = 1..Len(all) /\ all[1].locals = 0 /\ 1 \in 1..Len(all)
    /\ \A e \in 1..Len(all) :
         /\ p.entries[e].start = start[e] /\ p.entries[e].params = all[e].params
         /\ p.entries[e].locals = all[e].locals /\ p.entries[e].va_args = all[e].va_args
    /\ \A c \in C.ctors : c \in DOMAIN p.vtable /\ "_ctor" \in DOMAIN p.vtable[c]

\* a jump differs from the one of its method in its target only
LEMMA Moved ==
    ASSUME NEW C, NEW i \in Records(C), NEW k
    PROVE  /\ [i EXCEPT !.k = k].op = i.op /\ [i EXCEPT !.k = k].n = i.n /\ [i EXCEPT !.k = k].name = i.name
           /\ [i EXCEPT !.k = k].arity = i.arity /\ [i EXCEPT !.k = k].k = k
BY DEF Records

\* an instruction of the program is the one of the method; only a jump has got an absolute target
LEMMA Targets ==
    ASSUME NEW C, NEW code \in Codes(C), NEW p, p.code = Absolute(code, <<>>)
    PROVE  /\ Code(p) = 1..Len(code)
           /\ \A i \in 1..Len(code) :
                /\ p.code[i].op = code[i].op /\ p.code[i].op \in Opcodes
                /\ p.code[i].op \in Jumps => p.code[i].k = code[i].k + i /\ code[i].k \in Int
                /\ Needs(p.code[i]) = Needs(code[i]) /\ Effect(p.code[i]) = Effect(code[i])
                /\ p.code[i].op = "newobj" => p.code[i].n = 0 \/ p.code[i].name \in C.ctors
<1>1. Len(code) \in Nat /\ DOMAIN <<>> = {} /\ \A i \in 1..Len(code) : code[i] \in Instructions(C)
  BY CodeFacts
<1>2. p.code = [i \in 1..Len(code) |-> IF code[i].op \in Jumps THEN [code[i] EXCEPT !.k = code[i].k + i] ELSE code[i]]
  BY <1>1 DEF Absolute
<1>3. Code(p) = 1..Len(code)
  BY <1>1, <1>2 DEF Code
<1>4. ASSUME NEW i \in 1..Len(code)
      PROVE  /\ p.code[i].op = code[i].op /\ p.code[i].op \in Opcodes
             /\ p.code[i].op \in Jumps => p.code[i].k = code[i].k + i /\ code[i].k \in Int
             /\ Needs(p.code[i]) = Needs(code[i]) /\ Effect(p.code[i]) = Effect(code[i])
             /\ p.code[i].op = "newobj" => p.code[i].n = 0 \/ p.code[i].name \in C.ctors
  <2> DEFINE a == code[i] b == p.code[i] k == code[i].k + i
  <2>1. a \in Instructions(C) /\ a \in Records(C) /\ b = IF a.op \in Jumps THEN [a EXCEPT !.k = k] ELSE a
    BY <1>1, <1>2 DEF Instructions
  <2>2. a.op \in Opcodes /\ a.k \in Int /\ (a.op = "newobj" => a.n = 0 \/ a.name \in C.ctors)
    BY <2>1 DEF Instructions, Records
  <2> HIDE DEF a, b, k
  <2>3. b.op = a.op /\ b.n = a.n /\ b.name = a.name /\ b.arity = a.arity
    BY <2>1, Moved
  <2>4. b.op \in Jumps => b.k = k
    BY <2>1, <2>3, Moved
  <2>5. Needs(b) = Needs(a) /\ Effect(b) = Effect(a)
    BY <2>3 DEF Needs, Effect
  <2> QED BY <2>2, <2>3, <2>4, <2>5 DEF a, b, k
<1> QED BY <1>3, <1>4

\* the instructions InMethod says are a method's are those from its piece
LEMMA InMethods ==
    ASSUME NEW C, NEW all, NEW s, NEW code, NEW start, NEW p, Linking(C, all, s, code, start, p)
    PROVE  /\ LaidOut(C, all, s, code, start)
           /\ \A e \in 1..Len(all) : \A i : InMethod(p, e, i) <=> i \in 1..Len(code) /\ s[e - 1] < i /\ i <= s[e]
<1> DEFINE n == Len(all) N == Len(code)
<1>1. LaidOut(C, all, s, code, start)
  BY LayingFacts DEF Linking
<1>2. /\ n \in Nat /\ N \in Nat /\ code \in Codes(C)
      /\ \A e \in 1..n : start[e] = s[e - 1] + 1 /\ s[e - 1] \in Nat /\ s[e] \in Nat /\ s[e] <= N /\ s[e - 1] < s[e]
      /\ \A d, e \in 1..n : d < e => s[d] <= s[e - 1]
      /\ \A i \in 1..N : \E e \in 1..n : s[e - 1] < i /\ i <= s[e]
  BY <1>1 DEF LaidOut
<1>3. DOMAIN p.entries = 1..n /\ \A e \in 1..n : p.entries[e].start = start[e]
  BY DEF Linking
<1>4. Code(p) = 1..N
  <2>1. p.code = Absolute(code, <<>>)
    BY DEF Linking
  <2> QED BY <1>2, <2>1, Targets
<1> HIDE DEF n, N
<1>5. ASSUME NEW e \in 1..n, NEW i, InMethod(p, e, i) PROVE i \in 1..N /\ s[e - 1] < i /\ i <= s[e]
  <2>1. /\ i \in 1..N /\ s[e - 1] + 1 <= i
        /\ \A f \in 1..n : s[e - 1] + 1 < s[f - 1] + 1 => i < s[f - 1] + 1
    BY <1>2, <1>3, <1>4, <1>5 DEF InMethod
  <2>2. i \in Int /\ s[e - 1] < i
    BY <1>2, <2>1
  <2>3. PICK f \in 1..n : s[f - 1] < i /\ i <= s[f]
    BY <1>2, <2>1
  <2>4. s[f - 1] \in Nat /\ s[e - 1] \in Nat /\ s[f] \in Nat /\ s[e] \in Nat /\ s[e - 1] < s[e]
    BY <1>2
  <2>5. CASE e < f
    <3>1. s[e] <= s[f - 1]
      BY <1>2, <2>5
    <3>2. s[e - 1] + 1 < s[f - 1] + 1
      BY ONLY <2>4, <3>1
    <3>3. i < s[f - 1] + 1
      BY <2>1, <3>2
    <3> QED BY ONLY <2>2, <2>3, <2>4, <3>3
  <2>6. CASE f < e
    <3>1. s[f] <= s[e - 1]
      BY <1>2, <2>6
    <3> QED BY ONLY <2>2, <2>3, <2>4, <3>1
  <2>7. CASE e = f
    BY <2>1, <2>3, <2>7
  <2>8. e < f \/ f < e \/ e = f
    BY <1>2
  <2> QED BY <2>5, <2>6, <2>7, <2>8
<1>6. ASSUME NEW e \in 1..n, NEW i \in 1..N, s[e - 1] < i, i <= s[e] PROVE InMethod(p, e, i)
  <2>1. s[e - 1] + 1 <= i
    <3>1. s[e - 1] \in Nat /\ i \in Nat
      BY <1>2
    <3> QED BY ONLY <1>6, <3>1
  <2>2. ASSUME NEW f \in 1..n, s[e - 1] + 1 < s[f - 1] + 1 PROVE i < s[f - 1] + 1
    <3>1. s[f - 1] \in Nat /\ s[e - 1] \in Nat /\ s[f] \in Nat /\ s[e] \in Nat /\ s[f - 1] < s[f] /\ i \in Nat
      BY <1>2
    <3>2. ~(f < e)
      <4> SUFFICES ASSUME f < e PROVE FALSE
        OBVIOUS
      <4>1. s[f] <= s[e - 1]
        BY <1>2
      <4> QED BY ONLY <2>2, <3>1, <4>1
    <3>3. e # f
      BY <2>2, <3>1
    <3>4. e < f
      BY <1>2, <3>2, <3>3
    <3>5. s[e] <= s[f - 1]
      BY <1>2, <3>4
    <3> QED BY ONLY <1>6, <3>1, <3>5
  <2>3. \A f \in 1..n : p.entries[f].start = s[f - 1] + 1
    BY <1>2, <1>3
  <2>4. p.entries[e].start <= i /\ i \in Code(p)
    BY <1>4, <2>1, <2>3
  <2>5. \A f \in DOMAIN p.entries : p.entries[e].start < p.entries[f].start => i < p.entries[f].start
    BY <1>3, <2>2, <2>3
  <2> QED BY <2>4, <2>5 DEF InMethod
<1> QED BY <1>1, <1>5, <1>6 DEF n, N

\* each instruction of a linked method satisfies the condition of the verifier
LEMMA MethodHeights ==
    ASSUME NEW C, NEW all, NEW s, NEW code, NEW start, NEW p, Linking(C, all, s, code, start, p),
           NEW e \in 1..Len(all), NEW i, InMethod(p, e, i)
    PROVE  Heights(p, e, i)
<1> DEFINE c == all[e].code
<1>1. LaidOut(C, all, s, code, start) /\ \A j : InMethod(p, e, j) <=> j \in 1..Len(code) /\ s[e - 1] < j /\ j <= s[e]
  BY InMethods
<1>2. /\ code \in Codes(C) /\ Len(code) \in Nat
      /\ s[e] = s[e - 1] + Len(c) /\ s[e - 1] \in Nat /\ s[e] \in Nat /\ s[e] <= Len(code)
      /\ Stands(c, code, s[e - 1]) /\ c \in Codes(C) /\ Len(c) \in Nat /\ Len(c) > 0
      /\ all[e].locals \in Nat
  BY <1>1 DEF LaidOut
<1>3. /\ Runs(C, c, 0, 0, "returns") /\ c[Len(c)].op = "ret"
      /\ \A j \in 1..Len(c) : c[j].op \in Jumps => j + c[j].k <= Len(c)
  BY DEF Linking, Laying, Sound
<1>4. \A j \in 0..(Len(c) - 1) : p.height[s[e - 1] + 1 + j] = all[e].locals + Rise(c)[j]
  <2>1. Laying(C, all, s, code, start) /\ p.height = HeightsOf(all, start, code, {})
    BY DEF Linking
  <2> QED BY <2>1, HeightsLinked
<1>5. p.code = Absolute(code, <<>>) /\ p.entries[e].locals = all[e].locals
      /\ \A cl \in C.ctors : cl \in DOMAIN p.vtable /\ "_ctor" \in DOMAIN p.vtable[cl]
  BY DEF Linking
<1> HIDE DEF c
<1>6. PICK o \in Nat, l \in Nat, m \in Nat, N \in Nat, j \in Int :
        o = s[e - 1] /\ l = Len(c) /\ m = all[e].locals /\ N = Len(code) /\ j = i - o
  <2>1. i \in Int
    BY <1>1
  <2> QED BY <1>2, <2>1
<1>7. j \in 1..l /\ j - 1 \in 0..(l - 1) /\ j - 1 \in 0..l /\ j \in 0..l /\ i = o + j /\ o + 1 + (j - 1) = i /\ i \in 1..N
      /\ o + l = s[e] /\ o + l <= N
  <2>1. i \in 1..N /\ o < i /\ i <= s[e] /\ s[e] = o + l /\ s[e] <= N
    BY <1>1, <1>2, <1>6
  <2>2. o \in Nat /\ l \in Nat /\ N \in Nat /\ j \in Int /\ j = i - o
    BY <1>6
  <2> QED BY ONLY <2>1, <2>2
<1>8. /\ p.code[i].op = c[j].op /\ p.code[i].op \in Opcodes
      /\ p.code[i].op \in Jumps => p.code[i].k = c[j].k + i /\ c[j].k \in Int
      /\ Needs(p.code[i]) = Needs(c[j]) /\ Effect(p.code[i]) = Effect(c[j])
      /\ p.code[i].op = "newobj" => p.code[i].n = 0 \/ p.code[i].name \in C.ctors
  <2>1. code[i] = c[j]
    BY <1>2, <1>6, <1>7 DEF Stands
  <2>2. \A d \in 1..Len(code) :
          /\ p.code[d].op = code[d].op /\ p.code[d].op \in Opcodes
          /\ p.code[d].op \in Jumps => p.code[d].k = code[d].k + d /\ code[d].k \in Int
          /\ Needs(p.code[d]) = Needs(code[d]) /\ Effect(p.code[d]) = Effect(code[d])
          /\ p.code[d].op = "newobj" => p.code[d].n = 0 \/ p.code[d].name \in C.ctors
    BY <1>2, <1>5, Targets
  <2>3. i \in 1..Len(code)
    BY <1>6, <1>7
  <2> QED BY <2>1, <2>2, <2>3
<1>9. At(c, 0, "returns", j) /\ Rise(c) \in [0..l -> Int] /\ Rise(c)[j] = Rise(c)[j - 1] + Effect(c[j])
      /\ Effect(c[j]) \in Int /\ Needs(c[j]) \in Nat
  BY <1>2, <1>3, <1>6, <1>7, RiseFacts, CodeFacts DEF Rising, Runs
<1>10. PICK r \in Int, f \in Int, q \in Nat :
        r = Rise(c)[j - 1] /\ f = Effect(c[j]) /\ q = Needs(c[j]) /\ r >= q /\ Rise(c)[j] = r + f
  <2>1. Rise(c)[j - 1] \in Int
    BY <1>7, <1>9
  <2>2. 0 + Rise(c)[j - 1] >= Needs(c[j])
    BY <1>9 DEF At
  <2> QED BY <1>9, <2>1, <2>2
<1>11. p.height[i] = m + r
  BY <1>4, <1>6, <1>7, <1>10
<1>12. m + r \in Nat /\ m + r >= q
  BY <1>10
<1>13. ASSUME p.code[i].op \notin Stops PROVE InMethod(p, e, i + 1) /\ p.height[i + 1] = m + r + f
  <2>1. j # l
    BY <1>3, <1>6, <1>8, <1>13 DEF Stops
  <2>2. j \in 0..(l - 1) /\ o + 1 + j = i + 1 /\ i + 1 \in 1..N /\ o < i + 1 /\ i + 1 <= o + l
    <3>1. o \in Nat /\ l \in Nat /\ N \in Nat
      OBVIOUS
    <3> QED BY ONLY <1>7, <2>1, <3>1
  <2>3. InMethod(p, e, i + 1)
    BY <1>1, <1>6, <1>7, <2>2
  <2>4. p.height[i + 1] = m + Rise(c)[j]
    BY <1>4, <1>6, <2>2
  <2> QED BY <1>10, <2>3, <2>4
<1>14. ASSUME p.code[i].op \in Branches PROVE InMethod(p, e, p.code[i].k) /\ p.height[p.code[i].k] = m + r + f
  <2>1. p.code[i].op \in Jumps
    BY <1>14 DEF Branches, Jumps
  <2>2. c[j].op \in Jumps /\ p.code[i].k = c[j].k + i /\ c[j].k \in Int
    BY <1>8, <2>1
  <2>3. PICK k \in Int : k = c[j].k
    BY <2>2
  <2>4. j + k \in 1..(l + 1) /\ Rise(c)[j + k - 1] = Rise(c)[j] /\ j + k <= l /\ p.code[i].k = k + i
    BY <1>3, <1>6, <1>7, <1>9, <2>2, <2>3 DEF At
  <2>5. j + k - 1 \in 0..(l - 1) /\ o + 1 + (j + k - 1) = k + i /\ k + i \in 1..N /\ o < k + i /\ k + i <= o + l
    <3>1. o \in Nat /\ l \in Nat /\ N \in Nat /\ k \in Int /\ j + k \in 1..(l + 1) /\ j + k <= l
      BY <2>4
    <3> QED BY ONLY <1>7, <3>1
  <2>6. InMethod(p, e, k + i)
    BY <1>1, <1>6, <1>7, <2>5
  <2>7. p.height[k + i] = m + Rise(c)[j + k - 1]
    BY <1>4, <1>6, <2>5
  <2> QED BY <1>10, <2>4, <2>6, <2>7
<1>15. ASSUME p.code[i].op = "ret" PROVE m + r = m + 1
  <2>1. 0 + Rise(c)[j - 1] = 1
    BY <1>8, <1>9, <1>15 DEF At
  <2> QED BY <1>10, <2>1
<1>16. p.code[i].op = "newobj" =>
         p.code[i].n = 0 \/ (p.code[i].name \in DOMAIN p.vtable /\ "_ctor" \in DOMAIN p.vtable[p.code[i].name])
  BY <1>5, <1>8
<1> QED BY <1>5, <1>6, <1>8, <1>10, <1>11, <1>12, <1>13, <1>14, <1>15, <1>16 DEF Heights

\* the program satisfies all of them
LEMMA Linked ==
    ASSUME NEW C, NEW all, NEW s, NEW code, NEW start, NEW p, Linking(C, all, s, code, start, p)
    PROVE  Verified(p)
<1>1. /\ p.handlers = <<>> /\ p.code = Absolute(code, <<>>) /\ p.height = HeightsOf(all, start, code, {})
      /\ DOMAIN p.entries = 1..Len(all) /\ all[1].locals = 0 /\ 1 \in 1..Len(all)
      /\ \A e \in 1..Len(all) :
           /\ p.entries[e].start = start[e] /\ p.entries[e].params = all[e].params
           /\ p.entries[e].locals = all[e].locals /\ p.entries[e].va_args = all[e].va_args
           /\ all[e].va_args = FALSE
  BY DEF Linking, Laying, Sound
<1>2. LaidOut(C, all, s, code, start) /\ \A e \in 1..Len(all) : \A j : InMethod(p, e, j) <=> j \in 1..Len(code) /\ s[e - 1] < j /\ j <= s[e]
  BY InMethods
<1>3. \A i : ~Caught(p, i)
  <2>1. \A i : AroundAt(p, i) = {}
    BY <1>1 DEF AroundAt
  <2> QED BY <2>1 DEF Caught
<1>4. Guarded(p)
  BY <1>3 DEF Guarded
<1>5. p.entries[1].locals = 0
  BY <1>1
<1>6. ASSUME NEW e \in 1..Len(all)
      PROVE  /\ InMethod(p, e, p.entries[e].start)
             /\ p.height[p.entries[e].start] = p.entries[e].locals
             /\ p.entries[e].params <= p.entries[e].locals /\ ~p.entries[e].va_args
             /\ \A i \in Code(p) : InMethod(p, e, i) => Heights(p, e, i) /\ Raises(p, e, i)
  <2>1. /\ s[e - 1] < s[e] /\ start[e] = s[e - 1] + 1 /\ s[e - 1] \in Nat /\ s[e] \in Nat /\ s[e] <= Len(code)
        /\ all[e].locals \in Nat /\ all[e].params <= all[e].locals /\ all[e].code \in Codes(C)
        /\ Len(all[e].code) \in Nat /\ Len(all[e].code) > 0 /\ Len(code) \in Nat /\ code \in Codes(C)
    BY <1>2 DEF LaidOut
  <2>2. start[e] \in 1..Len(code) /\ s[e - 1] < start[e] /\ start[e] <= s[e]
    BY ONLY <2>1
  <2>3. InMethod(p, e, start[e])
    BY <1>2, <2>2
  <2>4. p.height[start[e]] = all[e].locals
    <3>1. \A j \in 0..(Len(all[e].code) - 1) : p.height[s[e - 1] + 1 + j] = all[e].locals + Rise(all[e].code)[j]
      <4>1. Laying(C, all, s, code, start)
        BY DEF Linking
      <4> QED BY <1>1, <4>1, HeightsLinked
    <3>2. 0 \in 0..(Len(all[e].code) - 1) /\ s[e - 1] + 1 + 0 = start[e]
      BY ONLY <2>1
    <3>3. Rise(all[e].code)[0] = 0
      BY <2>1, RiseFacts DEF Rising
    <3>4. p.height[s[e - 1] + 1 + 0] = all[e].locals + 0
      BY <3>1, <3>2, <3>3
    <3> QED BY <2>1, <3>2, <3>4
  <2>5. ASSUME NEW i, InMethod(p, e, i) PROVE Heights(p, e, i) /\ Raises(p, e, i)
    <3>1. Heights(p, e, i)
      BY <2>5, MethodHeights
    <3>2. i \in 1..Len(code)
      BY <1>2, <2>5
    <3>3. p.code[i].op \in Opcodes
      BY <1>1, <2>1, <3>2, Targets
    <3>4. p.code[i].op # "param_to_arr"
      BY <3>3 DEF Opcodes
    <3> QED BY <1>3, <3>1, <3>4 DEF Raises
  <2> QED BY <1>1, <2>1, <2>3, <2>4, <2>5
<1> QED BY <1>1, <1>4, <1>5, <1>6 DEF Verified

\* the code of a method: a body, and a return of null in case the body comes to its end
LEMMA MethodSound ==
    ASSUME NEW C, NEW m, m.params \in Nat, m.locals \in Nat, m.params <= m.locals, m.va_args = FALSE,
           NEW body, Leaves(C, body, "returns"), m.code = body \o <<Ld(Null), I("ret")>>
    PROVE  Sound(C, m)
<1> DEFINE tail == <<Ld(Null), I("ret")>> c == body \o tail
<1>1. Leaves(C, tail, "returns")
  <2>1. Pushes(C, emit_null)
    <3>1. 0 \in Int /\ Null \in Value
      BY DEF Value
    <3> QED BY <3>1, Simple
  <2>2. Leaves(C, emit_return(emit_null), "returns")
    BY <2>1, Returned
  <2>3. PICK a, b : a = Ld(Null) /\ b = I("ret")
    OBVIOUS
  <2>4. <<a>> \o <<b>> = <<a, b>>
    BY ONLY Pairs
  <2> QED BY <2>2, <2>3, <2>4 DEF emit_return, emit_null
<1>2. Len(tail) = 2 /\ tail[1] = Ld(Null) /\ tail[2] = I("ret")
  OBVIOUS
<1>3. tail[1].op = "ld" /\ tail[2].op = "ret"
  BY <1>2 DEF Ld, I
<1> HIDE DEF tail
<1>4. Leaves(C, c, "returns")
  BY <1>1, Sequences
<1>5. body \in Codes(C) /\ tail \in Codes(C) /\ \A i \in 1..Len(body) : At(body, 0, "returns", i)
  BY <1>1 DEF Leaves, Runs
<1>6. Len(body) \in Nat /\ Len(c) = Len(body) + 2 /\ Stands(body, c, 0) /\ Stands(tail, c, Len(body))
  BY <1>2, <1>5, Cat, CodeFacts
<1>7. PICK l \in Nat : l = Len(body)
  BY <1>6
<1> HIDE DEF c
<1>8. c[l + 1].op = "ld" /\ c[l + 2].op = "ret"
  <2>1. 1 \in 1..Len(tail) /\ 2 \in 1..Len(tail)
    BY <1>2
  <2> QED BY <1>3, <1>6, <1>7, <2>1 DEF Stands
<1>9. Len(c) = l + 2 /\ Len(c) > 0 /\ c[Len(c)].op = "ret"
  BY <1>6, <1>7, <1>8
<1>10. ASSUME NEW i \in 1..Len(c), c[i].op \in Jumps PROVE i + c[i].k <= Len(c)
  <2>1. i # l + 1 /\ i # l + 2
    BY <1>8, <1>10 DEF Jumps
  <2>2. i \in 1..l /\ 0 + i = i
    BY <1>9, <2>1
  <2>3. c[i] = body[i]
    <3>1. c[0 + i] = body[i]
      BY <1>6, <1>7, <2>2 DEF Stands
    <3> QED BY <2>2, <3>1
  <2>4. i + body[i].k \in 1..(l + 1)
    BY <1>5, <1>7, <1>10, <2>2, <2>3 DEF At
  <2>5. PICK t : t = i + body[i].k
    OBVIOUS
  <2>6. t \in 1..(l + 1) /\ t = i + c[i].k
    BY <2>3, <2>4, <2>5
  <2>7. t <= l + 2
    BY <2>6
  <2> QED BY <1>9, <2>6, <2>7
<1> QED BY <1>4, <1>9, <1>10 DEF Sound, Leaves, c, tail

\* the bootstrap entry: call main, nop, return
LEMMA BootstrapSound ==
    ASSUME NEW C
    PROVE  Sound(C, emit_bootstrap) /\ emit_bootstrap.locals = 0
<1> DEFINE call == [I("call") EXCEPT !.k = 2]
<1>1. PICK a, b, r : a = call /\ b = I("nop") /\ r = I("ret")
  OBVIOUS
<1>2. Is(C, a, "call", 2, 0, "", 0)
  <2>1. 2 \in Int /\ "call" \in Opcodes
    BY DEF Opcodes
  <2> QED BY <1>1, <2>1, Bare, Changed
<1>3. Runs(C, <<a>>, 0, 1, "stays")
  <2>1. Needs(a) = 0
    BY <1>2 DEF Is, Needs
  <2>2. Effect(a) = 1
    <3>1. Effect(a) = 1 - a.n /\ a.n = 0
      BY <1>2 DEF Is, Effect
    <3> QED BY <3>1
  <2>3. 0 \in Int /\ 0 >= 0
    OBVIOUS
  <2> QED BY <1>2, <2>1, <2>2, <2>3, Single
<1>4. Runs(C, <<b>>, 1, 0, "stays")
  <2>1. 1 \in Nat /\ Null \in Value /\ 0 \in Int
    BY DEF Value
  <2> QED BY <1>1, <2>1, Loads
<1>5. Pushes(C, <<a>> \o <<b>>)
  <2>1. PICK zero, one, x, y : zero = 0 /\ one = 1 /\ x = <<a>> /\ y = <<b>>
    OBVIOUS
  <2>2. zero \in Nat /\ one \in Nat /\ one = zero + one /\ one = one + zero
        /\ Runs(C, x, zero, one, "stays") /\ Runs(C, y, one, zero, "stays")
    BY <1>3, <1>4, <2>1
  <2>3. Runs(C, x \o y, zero, one, "stays")
    BY ONLY <2>2, Follow
  <2> QED BY <2>1, <2>3 DEF Pushes
<1>6. Leaves(C, <<a>> \o <<b>> \o <<r>>, "returns")
  BY <1>1, <1>5, Returned DEF emit_return
<1>7. <<a>> \o <<b>> \o <<r>> = <<a, b, r>>
  BY ONLY Threes
<1>8. emit_bootstrap.code = <<a, b, r>> /\ emit_bootstrap.locals = 0 /\ emit_bootstrap.params = 0 /\ emit_bootstrap.va_args = FALSE
  BY <1>1 DEF emit_bootstrap
<1> HIDE DEF call
<1>9. a.op = "call" /\ b.op = "nop" /\ r.op = "ret"
  BY <1>1, <1>2 DEF Is, I
<1>10. PICK c : c = <<a, b, r>>
  OBVIOUS
<1>11. Len(c) = 3 /\ c[1] = a /\ c[2] = b /\ c[3] = r
  BY <1>10
<1>12. c[Len(c)].op = "ret" /\ \A i \in 1..Len(c) : c[i].op \notin Jumps
  BY <1>9, <1>11 DEF Jumps
<1>13. Runs(C, c, 0, 0, "returns")
  BY <1>6, <1>7, <1>10 DEF Leaves
<1> QED BY <1>8, <1>10, <1>11, <1>12, <1>13 DEF Sound

\* so Link makes a verified program of any number of such methods
LEMMA LinkVerified ==
    ASSUME NEW C, NEW M, NEW methods \in Seq(M), NEW vtable,
           \A e \in 1..Len(methods) : Sound(C, methods[e]),
           \A c \in C.ctors : c \in DOMAIN vtable /\ "_ctor" \in DOMAIN vtable[c]
    PROVE  Verified(Link(methods, vtable))
<1> DEFINE all == <<emit_bootstrap>> \o methods
<1> DEFINE W == M \cup {emit_bootstrap}
<1> DEFINE ss == Codings(all)
<1> DEFINE code == Laid(all)
<1>1. all \in Seq(W) /\ Len(all) = Len(methods) + 1 /\ Len(methods) \in Nat /\ all[1] = emit_bootstrap
      /\ \A e \in 2..Len(all) : all[e] = methods[e - 1]
  <2>1. <<emit_bootstrap>> \in Seq(W) /\ methods \in Seq(W) /\ Len(<<emit_bootstrap>>) = 1 /\ <<emit_bootstrap>>[1] = emit_bootstrap
    OBVIOUS
  <2>2. PICK b : b = <<emit_bootstrap>>
    OBVIOUS
  <2> HIDE DEF W
  <2>3. b \o methods \in Seq(W) /\ Len(b \o methods) = Len(methods) + 1 /\ Len(methods) \in Nat /\ (b \o methods)[1] = b[1]
        /\ \A e \in 2..(Len(methods) + 1) : (b \o methods)[e] = methods[e - 1]
    BY <2>1, <2>2
  <2> QED BY <2>1, <2>2, <2>3
<1> HIDE DEF all, W
<1>2. ASSUME NEW e \in 1..Len(all) PROVE Sound(C, all[e])
  <2>1. CASE e = 1
    BY <1>1, <2>1, BootstrapSound
  <2>2. CASE e # 1
    <3>1. e \in 2..Len(all) /\ e - 1 \in 1..Len(methods)
      BY <1>1, <2>2
    <3> QED BY <1>1, <3>1
  <2> QED BY <2>1, <2>2
<1>3. Len(all) \in Nat /\ ss \in Seq(Codes(C)) /\ Len(ss) = Len(all) /\ \A e \in 1..Len(all) : ss[e] = all[e].code
  <2>1. Len(all) \in Nat /\ \A e \in 1..Len(all) : all[e].code \in Codes(C)
    <3>1. \A e \in 1..Len(all) : all[e].code \in Codes(C)
      BY <1>2 DEF Sound, Runs
    <3> QED BY <1>1, <3>1
  <2> QED BY <2>1 DEF Codings
<1>4. PICK s : Offsets(C, ss, s)
  BY <1>3, Placed
<1> DEFINE start == [e \in 1..Len(all) |-> s[e - 1] + 1]
<1>5. Laying(C, all, s, code, start)
  BY <1>2, <1>3, <1>4 DEF Laying
<1>6. code \in Codes(C)
  BY <1>3, <1>4 DEF Offsets, Laid, Codings
<1>7. Table(code) = [handlers |-> <<>>, ep |-> 0, jumps |-> <<>>] /\ Tries(code) = {}
  BY <1>6, NoHandlers
<1>8. ASSUME NEW e \in 1..Len(all)
      PROVE  1 + Len(Laid(SubSeq(all, 1, e - 1))) = s[e - 1] + 1
  <2> DEFINE aa == SubSeq(all, 1, e - 1)
  <2>1. e - 1 \in Nat /\ e - 1 <= Len(all) /\ aa = [d \in 1..(e - 1) |-> all[d]] /\ Len(aa) = e - 1
    BY <1>1, <1>3
  <2>2. [d \in 1..Len(aa) |-> aa[d].code] = [d \in 1..(e - 1) |-> all[d].code]
    BY <2>1
  <2>3. SubSeq(ss, 1, e - 1) = [d \in 1..(e - 1) |-> ss[d]]
    BY <1>3, <2>1
  <2>4. \A d \in 1..(e - 1) : ss[d] = all[d].code
    BY <1>3, <2>1
  <2> HIDE DEF aa, ss
  <2>5. SubSeq(ss, 1, e - 1) = [d \in 1..(e - 1) |-> all[d].code]
    BY <2>3, <2>4
  <2>6. Laid(aa) = FlattenSeq(SubSeq(ss, 1, e - 1))
    BY <2>2, <2>5 DEF Laid
  <2>7. Len(FlattenSeq(SubSeq(ss, 1, e - 1))) = s[e - 1] /\ s[e - 1] \in Nat
    <3>1. e \in 1..Len(ss) /\ e - 1 \in 0..Len(ss)
      BY <1>3, <2>1
    <3> QED BY <1>4, <3>1 DEF Offsets
  <2>8. PICK x \in Nat : x = s[e - 1]
    BY <2>7
  <2>9. Len(Laid(aa)) = x
    BY <2>6, <2>7, <2>8
  <2> QED BY <2>8, <2>9 DEF aa
<1> DEFINE starts == [e \in 1..Len(all) |-> 1 + Len(Laid(SubSeq(all, 1, e - 1)))]
<1>9. starts = start
  BY <1>8
<1> DEFINE p == Link(methods, vtable)
<1>10. /\ p.code = Absolute(code, Table(code).jumps) /\ p.handlers = Table(code).handlers
       /\ p.height = HeightsOf(all, starts, code, Tries(code))
       /\ p.vtable = vtable
       /\ DOMAIN p.entries = 1..Len(all)
       /\ \A e \in 1..Len(all) :
            /\ p.entries[e].start = starts[e]
            /\ p.entries[e].params = all[e].params
            /\ p.entries[e].locals = all[e].locals /\ p.entries[e].va_args = all[e].va_args
  BY DEF Link, all
<1> HIDE DEF start, starts, code, p
<1>11. /\ p.code = Absolute(code, <<>>) /\ p.handlers = <<>> /\ p.height = HeightsOf(all, start, code, {})
       /\ \A e \in 1..Len(all) : p.entries[e].start = start[e]
  <2>1. Table(code).jumps = <<>> /\ Table(code).handlers = <<>>
    BY <1>7
  <2>2. PICK none : none = {} /\ Tries(code) = none
    BY <1>7
  <2>3. p.height = HeightsOf(all, start, code, none)
    BY <1>9, <1>10, <2>2
  <2> QED BY <1>9, <1>10, <2>1, <2>2, <2>3
<1>12. 1 \in 1..Len(all) /\ all[1].locals = 0
  BY <1>1, BootstrapSound
<1>13. Linking(C, all, s, code, start, p)
  BY <1>5, <1>10, <1>11, <1>12 DEF Linking
<1>14. Verified(p)
  BY <1>13, Linked
<1> QED BY <1>14 DEF p

(***************************************************************************)
(* Programs.  The expressions are the least set that contains what the code*)
(* generator emits of literals, locals and this, and what it emits of the  *)
(* members of the set; the statements likewise.  A method is given one     *)
(* argument or none and an array at most one item: between two there is a  *)
(* comma node, which is counted with them.  A native function gets as many *)
(* arguments as it takes, however many nodes are counted.  A class that is *)
(* given an argument has a constructor.  The body of a foreach does not    *)
(* return, and there are no try blocks.                                    *)
(***************************************************************************)
NoComma(E) == {args \in Seq(E) : Len(args) <= 1}
ClosedExpressions(C, E) ==
    /\ \A v \in Value : emit_literal(v) \in E
    /\ \A slot \in Nat : emit_ident(slot) \in E
    /\ emit_null \in E /\ emit_this \in E
    /\ \A obj \in E : emit_memberaccess(obj) \in E
    /\ \A left, right \in E, op \in Operations, name \in Names(C) : emit_op(left, right, op, name) \in E
    /\ \A items \in NoComma(E) : emit_newarr(items) \in E
    /\ \A class \in C.names : emit_newobj(class, <<>>) \in E
    /\ \A class \in C.ctors \cap C.names, args \in NoComma(E) : emit_newobj(class, args) \in E
    /\ \A mode \in Modes, args \in Seq(E) : emit_syscall(mode, Len(args), args) \in E
    /\ \A entry \in Nat, args \in NoComma(E) : emit_callstatic(entry, args) \in E
    /\ \A name \in Names(C), args \in NoComma(E) :
         emit_call(name, args) \in E /\ \A receiver \in E : emit_callmember(receiver, name, args) \in E
Expressions(C) == {c \in Codes(C) : \A E : ClosedExpressions(C, E) => c \in E}

\* statements that never return, and those that may
Ends == {"stays", "returns"}
ClosedStatements(C, S) ==
    LET E == Expressions(C)
    IN  /\ \A value \in E : emit_return(value) \in S["returns"]
        /\ \A ends \in Ends :
             /\ <<>> \in S[ends]
             /\ \A e \in E : emit_pop(e) \in S[ends] /\ emit_throw(e) \in S[ends]
             /\ \A slot \in Nat, value \in E :
                  emit_assignment(slot, value) \in S[ends] /\ DefaultParam(slot, value) \in S[ends]
             /\ \A obj, value \in E : emit_assignprop(obj, value) \in S[ends]
             /\ \A statements \in Seq(S[ends]) : emit_block(statements) \in S[ends]
             /\ \A a, b \in S[ends] : a \o b \in S[ends]
             /\ \A cond \in E, then, else \in S[ends] : emit_if(cond, then, else) \in S[ends]
             /\ \A cond \in E, body \in S[ends] : emit_while(cond, body) \in S[ends]
             /\ \A cond \in E, init, increment, body \in S[ends] :
                  emit_for(init, cond, increment, body) \in S[ends]
             /\ \A slot \in Nat, collection \in E, body \in S["stays"] :
                  emit_foreach(slot, collection, body) \in S[ends]
Statements(C, ends) ==
    {c \in Codes(C) : \A S \in [Ends -> SUBSET Codes(C)] : ClosedStatements(C, S) => c \in S[ends]}

\* methods with a fixed number of parameters
MethodsOf(C) ==
    {m \in [params : Nat, locals : Nat, va_args : {FALSE}, expects : SUBSET Seq(Value), code : Codes(C)] :
       /\ m.params <= m.locals
       /\ \E body \in Statements(C, "returns") : m.code = emit_method(m.params, m.locals, body).code}

\* programs of such methods; constructors are in the method table of their class
Compiled(p) ==
    \E C, vtable : \E methods \in Seq(MethodsOf(C)) :
        /\ \A class \in C.ctors : class \in DOMAIN vtable /\ "_ctor" \in DOMAIN vtable[class]
        /\ p = Link(methods, vtable)

\* the pieces that leave one value are closed under the constructs of expressions
LEMMA ValuesClosed ==
    ASSUME NEW C
    PROVE  ClosedExpressions(C, {c \in Codes(C) : Pushes(C, c)})
<1> DEFINE E == {c \in Codes(C) : Pushes(C, c)}
<1>1. \A c : c \in E <=> Pushes(C, c)
  BY DEF Pushes, Runs
<1>2. ASSUME NEW args \in Seq(E)
      PROVE  args \in Seq(Codes(C)) /\ \A j \in 1..Len(args) : Pushes(C, args[j])
  OBVIOUS
<1> HIDE DEF E
<1>3. /\ \A v \in Value : emit_literal(v) \in E
      /\ \A slot \in Nat : emit_ident(slot) \in E
      /\ emit_null \in E /\ emit_this \in E
  <2>1. ASSUME NEW v \in Value, NEW slot \in Nat
        PROVE  emit_literal(v) \in E /\ emit_ident(slot) \in E /\ emit_null \in E /\ emit_this \in E
    <3>1. slot \in Int
      OBVIOUS
    <3> QED BY <1>1, <3>1, Simple
  <2>2. Null \in Value /\ 0 \in Nat
    BY DEF Value
  <2> QED BY <2>1, <2>2
<1>4. \A obj \in E : emit_memberaccess(obj) \in E
  BY <1>1, Members
<1>5. \A left, right \in E, op \in Operations, name \in Names(C) : emit_op(left, right, op, name) \in E
  BY <1>1, Operators
<1>6. \A items \in NoComma(E) : emit_newarr(items) \in E
  BY <1>1, <1>2, Arrays DEF NoComma
<1>7. \A class \in C.names : emit_newobj(class, <<>>) \in E
  <2>1. C.names \subseteq Names(C)
    BY DEF Names
  <2>2. <<>> \in Seq(E) /\ Len(<<>>) = 0
    OBVIOUS
  <2> QED BY <1>1, <1>2, <2>1, <2>2, News
<1>8. \A class \in C.ctors \cap C.names, args \in NoComma(E) : emit_newobj(class, args) \in E
  <2>1. C.names \subseteq Names(C)
    BY DEF Names
  <2> QED BY <1>1, <1>2, <2>1, News DEF NoComma
<1>9. \A mode \in Modes, args \in Seq(E) : emit_syscall(mode, Len(args), args) \in E
  BY <1>1, <1>2, Natives
<1>10. \A entry \in Nat, args \in NoComma(E) : emit_callstatic(entry, args) \in E
  <2>1. \A entry \in Nat : entry \in Int
    OBVIOUS
  <2> QED BY <1>1, <1>2, <2>1, Statics DEF NoComma
<1>11. \A name \in Names(C), args \in NoComma(E) :
         emit_call(name, args) \in E /\ \A receiver \in E : emit_callmember(receiver, name, args) \in E
  BY <1>1, <1>2, Selves, Methods DEF NoComma
<1>12. ClosedExpressions(C, E)
  BY <1>3, <1>4, <1>5, <1>6, <1>7, <1>8, <1>9, <1>10, <1>11 DEF ClosedExpressions
<1> QED BY <1>12 DEF E

\* Whatever emit_literal .. emit_callmember emit for an expression of any size leaves one value on the
\* stack and nothing else, and no instruction of it finds too few operands.
THEOREM ExpressionsPush ==
    ASSUME NEW C, NEW c \in Expressions(C)
    PROVE  Pushes(C, c)
BY ValuesClosed DEF Expressions

\* the pieces that leave nothing are closed under the constructs of statements
LEMMA StatementsClosed ==
    ASSUME NEW C
    PROVE  LET S == [e \in Ends |-> {s \in Codes(C) : Leaves(C, s, e)}]
           IN  S \in [Ends -> SUBSET Codes(C)] /\ ClosedStatements(C, S)
<1> DEFINE S == [e \in Ends |-> {s \in Codes(C) : Leaves(C, s, e)}]
<1> DEFINE E == Expressions(C)
<1>1. S \in [Ends -> SUBSET Codes(C)]
  OBVIOUS
<1>2. \A e \in Ends : \A s : s \in S[e] <=> Leaves(C, s, e)
  BY DEF Leaves, Runs
<1>3. \A e \in E : Pushes(C, e)
  BY ExpressionsPush
<1>4. "stays" \in Ends /\ "returns" \in Ends /\ \A slot \in Nat : slot \in Int
  BY DEF Ends
<1>5. ASSUME NEW e \in Ends, NEW statements \in Seq(S[e])
      PROVE  statements \in Seq(Codes(C)) /\ \A j \in 1..Len(statements) : Leaves(C, statements[j], e)
  <2>1. \A s \in S[e] : s \in Codes(C) /\ Leaves(C, s, e)
    BY <1>2
  <2> HIDE DEF S
  <2> QED BY <2>1
<1> HIDE DEF S, E
<1>6. \A value \in E : emit_return(value) \in S["returns"]
  BY <1>2, <1>3, <1>4, Returned
<1>7. ASSUME NEW e \in Ends
      PROVE  /\ <<>> \in S[e]
             /\ \A v \in E : emit_pop(v) \in S[e] /\ emit_throw(v) \in S[e]
             /\ \A slot \in Nat, value \in E :
                  emit_assignment(slot, value) \in S[e] /\ DefaultParam(slot, value) \in S[e]
             /\ \A obj, value \in E : emit_assignprop(obj, value) \in S[e]
             /\ \A statements \in Seq(S[e]) : emit_block(statements) \in S[e]
             /\ \A a, b \in S[e] : a \o b \in S[e]
             /\ \A cond \in E, then, else \in S[e] : emit_if(cond, then, else) \in S[e]
             /\ \A cond \in E, body \in S[e] : emit_while(cond, body) \in S[e]
             /\ \A cond \in E, init, increment, body \in S[e] :
                  emit_for(init, cond, increment, body) \in S[e]
             /\ \A slot \in Nat, collection \in E, body \in S["stays"] :
                  emit_foreach(slot, collection, body) \in S[e]
  <2>1. <<>> \in S[e]
    <3>1. 0 \in Int
      OBVIOUS
    <3> QED BY <1>2, <3>1, Nil DEF Leaves
  <2>2. \A v \in E : emit_pop(v) \in S[e] /\ emit_throw(v) \in S[e]
    BY <1>2, <1>3, Discarded, Thrown, Anywhere
  <2>3. \A slot \in Nat, value \in E : emit_assignment(slot, value) \in S[e] /\ DefaultParam(slot, value) \in S[e]
    BY <1>2, <1>3, <1>4, Assigned, Defaults, Anywhere
  <2>4. \A obj, value \in E : emit_assignprop(obj, value) \in S[e]
    BY <1>2, <1>3, PropAssigned, Anywhere
  <2>5. \A statements \in Seq(S[e]) : emit_block(statements) \in S[e]
    BY <1>2, <1>5, Blocks
  <2>6. \A a, b \in S[e] : a \o b \in S[e]
    BY <1>2, Sequences
  <2>7. \A cond \in E, then, else \in S[e] : emit_if(cond, then, else) \in S[e]
    BY <1>2, <1>3, Ifs
  <2>8. \A cond \in E, body \in S[e] : emit_while(cond, body) \in S[e]
    BY <1>2, <1>3, Whiles
  <2>9. \A cond \in E, init, increment, body \in S[e] : emit_for(init, cond, increment, body) \in S[e]
    BY <1>2, <1>3, Fors
  <2>10. \A slot \in Nat, collection \in E, body \in S["stays"] : emit_foreach(slot, collection, body) \in S[e]
    BY <1>2, <1>3, <1>4, Foreachs
  <2> QED BY <2>1, <2>2, <2>3, <2>4, <2>5, <2>6, <2>7, <2>8, <2>9, <2>10
<1>8. ClosedStatements(C, S)
  BY <1>6, <1>7 DEF ClosedStatements, E
<1> QED BY <1>1, <1>8 DEF S

\* Whatever emit_if, emit_for, emit_foreach .. emit for a statement of any size leaves the stack as it was:
\* jumps stay inside it and meet with the same height, returns find one operand.
THEOREM StatementsLeave ==
    ASSUME NEW C, NEW ends \in Ends, NEW c \in Statements(C, ends)
    PROVE  Leaves(C, c, ends)
<1> DEFINE S == [e \in Ends |-> {s \in Codes(C) : Leaves(C, s, e)}]
<1>1. S \in [Ends -> SUBSET Codes(C)] /\ ClosedStatements(C, S)
  BY StatementsClosed
<1> HIDE DEF S
<1>2. c \in S[ends]
  BY <1>1 DEF Statements
<1> QED BY <1>2 DEF S

\* Every program that code_gen.h emits of such methods, and program_builder::fin links, satisfies what the
\* interpreter relies on, for methods and statements of any number and depth.
THEOREM CompiledVerified ==
    ASSUME NEW p, Compiled(p)
    PROVE  Verified(p)
<1>1. PICK C, vtable : \E methods \in Seq(MethodsOf(C)) :
        /\ \A class \in C.ctors : class \in DOMAIN vtable /\ "_ctor" \in DOMAIN vtable[class]
        /\ p = Link(methods, vtable)
  BY DEF Compiled
<1>2. PICK methods \in Seq(MethodsOf(C)) :
        /\ \A class \in C.ctors : class \in DOMAIN vtable /\ "_ctor" \in DOMAIN vtable[class]
        /\ p = Link(methods, vtable)
  BY <1>1
<1>3. ASSUME NEW m \in MethodsOf(C) PROVE Sound(C, m)
  <2>1. PICK body \in Statements(C, "returns") : m.code = emit_method(m.params, m.locals, body).code
    BY DEF MethodsOf
  <2>2. m.code = body \o <<Ld(Null), I("ret")>>
    BY <2>1 DEF emit_method
  <2>3. Leaves(C, body, "returns")
    BY StatementsLeave DEF Ends
  <2>4. m.params \in Nat /\ m.locals \in Nat /\ m.params <= m.locals /\ m.va_args = FALSE
    BY DEF MethodsOf
  <2> QED BY <2>2, <2>3, <2>4, MethodSound
<1>4. \A e \in 1..Len(methods) : methods[e] \in MethodsOf(C)
  OBVIOUS
<1> QED BY <1>2, <1>3, <1>4, LinkVerified

\* The interpreter executes such a program as CallSpec promises: calls do not disturb the activations of
\* their callers.
THEOREM CompiledCalls ==
    ASSUME \A p \in Programs : Compiled(p)
    PROVE  Spec /\ []AddsNumbers => CallPromise
<1>1. \A p \in Programs : Verified(p)
  BY CompiledVerified
<1> QED BY <1>1, CallsImplemented

\* While it does, the operands are as many as the compiler has counted, and one value is left at the end.
THEOREM CompiledHeights ==
    ASSUME \A p \in Programs : Compiled(p)
    PROVE  Spec /\ []AddsNumbers => [](HeightsAsCompiled /\ EndsClean)
<1>1. \A p \in Programs : Verified(p)
  BY CompiledVerified
<1> QED BY <1>1, HeightsKept, OneValueLeft, PTL
================================================================================
