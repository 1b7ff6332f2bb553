------------------------------ MODULE TreeProofs ------------------------------
(* What the tree builder keeps, for the tokens of any source: the tree is  *)
(* a tree, and the node that takes what follows is at its right edge.      *)
EXTENDS FrontEnd, WellFoundedInduction, TLAPS

-----------------------------------------------------------------------------
(* Induction, over the sets of positions that occur here. *)

\* A set that has 0, and i + 1 whenever it has i, has all numbers up to n.
LEMMA Induction ==
  ASSUME NEW n \in Nat, NEW S, 0 \in S, \A i \in 0..n - 1 : i \in S => i + 1 \in S
  PROVE  \A i \in 0..n : i \in S
<1> SUFFICES ASSUME NEW k \in 0..n, k \notin S PROVE FALSE
  OBVIOUS
<1> DEFINE R == {ss \in Nat \X Nat : ss[1] < ss[2]}
           Out == {i \in 0..n : i \notin S}
<1>1. IsWellFoundedOn(R, Nat)
  BY NatLessThanWellFounded DEF OpToRel
<1>2. Out \subseteq Nat /\ Out /= {}
  OBVIOUS
<1>3. PICK m \in Out : \A i \in Out : ~(<<i, m>> \in R)
  <2> HIDE DEF R, Out
  <2> QED
    BY <1>1, <1>2, WFMin
<1>4. m \in 0..n /\ m \notin S /\ m - 1 \in 0..n - 1
  BY <1>3
<1>5. m - 1 \in Out /\ <<m - 1, m>> \in R
  BY <1>4
<1> QED
  BY <1>3, <1>5

-----------------------------------------------------------------------------
(* Sequences of anything. *)

IsSeq(s) == \E S : s \in Seq(S)

LEMMA SeqIs ==
  ASSUME NEW s, IsSeq(s)
  PROVE  Len(s) \in Nat /\ DOMAIN s = 1..Len(s)
BY DEF IsSeq

LEMMA Empties == IsSeq(<<>>) /\ Len(<<>>) = 0
<1>1. <<>> \in Seq({})
  OBVIOUS
<1> QED
  BY <1>1 DEF IsSeq

LEMMA Appends ==
  ASSUME NEW s, IsSeq(s), NEW x
  PROVE  /\ IsSeq(Append(s, x)) /\ Len(Append(s, x)) = Len(s) + 1
         /\ \A i \in 1..Len(s) : Append(s, x)[i] = s[i]
         /\ Append(s, x)[Len(s) + 1] = x
<1>1. PICK S : s \in Seq(S)
  BY DEF IsSeq
<1>2. s \in Seq(S \union {x}) /\ x \in S \union {x}
  BY <1>1
<1>3. Append(s, x) \in Seq(S \union {x})
  BY <1>2
<1> QED
  BY <1>2, <1>3 DEF IsSeq

\* A function on 1..n is a sequence of n.
LEMMA Functional ==
  ASSUME NEW T, NEW n \in Nat, NEW s \in [1..n -> T]
  PROVE  s \in Seq(T) /\ Len(s) = n
<1>1. s \in Seq(T)
  OBVIOUS
<1>2. DOMAIN s = 1..n /\ DOMAIN s = 1..Len(s) /\ Len(s) \in Nat
  BY <1>1
<1> QED
  BY <1>1, <1>2

With(s, j, x) == [s EXCEPT ![j] = x]

LEMMA Changes ==
  ASSUME NEW s, IsSeq(s), NEW j, NEW x
  PROVE  /\ IsSeq(With(s, j, x)) /\ Len(With(s, j, x)) = Len(s)
         /\ \A i \in 1..Len(s) : With(s, j, x)[i] = IF i = j THEN x ELSE s[i]
<1>1. PICK S : s \in Seq(S)
  BY DEF IsSeq
<1>2. PICK n \in Nat : n = Len(s) /\ s \in [1..n -> S]
  BY <1>1
<1>3. /\ With(s, j, x) \in [1..n -> S \union {x}]
      /\ \A i \in 1..n : With(s, j, x)[i] = IF i = j THEN x ELSE s[i]
  BY <1>2 DEF With
<1>4. With(s, j, x) \in Seq(S \union {x}) /\ Len(With(s, j, x)) = n
  BY <1>3, Functional
<1> QED
  BY <1>2, <1>3, <1>4 DEF IsSeq

LEMMA Constructed ==
  ASSUME NEW n \in Nat, NEW s, s = [i \in 1..n |-> s[i]]
  PROVE  IsSeq(s) /\ Len(s) = n
<1>1. s \in [1..n -> {s[i] : i \in 1..n}]
  OBVIOUS
<1>2. s \in Seq({s[i] : i \in 1..n}) /\ Len(s) = n
  BY <1>1, Functional
<1> QED
  BY <1>2 DEF IsSeq

-----------------------------------------------------------------------------
(* Steps that change what nodes say and not the tree. *)

Fields == {"kind", "raw", "parent", "children", "capacity", "nth_block_or_single",
           "integer", "attr", "locals", "local_size"}

Fielded(t) ==
  /\ IsSeq(t)
  /\ \A k \in 1..Len(t) : DOMAIN t[k] = Fields /\ IsSeq(t[k].children) /\ IsSeq(t[k].locals)

Alike(m, n) ==
  /\ DOMAIN m = Fields /\ IsSeq(m.locals)
  /\ m.kind = n.kind /\ m.parent = n.parent /\ m.children = n.children /\ m.capacity = n.capacity
  /\ n.nth_block_or_single /= 0 => m.nth_block_or_single /= 0

Kept(t, u) ==
  /\ IsSeq(u) /\ Len(u) = Len(t)
  /\ \A k \in 1..Len(t) : Alike(u[k], t[k])

LEMMA KeptSelf == ASSUME NEW t, Fielded(t) PROVE Kept(t, t)
BY DEF Fielded, Kept, Alike

LEMMA KeptFields == ASSUME NEW t, NEW u, Fielded(t), Kept(t, u) PROVE Fielded(u)
BY DEF Fielded, Kept, Alike

LEMMA KeptTwice ==
  ASSUME NEW t, NEW u, NEW v, Kept(t, u), Kept(u, v) PROVE Kept(t, v)
BY DEF Kept, Alike

LEMMA KeptNode ==
  ASSUME NEW t, Fielded(t), NEW j, NEW m, j \in 1..Len(t) => Alike(m, t[j])
  PROVE  Kept(t, With(t, j, m))
<1>1. IsSeq(t) /\ \A k \in 1..Len(t) : Alike(t[k], t[k])
  BY DEF Fielded, Alike
<1>2. /\ IsSeq(With(t, j, m)) /\ Len(With(t, j, m)) = Len(t)
      /\ \A k \in 1..Len(t) : With(t, j, m)[k] = IF k = j THEN m ELSE t[k]
  BY <1>1, Changes
<1>3. \A k \in 1..Len(t) : Alike(With(t, j, m)[k], t[k])
  BY <1>1, <1>2
<1> QED
  BY <1>2, <1>3 DEF Kept

LEMMA KeptLocals ==
  ASSUME NEW t, Fielded(t), NEW j, NEW s, j \in 1..Len(t) => IsSeq(s)
  PROVE  Kept(t, [t EXCEPT ![j].locals = s])
<1> DEFINE m == [t[j] EXCEPT !.locals = s]
<1>1. ASSUME j \in 1..Len(t) PROVE Alike(m, t[j])
  <2>1. DOMAIN t[j] = Fields /\ IsSeq(s)
    BY <1>1 DEF Fielded
  <2> QED
    BY <2>1 DEF Alike, Fields
<1>2. [t EXCEPT ![j].locals = s] = With(t, j, m)
  BY DEF With
<1> HIDE DEF m
<1>3. Kept(t, With(t, j, m))
  BY <1>1, KeptNode
<1> QED
  BY <1>2, <1>3, Zenon

LEMMA KeptSize ==
  ASSUME NEW t, Fielded(t), NEW j, NEW s
  PROVE  Kept(t, [t EXCEPT ![j].local_size = s])
<1> DEFINE m == [t[j] EXCEPT !.local_size = s]
<1>1. ASSUME j \in 1..Len(t) PROVE Alike(m, t[j])
  <2>1. DOMAIN t[j] = Fields /\ IsSeq(t[j].locals)
    BY <1>1 DEF Fielded
  <2> QED
    BY <2>1 DEF Alike, Fields
<1>2. [t EXCEPT ![j].local_size = s] = With(t, j, m)
  BY DEF With
<1> HIDE DEF m
<1>3. Kept(t, With(t, j, m))
  BY <1>1, KeptNode
<1> QED
  BY <1>2, <1>3, Zenon

LEMMA PushLocal ==
  ASSUME NEW t, Fielded(t), NEW block, NEW ident
  PROVE  Kept(t, push_local(t, block, ident))
<1>1. PICK method, name : method = find_upward_until(t, block, "method") /\ name = Plain(ident)
  OBVIOUS
<1>2. CASE Contains(t[block].locals, name)
  BY <1>1, <1>2, KeptSelf DEF push_local
<1>3. CASE ~Contains(t[block].locals, name)
  <2> DEFINE s == Append(t[block].locals, name)
             u == [t EXCEPT ![block].locals = s]
             v == [u EXCEPT ![method].local_size = u[method].local_size + 1]
  <2>1. block \in 1..Len(t) => IsSeq(s)
    BY Appends DEF Fielded
  <2>2. Kept(t, u)
    <3> HIDE DEF s
    <3> QED
      BY <2>1, KeptLocals
  <2>3. Kept(u, v)
    <3> HIDE DEF u
    <3>1. Fielded(u)
      BY <2>2, KeptFields
    <3> QED
      BY <3>1, KeptSize
  <2>4. push_local(t, block, ident) = v
    BY <1>1, <1>3 DEF push_local
  <2> HIDE DEF u, v
  <2> QED
    BY <2>2, <2>3, <2>4, KeptTwice
<1> QED
  BY <1>2, <1>3

LEMMA PushAll ==
  ASSUME NEW t, Fielded(t), NEW block, NEW items, IsSeq(items)
  PROVE  Kept(t, PushLocals(t, block, items))
<1> DEFINE IsP(k, f) == f = [i \in 0..k |-> IF i = 0 THEN t ELSE push_local(f[i - 1], block, items[i])]
           n == Len(items)
           Ok == {k \in 0..n : \E f : IsP(k, f)}
           Good(f) == {k \in 0..n : Kept(t, f[k])}
<1>1. n \in Nat
  BY SeqIs
<1>2. PushLocals(t, block, items) = (CHOOSE f : IsP(n, f))[n]
  BY DEF PushLocals
<1> HIDE DEF n
<1>3. 0 \in Ok
  <2>1. IsP(0, [i \in 0..0 |-> t])
    OBVIOUS
  <2> HIDE DEF IsP
  <2> QED
    BY <1>1, <2>1
<1>4. ASSUME NEW k \in 0..n - 1, k \in Ok PROVE k + 1 \in Ok
  <2>1. PICK f : IsP(k, f)
    BY <1>4
  <2> DEFINE g == [i \in 0..k + 1 |-> IF i = k + 1 THEN push_local(f[k], block, items[k + 1]) ELSE f[i]]
  <2>2. k \in Nat /\ k \in 0..k + 1 /\ k + 1 \in 0..k + 1 /\ k /= k + 1 /\ k + 1 - 1 = k /\ k + 1 /= 0
    BY <1>1
  <2>3. g[k] = f[k] /\ g[k + 1] = push_local(f[k], block, items[k + 1])
    BY <2>2
  <2>4. ASSUME NEW i \in 0..k + 1 PROVE g[i] = IF i = 0 THEN t ELSE push_local(g[i - 1], block, items[i])
    <3>1. CASE i = k + 1
      <4> HIDE DEF g
      <4> QED
        BY <2>2, <2>3, <3>1
    <3>2. CASE i /= k + 1
      <4>1. i \in 0..k /\ i \in 0..k + 1 /\ i \in Nat /\ (i /= 0 => i - 1 \in 0..k + 1 /\ i - 1 /= k + 1)
        BY <2>2, <3>2
      <4>2. f[i] = IF i = 0 THEN t ELSE push_local(f[i - 1], block, items[i])
        BY <2>1, <4>1
      <4>3. g[i] = f[i] /\ (i /= 0 => g[i - 1] = f[i - 1])
        BY <3>2, <4>1
      <4> HIDE DEF g, IsP
      <4> QED
        BY <4>2, <4>3
    <3> QED
      BY <3>1, <3>2
  <2>5. g = [i \in 0..k + 1 |-> g[i]]
    OBVIOUS
  <2> HIDE DEF g
  <2>6. IsP(k + 1, g)
    BY <2>4, <2>5
  <2> HIDE DEF IsP
  <2> QED
    BY <1>1, <2>6
<1>5. n \in Ok
  <2> HIDE DEF Ok
  <2>1. \A i \in 0..n : i \in Ok
    BY <1>1, <1>3, <1>4, Induction
  <2> QED
    BY <1>1, <2>1
<1>6. PICK f : f = (CHOOSE g : IsP(n, g)) /\ IsP(n, f)
  <2> HIDE DEF IsP
  <2> QED
    BY <1>5
<1>7. f[0] = t /\ \A i \in 1..n : f[i] = push_local(f[i - 1], block, items[i])
  <2>1. \A i \in 0..n : f[i] = IF i = 0 THEN t ELSE push_local(f[i - 1], block, items[i])
    BY <1>6
  <2> HIDE DEF IsP
  <2>2. 0 \in 0..n /\ \A i \in 1..n : i \in 0..n /\ i /= 0
    BY <1>1
  <2> QED
    BY <2>1, <2>2
<1> HIDE DEF IsP
<1>8. 0 \in Good(f)
  BY <1>1, <1>7, KeptSelf
<1>9. ASSUME NEW k \in 0..n - 1, k \in Good(f) PROVE k + 1 \in Good(f)
  <2>1. k + 1 \in 1..n /\ k + 1 \in 0..n /\ k + 1 - 1 = k
    BY <1>1
  <2>2. Kept(t, f[k]) /\ f[k + 1] = push_local(f[k], block, items[k + 1])
    BY <1>7, <1>9, <2>1
  <2>3. Kept(f[k], f[k + 1])
    BY <2>2, KeptFields, PushLocal
  <2> QED
    BY <2>1, <2>2, <2>3, KeptTwice
<1>10. n \in Good(f)
  <2> HIDE DEF Good
  <2>1. \A i \in 0..n : i \in Good(f)
    BY <1>1, <1>8, <1>9, Induction
  <2> QED
    BY <1>1, <2>1
<1> QED
  BY <1>2, <1>6, <1>10

LEMMA PushParamKept ==
  ASSUME NEW t, Fielded(t), NEW body, NEW p
  PROVE  Kept(t, PushParam(t, body, p))
BY PushLocal, KeptSelf DEF PushParam

LEMMA PushAllParams ==
  ASSUME NEW t, Fielded(t), NEW body, NEW items, IsSeq(items)
  PROVE  Kept(t, PushParams(t, body, items))
<1> DEFINE IsP(k, f) == f = [i \in 0..k |-> IF i = 0 THEN t ELSE PushParam(f[i - 1], body, items[i])]
           n == Len(items)
           Ok == {k \in 0..n : \E f : IsP(k, f)}
           Good(f) == {k \in 0..n : Kept(t, f[k])}
<1>1. n \in Nat
  BY SeqIs
<1>2. PushParams(t, body, items) = (CHOOSE f : IsP(n, f))[n]
  BY DEF PushParams
<1> HIDE DEF n
<1>3. 0 \in Ok
  <2>1. IsP(0, [i \in 0..0 |-> t])
    OBVIOUS
  <2> HIDE DEF IsP
  <2> QED
    BY <1>1, <2>1
<1>4. ASSUME NEW k \in 0..n - 1, k \in Ok PROVE k + 1 \in Ok
  <2>1. PICK f : IsP(k, f)
    BY <1>4
  <2> DEFINE g == [i \in 0..k + 1 |-> IF i = k + 1 THEN PushParam(f[k], body, items[k + 1]) ELSE f[i]]
  <2>2. k \in Nat /\ k \in 0..k + 1 /\ k + 1 \in 0..k + 1 /\ k /= k + 1 /\ k + 1 - 1 = k /\ k + 1 /= 0
    BY <1>1
  <2>3. g[k] = f[k] /\ g[k + 1] = PushParam(f[k], body, items[k + 1])
    BY <2>2
  <2>4. ASSUME NEW i \in 0..k + 1 PROVE g[i] = IF i = 0 THEN t ELSE PushParam(g[i - 1], body, items[i])
    <3>1. CASE i = k + 1
      <4> HIDE DEF g
      <4> QED
        BY <2>2, <2>3, <3>1
    <3>2. CASE i /= k + 1
      <4>1. i \in 0..k /\ i \in 0..k + 1 /\ i \in Nat /\ (i /= 0 => i - 1 \in 0..k + 1 /\ i - 1 /= k + 1)
        BY <2>2, <3>2
      <4>2. f[i] = IF i = 0 THEN t ELSE PushParam(f[i - 1], body, items[i])
        BY <2>1, <4>1
      <4>3. g[i] = f[i] /\ (i /= 0 => g[i - 1] = f[i - 1])
        BY <3>2, <4>1
      <4> HIDE DEF g, IsP
      <4> QED
        BY <4>2, <4>3
    <3> QED
      BY <3>1, <3>2
  <2>5. g = [i \in 0..k + 1 |-> g[i]]
    OBVIOUS
  <2> HIDE DEF g
  <2>6. IsP(k + 1, g)
    BY <2>4, <2>5
  <2> HIDE DEF IsP
  <2> QED
    BY <1>1, <2>6
<1>5. n \in Ok
  <2> HIDE DEF Ok
  <2>1. \A i \in 0..n : i \in Ok
    BY <1>1, <1>3, <1>4, Induction
  <2> QED
    BY <1>1, <2>1
<1>6. PICK f : f = (CHOOSE g : IsP(n, g)) /\ IsP(n, f)
  <2> HIDE DEF IsP
  <2> QED
    BY <1>5
<1>7. f[0] = t /\ \A i \in 1..n : f[i] = PushParam(f[i - 1], body, items[i])
  <2>1. \A i \in 0..n : f[i] = IF i = 0 THEN t ELSE PushParam(f[i - 1], body, items[i])
    BY <1>6
  <2> HIDE DEF IsP
  <2>2. 0 \in 0..n /\ \A i \in 1..n : i \in 0..n /\ i /= 0
    BY <1>1
  <2> QED
    BY <2>1, <2>2
<1> HIDE DEF IsP
<1>8. 0 \in Good(f)
  BY <1>1, <1>7, KeptSelf
<1>9. ASSUME NEW k \in 0..n - 1, k \in Good(f) PROVE k + 1 \in Good(f)
  <2>1. k + 1 \in 1..n /\ k + 1 \in 0..n /\ k + 1 - 1 = k
    BY <1>1
  <2>2. Kept(t, f[k]) /\ f[k + 1] = PushParam(f[k], body, items[k + 1])
    BY <1>7, <1>9, <2>1
  <2>3. Kept(f[k], f[k + 1])
    BY <2>2, KeptFields, PushParamKept
  <2> QED
    BY <2>1, <2>2, <2>3, KeptTwice
<1>10. n \in Good(f)
  <2> HIDE DEF Good
  <2>1. \A i \in 0..n : i \in Good(f)
    BY <1>1, <1>8, <1>9, Induction
  <2> QED
    BY <1>1, <2>1
<1> QED
  BY <1>2, <1>6, <1>10

-----------------------------------------------------------------------------
(* on_complete. *)

LEMMA Completes ==
  ASSUME NEW t, Fielded(t), NEW n \in 1..Len(t),
         t[n].kind = "method" => /\ Len(t[n].children) >= 2
                                 /\ \A i \in 1..Len(t[n].children) : t[n].children[i] \in 1..Len(t)
  PROVE  Kept(t, on_complete(t, n))
<1>1. PICK children, block, body :
        /\ children = t[n].children /\ block = find_upward_until(t, n, "block")
        /\ body = Last(children)
  OBVIOUS
<1>2. IsSeq(children)
  BY <1>1 DEF Fielded
<1>3. ASSUME NEW ident, NEW b, on_complete(t, n) = push_local(t, b, ident) PROVE Kept(t, on_complete(t, n))
  BY <1>3, PushLocal
<1>4. CASE t[n].kind = "foreach"
  <2> DEFINE names == [i \in 1..(Len(children) - 2) |-> t[children[i]].raw]
  <2>1. IsSeq(names)
    <3>1. CASE Len(children) >= 2
      <4>1. PICK k \in Nat : k = Len(children) - 2
        BY <1>2, <3>1, SeqIs
      <4>2. PICK f : f = [i \in 1..k |-> t[children[i]].raw]
        OBVIOUS
      <4>3. f = [i \in 1..k |-> f[i]] /\ f = names
        BY <4>1, <4>2
      <4> HIDE DEF names
      <4> QED
        BY <4>3, Constructed
    <3>2. CASE ~(Len(children) >= 2)
      <4>1. Len(children) - 2 < 1 /\ Len(children) - 2 \in Int
        BY <1>2, <3>2, SeqIs
      <4>2. names = <<>>
        BY <4>1
      <4> QED
        BY <4>2, Empties
    <3> QED
      BY <3>1, <3>2
  <2>2. on_complete(t, n) = t \/ on_complete(t, n) = PushLocals(t, block, names)
    BY <1>1, <1>4 DEF on_complete
  <2> HIDE DEF names
  <2> QED
    BY <2>1, <2>2, KeptSelf, PushAll
<1>5. CASE t[n].kind = "method"
  <2> DEFINE u == [t EXCEPT ![body].locals = <<>>]
             v == PushParams(u, body, t[children[2]].children)
  <2>1. Len(children) \in Nat /\ 2 \in 1..Len(children) /\ Len(children) \in 1..Len(children)
    BY <1>1, <1>2, <1>5, SeqIs
  <2>2. children[2] \in 1..Len(t) /\ body \in 1..Len(t)
    BY <1>1, <1>5, <2>1 DEF Last
  <2>3. Kept(t, u)
    BY Empties, KeptLocals
  <2>4. on_complete(t, n) = PushLocals(v, body, t[body].locals)
    BY <1>1, <1>5 DEF on_complete
  <2>5. IsSeq(t[children[2]].children) /\ IsSeq(t[body].locals)
    BY <2>2 DEF Fielded
  <2> HIDE DEF u
  <2>6. Kept(u, v)
    BY <2>3, <2>5, KeptFields, PushAllParams
  <2> HIDE DEF v
  <2>7. Kept(t, v) /\ Fielded(v)
    BY <2>3, <2>6, KeptTwice, KeptFields
  <2> QED
    BY <2>4, <2>5, <2>7, PushAll, KeptTwice
<1>6. CASE t[n].kind = "assignment"
  <2>1. on_complete(t, n) = t \/ on_complete(t, n) = push_local(t, block, t[children[1]].raw)
    BY <1>1, <1>6 DEF on_complete
  <2> QED
    BY <2>1, <1>3, KeptSelf
<1>7. CASE t[n].kind = "catch"
  <2>1. on_complete(t, n) = push_local(t, children[2], t[children[1]].raw)
    BY <1>1, <1>7 DEF on_complete
  <2> QED
    BY <2>1, <1>3
<1>8. CASE t[n].kind \notin {"foreach", "method", "assignment", "catch"}
  <2>1. on_complete(t, n) = t
    BY <1>8 DEF on_complete
  <2> QED
    BY <2>1, KeptSelf
<1> QED
  BY <1>4, <1>5, <1>6, <1>7, <1>8

-----------------------------------------------------------------------------
(* The tree and its right edge. *)

IsRoot(n) == n.kind = "root" /\ n.parent = NoParent

\* Nodes are the children of just their parents.
Tree(t) ==
  /\ Fielded(t) /\ 1 \in 1..Len(t) /\ IsRoot(t[1])
  /\ \A k \in 1..Len(t) : t[k].kind = "method" => t[k].capacity = 3 /\ t[k].nth_block_or_single /= 0
  /\ \A k \in 1..Len(t) : \A i \in 1..Len(t[k].children) :
       t[k].children[i] \in 1..Len(t) /\ t[t[k].children[i]].parent = k
  /\ \A k \in 2..Len(t) :
       /\ t[k].parent \in 1..Len(t)
       /\ \E i \in 1..Len(t[t[k].parent].children) : t[t[k].parent].children[i] = k

LastChild(t, k, c) == t[k].children /= <<>> /\ Last(t[k].children) = c

\* p leads from the root to c, from each node to its last child.
Path(t, p, m, c) ==
  /\ m \in Nat /\ 1 \in 1..m /\ m \in 1..m /\ p \in [1..m -> 1..Len(t)]
  /\ p[1] = 1 /\ p[m] = c
  /\ \A i \in 1..m - 1 : LastChild(t, p[i], p[i + 1])
  /\ \A i, j \in 1..m : p[i] = p[j] => i = j
OnEdge(t, c) == \E p, m : Path(t, p, m, c)

\* The last child is one of the children.
LEMMA LastIs ==
  ASSUME NEW t, Tree(t), NEW k \in 1..Len(t), NEW c, LastChild(t, k, c)
  PROVE  /\ c \in 1..Len(t) /\ t[c].parent = k /\ Len(t[k].children) > 0
         /\ t[k].children[Len(t[k].children)] = c
<1>1. PICK s : s = t[k].children /\ s /= <<>> /\ Last(s) = c
  BY DEF LastChild
<1>2. IsSeq(s)
  BY <1>1 DEF Tree, Fielded
<1>3. PICK S : s \in Seq(S)
  BY <1>2 DEF IsSeq
<1>4. Len(s) \in 1..Len(s) /\ Len(s) > 0
  BY <1>1, <1>3
<1>5. s[Len(s)] = c
  BY <1>1 DEF Last
<1> QED
  BY <1>1, <1>4, <1>5 DEF Tree

LEMMA PathUp ==
  ASSUME NEW t, Tree(t), NEW p, NEW m, NEW c, Path(t, p, m, c), NEW i \in 2..m
  PROVE  /\ i \in 1..m /\ i - 1 \in 1..m /\ p[i] \in 1..Len(t) /\ p[i - 1] \in 1..Len(t)
         /\ t[p[i]].parent = p[i - 1] /\ p[i] /= 1 /\ t[p[i - 1]].children /= <<>>
<1>1. m \in Nat /\ i \in 1..m /\ i - 1 \in 1..m - 1 /\ i - 1 \in 1..m /\ i - 1 + 1 = i /\ i /= 1 /\ 1 \in 1..m
  BY DEF Path
<1>2. p[i] \in 1..Len(t) /\ p[i - 1] \in 1..Len(t) /\ LastChild(t, p[i - 1], p[i]) /\ p[1] = 1 /\ p[i] /= p[1]
  BY <1>1 DEF Path
<1>3. PICK a, b : a = p[i - 1] /\ b = p[i]
  OBVIOUS
<1>4. a \in 1..Len(t) /\ LastChild(t, a, b)
  BY <1>2, <1>3
<1>5. t[b].parent = a
  BY <1>4, LastIs
<1>6. t[a].children /= <<>>
  BY <1>4 DEF LastChild
<1> QED
  BY <1>1, <1>2, <1>3, <1>5, <1>6

\* A part of a path from its beginning is one.
LEMMA PathPart ==
  ASSUME NEW t, NEW p, NEW m, NEW c, Path(t, p, m, c), NEW j \in 1..m
  PROVE  OnEdge(t, p[j])
<1> DEFINE q == [i \in 1..j |-> p[i]]
<1>1. /\ j \in Nat /\ j \in 1..j /\ 1 \in 1..j /\ \A i \in 1..j : i \in 1..m
      /\ \A i \in 1..j - 1 : i \in 1..m - 1 /\ i \in 1..j /\ i + 1 \in 1..j
  BY DEF Path
<1>2. q \in [1..j -> 1..Len(t)] /\ \A i \in 1..j : q[i] = p[i]
  BY <1>1 DEF Path
<1> HIDE DEF q
<1>3. Path(t, q, j, p[j])
  BY <1>1, <1>2 DEF Path
<1> QED
  BY <1>3 DEF OnEdge

LEMMA EdgeIs ==
  ASSUME NEW t, NEW c, OnEdge(t, c) PROVE c \in 1..Len(t)
BY DEF OnEdge, Path

LEMMA EdgeParent ==
  ASSUME NEW t, Tree(t), NEW c, OnEdge(t, c), c /= 1
  PROVE  OnEdge(t, t[c].parent)
<1>1. PICK p, m : Path(t, p, m, c)
  BY DEF OnEdge
<1>2. m \in 2..m /\ p[m] = c
  BY <1>1 DEF Path
<1>3. m - 1 \in 1..m /\ t[c].parent = p[m - 1]
  BY <1>1, <1>2, PathUp
<1> QED
  BY <1>1, <1>3, PathPart

-----------------------------------------------------------------------------
(* nearest_incomplete_node goes up the edge. *)

Stays(t, k) == t[k].kind = "root" \/ ~is_complete(t, k)

\* The search ends at b when it begins at a.
Climbs(t, a, b) ==
  \E m \in Nat : \E c \in [1..m -> 1..Len(t)] :
    /\ 1 \in 1..m /\ m \in 1..m /\ c[1] = a /\ c[m] = b /\ Stays(t, b)
    /\ \A i \in 1..m - 1 : ~Stays(t, c[i]) /\ c[i + 1] = t[c[i]].parent

\* The recursion of the search defines a function: where it ends, if it does.
LEMMA Searches ==
  ASSUME NEW t, Tree(t)
  PROVE  \E up : up = [k \in 1..Len(t) |-> IF Stays(t, k) THEN k ELSE up[t[k].parent]]
<1> DEFINE Ends0(k) == {b \in 1..Len(t) : Climbs(t, k, b)}
           f == [k \in 1..Len(t) |-> CHOOSE b : b \in Ends0(k)]
<1>1. ASSUME NEW k \in 1..Len(t), Stays(t, k) PROVE f[k] = k
  <2>1. Climbs(t, k, k)
    <3>1. PICK c : c = [i \in 1..1 |-> k]
      OBVIOUS
    <3>2. c \in [1..1 -> 1..Len(t)] /\ 1 \in 1..1 /\ c[1] = k /\ 1 \in Nat /\ \A i \in 1..1 - 1 : FALSE
      BY <3>1
    <3> QED
      BY <1>1, <3>2 DEF Climbs
  <2>2. ASSUME NEW b, Climbs(t, k, b) PROVE b = k
    <3>1. PICK m \in Nat : \E c \in [1..m -> 1..Len(t)] :
            /\ 1 \in 1..m /\ m \in 1..m /\ c[1] = k /\ c[m] = b
            /\ \A i \in 1..m - 1 : ~Stays(t, c[i]) /\ c[i + 1] = t[c[i]].parent
      BY <2>2 DEF Climbs
    <3>2. m = 1
      <4>1. 1 \notin 1..m - 1
        BY <1>1, <3>1
      <4> QED
        BY <3>1, <4>1
    <3> QED
      BY <3>1, <3>2
  <2>3. Ends0(k) = {k}
    BY <2>1, <2>2
  <2> HIDE DEF Ends0
  <2> QED
    BY <2>3
<1>2. ASSUME NEW k \in 1..Len(t), ~Stays(t, k)
      PROVE  t[k].parent \in 1..Len(t) /\ f[k] = f[t[k].parent]
  <2>1. PICK h : h = t[k].parent
    OBVIOUS
  <2>2. k /= 1
    BY <1>2 DEF Tree, IsRoot, Stays
  <2>3. Len(t) \in Nat
    BY SeqIs DEF Tree, Fielded
  <2>4. h \in 1..Len(t)
    BY <2>1, <2>2, <2>3 DEF Tree
  <2>5. ASSUME NEW b, Climbs(t, k, b) PROVE Climbs(t, h, b)
    <3>0. PICK m \in Nat : \E c \in [1..m -> 1..Len(t)] :
            /\ 1 \in 1..m /\ m \in 1..m /\ c[1] = k /\ c[m] = b /\ Stays(t, b)
            /\ \A i \in 1..m - 1 : ~Stays(t, c[i]) /\ c[i + 1] = t[c[i]].parent
      BY <2>5 DEF Climbs
    <3>1. PICK c \in [1..m -> 1..Len(t)] :
            /\ 1 \in 1..m /\ m \in 1..m /\ c[1] = k /\ c[m] = b /\ Stays(t, b)
            /\ \A i \in 1..m - 1 : ~Stays(t, c[i]) /\ c[i + 1] = t[c[i]].parent
      BY <3>0
    <3>2. m /= 1
      BY <1>2, <3>1
    <3>3. PICK n \in Nat : n = m - 1 /\ n >= 1
      BY <3>1, <3>2
    <3>4. PICK d : d = [i \in 1..n |-> c[i + 1]]
      OBVIOUS
    <3>5. /\ d \in [1..n -> 1..Len(t)] /\ 1 \in 1..n /\ n \in 1..n /\ d[n] = b /\ d[1] = c[2]
          /\ \A i \in 1..n : d[i] = c[i + 1]
      BY <3>1, <3>3, <3>4
    <3>6. c[1] = k /\ 1 \in 1..m - 1 /\ c[1 + 1] = t[c[1]].parent /\ 1 + 1 = 2
      BY <3>1, <3>3
    <3>7. ASSUME NEW i \in 1..n - 1 PROVE ~Stays(t, d[i]) /\ d[i + 1] = t[d[i]].parent
      <4>1. i \in 1..n /\ i + 1 \in 1..n /\ i + 1 \in 1..m - 1
        BY <3>3
      <4>2. d[i] = c[i + 1] /\ d[i + 1] = c[i + 1 + 1]
        BY <3>5, <4>1
      <4> QED
        BY <3>1, <4>1, <4>2
    <3> QED
      BY <2>1, <3>1, <3>5, <3>6, <3>7 DEF Climbs
  <2>6. ASSUME NEW b, Climbs(t, h, b) PROVE Climbs(t, k, b)
    <3>1. PICK m \in Nat : \E c \in [1..m -> 1..Len(t)] :
            /\ 1 \in 1..m /\ m \in 1..m /\ c[1] = h /\ c[m] = b /\ Stays(t, b)
            /\ \A i \in 1..m - 1 : ~Stays(t, c[i]) /\ c[i + 1] = t[c[i]].parent
      BY <2>6 DEF Climbs
    <3>2. PICK c \in [1..m -> 1..Len(t)] :
            /\ 1 \in 1..m /\ m \in 1..m /\ c[1] = h /\ c[m] = b /\ Stays(t, b)
            /\ \A i \in 1..m - 1 : ~Stays(t, c[i]) /\ c[i + 1] = t[c[i]].parent
      BY <3>1
    <3>3. PICK n \in Nat : n = m + 1 /\ n >= 2
      BY <3>2
    <3>4. PICK d : d = [i \in 1..n |-> IF i = 1 THEN k ELSE c[i - 1]]
      OBVIOUS
    <3>5. \A i \in 1..n : i /= 1 => i - 1 \in 1..m
      BY <3>3
    <3>6. d \in [1..n -> 1..Len(t)] /\ \A i \in 1..n : d[i] = IF i = 1 THEN k ELSE c[i - 1]
      BY <3>4, <3>5
    <3>7. 1 \in 1..n /\ n \in 1..n /\ n - 1 = m /\ n /= 1
      BY <3>3
    <3>8. d[1] = k /\ d[n] = b
      BY <3>2, <3>6, <3>7
    <3>9. ASSUME NEW i \in 1..n - 1 PROVE ~Stays(t, d[i]) /\ d[i + 1] = t[d[i]].parent
      <4>1. i \in 1..n /\ i + 1 \in 1..n /\ i + 1 /= 1 /\ i + 1 - 1 = i
        BY <3>3
      <4>2. d[i + 1] = c[i]
        BY <3>6, <4>1
      <4>3. CASE i = 1
        BY <1>2, <2>1, <3>2, <3>8, <4>2, <4>3
      <4>4. CASE i /= 1
        <5>1. i - 1 \in 1..m - 1 /\ i - 1 + 1 = i
          BY <3>3, <4>4
        <5>2. d[i] = c[i - 1]
          BY <3>6, <4>1, <4>4
        <5>3. ~Stays(t, c[i - 1]) /\ c[i] = t[c[i - 1]].parent
          BY <3>2, <5>1
        <5> QED
          BY <4>2, <5>2, <5>3
      <4> QED
        BY <4>3, <4>4
    <3> QED
      BY <3>2, <3>6, <3>7, <3>8, <3>9 DEF Climbs
  <2>7. Ends0(k) = Ends0(h)
    BY <2>5, <2>6
  <2> HIDE DEF Ends0
  <2> QED
    BY <2>1, <2>4, <2>7
<1>3. f = [k \in 1..Len(t) |-> f[k]]
  OBVIOUS
<1> HIDE DEF f
<1>4. \A k \in 1..Len(t) : f[k] = IF Stays(t, k) THEN k ELSE f[t[k].parent]
  BY <1>1, <1>2
<1>5. f = [k \in 1..Len(t) |-> IF Stays(t, k) THEN k ELSE f[t[k].parent]]
  BY <1>3, <1>4
<1> QED
  BY <1>5

\* From a node on the edge it ends on the edge, at this node or at one with children.
LEMMA Nearest ==
  ASSUME NEW t, Tree(t), NEW c, OnEdge(t, c)
  PROVE  /\ OnEdge(t, nearest_incomplete_node(t, c))
         /\ nearest_incomplete_node(t, c) = c \/ t[nearest_incomplete_node(t, c)].children /= <<>>
<1> DEFINE IsUp(up) == up = [k \in 1..Len(t) |-> IF Stays(t, k) THEN k ELSE up[t[k].parent]]
<1>1. PICK up : up = (CHOOSE g : IsUp(g)) /\ IsUp(up)
  <2>1. \E g : IsUp(g)
    BY Searches
  <2> HIDE DEF IsUp
  <2> QED
    BY <2>1
<1>2. nearest_incomplete_node(t, c) = IF t[c].parent = NoParent THEN c ELSE up[t[c].parent]
  BY <1>1 DEF nearest_incomplete_node, Stays
<1>3. \A k \in 1..Len(t) : up[k] = IF Stays(t, k) THEN k ELSE up[t[k].parent]
  BY <1>1
<1> HIDE DEF IsUp
<1>4. PICK p, m : Path(t, p, m, c)
  BY DEF OnEdge
<1>5. m \in Nat /\ 1 \in 1..m /\ p \in [1..m -> 1..Len(t)] /\ p[1] = 1 /\ p[m] = c /\ m \in 1..m
  BY <1>4 DEF Path
<1> DEFINE Hits == {i \in 0..m : i = 0 \/ \E j \in 1..i : up[p[i]] = p[j]}
<1>6. 0 \in Hits
  BY <1>5
<1>7. ASSUME NEW i \in 0..m - 1, i \in Hits PROVE i + 1 \in Hits
  <2>1. i + 1 \in 1..m /\ i + 1 \in 0..m /\ i + 1 \in 1..i + 1 /\ p[i + 1] \in 1..Len(t) /\ i \in Nat
    BY <1>5
  <2>2. CASE Stays(t, p[i + 1])
    <3>1. up[p[i + 1]] = p[i + 1]
      BY <1>3, <2>1, <2>2
    <3> QED
      BY <2>1, <3>1
  <2>3. CASE ~Stays(t, p[i + 1])
    <3>1. i /= 0
      <4>1. Stays(t, 1)
        BY DEF Tree, IsRoot, Stays
      <4> QED
        BY <1>5, <2>3, <4>1
    <3>2. i + 1 \in 2..m /\ i + 1 - 1 = i
      BY <2>1, <3>1
    <3>3. t[p[i + 1]].parent = p[i]
      BY <1>4, <3>2, PathUp
    <3>4. up[p[i + 1]] = up[p[i]]
      BY <1>3, <2>1, <2>3, <3>3
    <3>5. PICK j \in 1..i : up[p[i]] = p[j]
      BY <1>7, <3>1
    <3>6. j \in 1..i + 1
      BY <2>1
    <3> QED
      BY <2>1, <3>4, <3>5, <3>6
  <2> QED
    BY <2>2, <2>3
<1>8. \A i \in 0..m : i \in Hits
  <2> HIDE DEF Hits
  <2> QED
    BY <1>5, <1>6, <1>7, Induction
<1>9. CASE t[c].parent = NoParent
  BY <1>2, <1>9
<1>10. CASE t[c].parent /= NoParent
  <2>1. m /= 1
    BY <1>5, <1>10 DEF Tree, IsRoot
  <2>2. m \in 2..m /\ m - 1 \in 0..m /\ m - 1 /= 0
    BY <1>5, <2>1
  <2>3. t[c].parent = p[m - 1]
    BY <1>4, <1>5, <2>2, PathUp
  <2>4. PICK j \in 1..m - 1 : up[p[m - 1]] = p[j]
    BY <1>8, <2>2
  <2>5. j \in 1..m /\ j + 1 \in 2..m /\ j + 1 - 1 = j
    BY <1>5, <2>2
  <2>6. nearest_incomplete_node(t, c) = p[j]
    BY <1>2, <1>10, <2>3, <2>4
  <2>7. t[p[j]].children /= <<>>
    <3>1. j \in 1..m - 1
      OBVIOUS
    <3>2. LastChild(t, p[j], p[j + 1])
      BY <1>4, <3>1 DEF Path
    <3> QED
      BY <3>2 DEF LastChild
  <2> QED
    BY <1>4, <2>5, <2>6, <2>7, PathPart
<1> QED
  BY <1>9, <1>10

-----------------------------------------------------------------------------
(* What changes the tree: a node is added behind the last child of a node  *)
(* on the edge, alone or in a block of its own.                            *)

LEMMA KeptTree ==
  ASSUME NEW t, Tree(t), NEW u, Kept(t, u) PROVE Tree(u)
<1>1. Fielded(u) /\ Len(u) = Len(t) /\ \A k \in 1..Len(t) : Alike(u[k], t[k])
  BY KeptFields DEF Tree, Kept
<1>2. \A k \in 1..Len(t) : /\ u[k].kind = t[k].kind /\ u[k].parent = t[k].parent
                           /\ u[k].children = t[k].children /\ u[k].capacity = t[k].capacity
                           /\ t[k].nth_block_or_single /= 0 => u[k].nth_block_or_single /= 0
  BY <1>1 DEF Alike
<1>3. 1 \in 1..Len(u) /\ IsRoot(u[1])
  BY <1>1, <1>2 DEF Tree, IsRoot
<1>4. \A k \in 1..Len(u) : u[k].kind = "method" => u[k].capacity = 3 /\ u[k].nth_block_or_single /= 0
  BY <1>1, <1>2 DEF Tree
<1>5. ASSUME NEW k \in 1..Len(u), NEW i \in 1..Len(u[k].children)
      PROVE  u[k].children[i] \in 1..Len(u) /\ u[u[k].children[i]].parent = k
  <2>1. k \in 1..Len(t) /\ u[k].children = t[k].children
    BY <1>1, <1>2
  <2>2. PICK d : d = t[k].children[i]
    OBVIOUS
  <2>3. i \in 1..Len(t[k].children)
    BY <2>1
  <2>4. d \in 1..Len(t) /\ t[d].parent = k
    BY <2>1, <2>2, <2>3 DEF Tree
  <2> QED
    BY <1>1, <1>2, <2>1, <2>2, <2>4
<1>6. ASSUME NEW k \in 2..Len(u)
      PROVE  /\ u[k].parent \in 1..Len(u)
             /\ \E i \in 1..Len(u[u[k].parent].children) : u[u[k].parent].children[i] = k
  <2>1. Len(t) \in Nat
    BY SeqIs DEF Tree, Fielded
  <2>2. k \in 1..Len(t) /\ k \in 2..Len(t)
    BY <1>1, <2>1
  <2>3. PICK h, s : h = t[k].parent /\ s = t[h].children
    OBVIOUS
  <2>4. h \in 1..Len(t) /\ \E i \in 1..Len(s) : s[i] = k
    BY <2>2, <2>3 DEF Tree
  <2>5. u[k].parent = h /\ u[h].children = s
    BY <1>2, <2>2, <2>3, <2>4
  <2> QED
    BY <1>1, <2>4, <2>5
<1> QED
  BY <1>1, <1>3, <1>4, <1>5, <1>6 DEF Tree

LEMMA KeptEdge ==
  ASSUME NEW t, NEW u, Kept(t, u), NEW c, OnEdge(t, c) PROVE OnEdge(u, c)
<1>1. PICK p, m : Path(t, p, m, c)
  BY DEF OnEdge
<1>2. Len(u) = Len(t) /\ \A k \in 1..Len(t) : u[k].children = t[k].children
  BY DEF Kept, Alike
<1>3. \A i \in 1..m - 1 : LastChild(u, p[i], p[i + 1])
  <2> SUFFICES ASSUME NEW i \in 1..m - 1 PROVE LastChild(u, p[i], p[i + 1])
    OBVIOUS
  <2>1. i \in 1..m /\ p[i] \in 1..Len(t) /\ LastChild(t, p[i], p[i + 1])
    BY <1>1 DEF Path
  <2> QED
    BY <1>2, <2>1 DEF LastChild
<1>4. Path(u, p, m, c)
  BY <1>1, <1>2, <1>3 DEF Path
<1> QED
  BY <1>4 DEF OnEdge

\* A path goes on to the last child of its end.
LEMMA PathExtends ==
  ASSUME NEW t, Tree(t), NEW c, OnEdge(t, c), NEW d, LastChild(t, c, d)
  PROVE  OnEdge(t, d)
<1>1. PICK p, m : Path(t, p, m, c)
  BY DEF OnEdge
<1>2. /\ m \in Nat /\ 1 \in 1..m /\ m \in 1..m /\ p \in [1..m -> 1..Len(t)] /\ p[1] = 1 /\ p[m] = c
      /\ \A i \in 1..m - 1 : LastChild(t, p[i], p[i + 1])
      /\ \A i, j \in 1..m : p[i] = p[j] => i = j
  BY <1>1 DEF Path
<1>3. c \in 1..Len(t)
  BY <1>2
<1>4. d \in 1..Len(t) /\ t[d].parent = c
  BY <1>3, LastIs
<1>5. ASSUME NEW j \in 1..m, p[j] = d PROVE FALSE
  <2>1. CASE j = 1
    <3>1. t[1].parent = 0 /\ c /= 0
      BY <1>3 DEF Tree, IsRoot, NoParent
    <3> QED
      BY <1>2, <1>4, <1>5, <2>1, <3>1
  <2>2. CASE j /= 1
    <3>1. j \in 2..m /\ j - 1 \in 1..m /\ j - 1 /= m
      BY <1>2, <2>2
    <3>2. t[p[j]].parent = p[j - 1]
      BY <1>1, <3>1, PathUp
    <3> QED
      BY <1>2, <1>4, <1>5, <3>1, <3>2
  <2> QED
    BY <2>1, <2>2
<1>6. PICK n \in Nat : n = m + 1
  BY <1>2
<1>7. PICK q : q = [i \in 1..n |-> IF i = n THEN d ELSE p[i]]
  OBVIOUS
<1>8. \A i \in 1..n : i /= n => i \in 1..m
  BY <1>2, <1>6
<1>9. 1 \in 1..n /\ n \in 1..n /\ 1 /= n /\ m \in 1..n /\ m /= n
  BY <1>2, <1>6
<1>10. q \in [1..n -> 1..Len(t)] /\ \A i \in 1..n : q[i] = IF i = n THEN d ELSE p[i]
  <2>1. \A i \in 1..n : (IF i = n THEN d ELSE p[i]) \in 1..Len(t)
    BY <1>2, <1>4, <1>8
  <2> QED
    BY <1>7, <2>1
<1>11. q[1] = 1 /\ q[n] = d
  BY <1>2, <1>9, <1>10
<1>12. ASSUME NEW i \in 1..n - 1 PROVE LastChild(t, q[i], q[i + 1])
  <2>1. i \in 1..n /\ i /= n /\ i \in 1..m /\ i + 1 \in 1..n /\ (i /= m => i \in 1..m - 1 /\ i + 1 /= n)
        /\ (i = m => i + 1 = n)
    BY <1>2, <1>6
  <2>2. q[i] = p[i]
    BY <1>10, <2>1
  <2>3. CASE i = m
    <3>1. q[i + 1] = d
      BY <1>10, <2>1, <2>3
    <3> QED
      BY <1>2, <2>2, <2>3, <3>1
  <2>4. CASE i /= m
    <3>1. q[i + 1] = p[i + 1]
      BY <1>10, <2>1, <2>4
    <3> QED
      BY <1>2, <2>1, <2>2, <2>4, <3>1
  <2> QED
    BY <2>3, <2>4
<1>13. \A i, j \in 1..n : q[i] = q[j] => i = j
  <2> SUFFICES ASSUME NEW i \in 1..n, NEW j \in 1..n, q[i] = q[j], i /= j PROVE FALSE
    OBVIOUS
  <2>1. CASE i = n
    BY <1>5, <1>8, <1>10, <2>1
  <2>2. CASE j = n
    BY <1>5, <1>8, <1>10, <2>2
  <2>3. CASE i /= n /\ j /= n
    BY <1>2, <1>8, <1>10, <2>3
  <2> QED
    BY <2>1, <2>2, <2>3
<1>14. Path(t, q, n, d)
  BY <1>9, <1>10, <1>11, <1>12, <1>13 DEF Path
<1> QED
  BY <1>14 DEF OnEdge

\* m is as t[c], with one more child.
Adopts(m, n, child) ==
  /\ DOMAIN m = Fields /\ IsSeq(m.locals)
  /\ m.kind = n.kind /\ m.parent = n.parent /\ m.capacity = n.capacity
  /\ n.nth_block_or_single /= 0 => m.nth_block_or_single /= 0
  /\ m.children = Append(n.children, child)

\* A node nothing was appended to yet, but for its parent and children.
Fresh(m, parent, children) ==
  /\ DOMAIN m = Fields /\ IsSeq(m.locals) /\ m.parent = parent /\ m.children = children
  /\ m.kind = "method" => m.capacity = 3 /\ m.nth_block_or_single /= 0

\* u is t with a node, or with a node and a block around it, behind the children of c.
Grown(t, u, c, K) ==
  /\ K \in {1, 2} /\ IsSeq(u) /\ Len(u) = Len(t) + K
  /\ \A k \in 1..Len(t) : k /= c => Alike(u[k], t[k])
  /\ Adopts(u[c], t[c], Len(t) + K)
  /\ Fresh(u[Len(t) + 1], IF K = 1 THEN c ELSE Len(t) + 2, <<>>)
  /\ K = 2 => Fresh(u[Len(t) + 2], c, <<Len(t) + 1>>)

LEMMA One == ASSUME NEW x PROVE IsSeq(<<x>>) /\ Len(<<x>>) = 1 /\ <<x>>[1] = x
<1>1. <<x>> \in Seq({x})
  OBVIOUS
<1> QED
  BY <1>1 DEF IsSeq

\* What the old nodes, the one that grows and the new ones have for children.
LEMMA GrownKids ==
  ASSUME NEW t, Tree(t), NEW c \in 1..Len(t), NEW u, NEW K, Grown(t, u, c, K)
  PROVE  /\ \A k \in 1..Len(t) : k /= c => u[k].children = t[k].children
         /\ Len(u[c].children) = Len(t[c].children) + 1
         /\ \A i \in 1..Len(t[c].children) : u[c].children[i] = t[c].children[i]
         /\ u[c].children[Len(t[c].children) + 1] = Len(t) + K
         /\ \A k \in 1..Len(u) : IsSeq(u[k].children)
<1>1. \A k \in 1..Len(t) : IsSeq(t[k].children)
  BY DEF Tree, Fielded
<1>2. \A k \in 1..Len(t) : k /= c => u[k].children = t[k].children
  BY DEF Grown, Alike
<1>3. u[c].children = Append(t[c].children, Len(t) + K)
  BY DEF Grown, Adopts
<1>4. Len(t) \in Nat /\ Len(u) = Len(t) + K /\ K \in {1, 2}
  BY SeqIs DEF Tree, Fielded, Grown
<1>5. u[Len(t) + 1].children = <<>> /\ (K = 2 => u[Len(t) + 2].children = <<Len(t) + 1>>)
  BY DEF Grown, Fresh
<1>6. PICK s : s = t[c].children /\ IsSeq(s) /\ u[c].children = Append(s, Len(t) + K)
  BY <1>1, <1>3
<1>7. PICK x : x = Len(t) + K
  OBVIOUS
<1>8. /\ IsSeq(Append(s, x)) /\ Len(Append(s, x)) = Len(s) + 1
      /\ \A i \in 1..Len(s) : Append(s, x)[i] = s[i]
      /\ Append(s, x)[Len(s) + 1] = x
  BY <1>6, Appends
<1>9. ASSUME NEW k \in 1..Len(u) PROVE IsSeq(u[k].children)
  <2>1. k \in 1..Len(t) \/ k = Len(t) + 1 \/ (K = 2 /\ k = Len(t) + 2)
    BY <1>4
  <2>2. CASE k \in 1..Len(t)
    BY <1>1, <1>2, <1>6, <1>7, <1>8, <2>2
  <2>3. CASE k = Len(t) + 1
    BY <1>5, <2>3, Empties
  <2>4. CASE K = 2 /\ k = Len(t) + 2
    BY <1>5, <2>4, One
  <2> QED
    BY <2>1, <2>2, <2>3, <2>4
<1> QED
  BY <1>2, <1>6, <1>7, <1>8, <1>9

\* The tree stays one, and its right edge goes to the new nodes.
LEMMA Grows ==
  ASSUME NEW t, Tree(t), NEW c, OnEdge(t, c), NEW u, NEW K, Grown(t, u, c, K)
  PROVE  Tree(u) /\ OnEdge(u, c) /\ OnEdge(u, Len(t) + 1)
<1>1. PICK N \in Nat : N = Len(t)
  BY SeqIs DEF Tree, Fielded
<1>2. /\ K \in {1, 2} /\ IsSeq(u) /\ Len(u) = N + K
      /\ \A k \in 1..N : k /= c => Alike(u[k], t[k])
      /\ Adopts(u[c], t[c], N + K)
      /\ Fresh(u[N + 1], IF K = 1 THEN c ELSE N + 2, <<>>)
      /\ K = 2 => Fresh(u[N + 2], c, <<N + 1>>)
  BY <1>1 DEF Grown
<1>3. c \in 1..N /\ 1 \in 1..N
  BY <1>1, EdgeIs DEF Tree
<1>4. /\ \A k \in 1..N : k /= c => u[k].children = t[k].children
      /\ Len(u[c].children) = Len(t[c].children) + 1
      /\ \A i \in 1..Len(t[c].children) : u[c].children[i] = t[c].children[i]
      /\ u[c].children[Len(t[c].children) + 1] = N + K
      /\ \A k \in 1..Len(u) : IsSeq(u[k].children)
  BY <1>1, <1>3, GrownKids
<1>5. \A k \in 1..N : /\ u[k].kind = t[k].kind /\ u[k].parent = t[k].parent /\ u[k].capacity = t[k].capacity
                      /\ t[k].nth_block_or_single /= 0 => u[k].nth_block_or_single /= 0
                      /\ DOMAIN u[k] = Fields /\ IsSeq(u[k].locals)
  BY <1>2, <1>3 DEF Alike, Adopts
<1>6. /\ DOMAIN u[N + 1] = Fields /\ IsSeq(u[N + 1].locals) /\ u[N + 1].children = <<>>
      /\ u[N + 1].parent = IF K = 1 THEN c ELSE N + 2
      /\ u[N + 1].kind = "method" => u[N + 1].capacity = 3 /\ u[N + 1].nth_block_or_single /= 0
      /\ K = 2 => /\ DOMAIN u[N + 2] = Fields /\ IsSeq(u[N + 2].locals) /\ u[N + 2].children = <<N + 1>>
                  /\ u[N + 2].parent = c
                  /\ u[N + 2].kind = "method" => u[N + 2].capacity = 3 /\ u[N + 2].nth_block_or_single /= 0
  BY <1>2 DEF Fresh
<1>7. \A k \in 1..Len(u) : k \in 1..N \/ k = N + 1 \/ (K = 2 /\ k = N + 2)
  BY <1>2
<1>8. 1..N \subseteq 1..Len(u) /\ N + 1 \in 1..Len(u) /\ N + K \in 1..Len(u) /\ (K = 2 => N + 2 \in 1..Len(u))
  BY <1>2
<1>9. Fielded(u)
  BY <1>2, <1>4, <1>5, <1>6, <1>7 DEF Fielded
<1>10. 1 \in 1..Len(u) /\ IsRoot(u[1])
  BY <1>1, <1>3, <1>5, <1>8 DEF Tree, IsRoot
<1>11. \A k \in 1..Len(u) : u[k].kind = "method" => u[k].capacity = 3 /\ u[k].nth_block_or_single /= 0
  <2>1. \A k \in 1..N : t[k].kind = "method" => t[k].capacity = 3 /\ t[k].nth_block_or_single /= 0
    BY <1>1 DEF Tree
  <2> QED
    BY <1>5, <1>6, <1>7, <2>1
<1>12. ASSUME NEW k \in 1..Len(u), NEW i \in 1..Len(u[k].children)
       PROVE  u[k].children[i] \in 1..Len(u) /\ u[u[k].children[i]].parent = k
  <2>1. CASE k \in 1..N /\ i \in 1..Len(t[k].children)
    <3>1. PICK d : d = t[k].children[i]
      OBVIOUS
    <3>2. d \in 1..N /\ t[d].parent = k
      BY <1>1, <2>1, <3>1 DEF Tree
    <3>3. u[k].children[i] = d
      BY <1>4, <2>1, <3>1
    <3> QED
      BY <1>5, <1>8, <3>2, <3>3
  <2>2. CASE k \in 1..N /\ i \notin 1..Len(t[k].children)
    <3>1. k = c
      BY <1>4, <2>2
    <3>2. IsSeq(t[c].children)
      BY <1>1, <1>3 DEF Tree, Fielded
    <3>3. Len(t[c].children) \in Nat
      BY <3>2, SeqIs
    <3>4. i = Len(t[c].children) + 1
      BY <1>4, <2>2, <3>1, <3>3
    <3>5. u[k].children[i] = N + K
      BY <1>4, <3>1, <3>4
    <3>6. u[N + K].parent = c
      BY <1>2, <1>6
    <3> QED
      BY <1>8, <3>1, <3>5, <3>6
  <2>3. CASE k = N + 1
    BY <1>6, <2>3, Empties
  <2>4. CASE K = 2 /\ k = N + 2
    <3>1. i = 1 /\ u[k].children[i] = N + 1
      <4>1. i \in 1..Len(<<N + 1>>) /\ u[k].children = <<N + 1>>
        BY <1>6, <2>4
      <4>2. i = 1
        BY <4>1, One
      <4> QED
        BY <4>1, <4>2, One
    <3> QED
      BY <1>6, <1>8, <2>4, <3>1
  <2> QED
    BY <1>7, <2>1, <2>2, <2>3, <2>4
<1>13. ASSUME NEW k \in 2..Len(u)
       PROVE  /\ u[k].parent \in 1..Len(u)
              /\ \E i \in 1..Len(u[u[k].parent].children) : u[u[k].parent].children[i] = k
  <2>1. k \in 1..Len(u) /\ k /= 1 /\ (k \in 1..N => k \in 2..N)
    BY <1>1, <1>2
  <2>2. IsSeq(t[c].children)
    BY <1>1, <1>3 DEF Tree, Fielded
  <2>3. Len(t[c].children) \in Nat
    BY <2>2, SeqIs
  <2>4. CASE k \in 1..N
    <3>1. PICK h, s : h = t[k].parent /\ s = t[h].children
      OBVIOUS
    <3>2. h \in 1..N /\ \E i \in 1..Len(s) : s[i] = k
      BY <1>1, <2>1, <2>4, <3>1 DEF Tree
    <3>3. PICK i \in 1..Len(s) : s[i] = k
      BY <3>2
    <3>4. u[k].parent = h
      BY <1>5, <2>4, <3>1
    <3>5. i \in 1..Len(u[h].children) /\ u[h].children[i] = k
      <4>1. CASE h = c
        <5>1. i \in 1..Len(t[c].children) /\ Len(u[c].children) = Len(t[c].children) + 1
              /\ u[c].children[i] = t[c].children[i]
          BY <1>4, <3>1, <3>3, <4>1
        <5>2. i \in 1..Len(t[c].children) + 1
          BY <2>3, <5>1
        <5> QED
          BY <3>1, <3>3, <4>1, <5>1, <5>2
      <4>2. CASE h /= c
        BY <1>4, <3>1, <3>2, <3>3, <4>2
      <4> QED
        BY <4>1, <4>2
    <3> QED
      BY <1>8, <3>2, <3>4, <3>5
  <2>5. CASE k = N + K
    <3>1. u[k].parent = c
      BY <1>2, <1>6, <2>5
    <3>2. Len(t[c].children) + 1 \in 1..Len(u[c].children)
      BY <1>4, <2>3
    <3> QED
      BY <1>3, <1>4, <1>8, <2>5, <3>1, <3>2
  <2>6. CASE K = 2 /\ k = N + 1
    <3>1. u[k].parent = N + 2 /\ u[N + 2].children = <<N + 1>>
      BY <1>6, <2>6
    <3>2. Len(<<N + 1>>) = 1 /\ <<N + 1>>[1] = N + 1 /\ 1 \in 1..1
      BY One
    <3> QED
      BY <1>8, <2>6, <3>1, <3>2
  <2> QED
    BY <1>2, <1>7, <2>1, <2>4, <2>5, <2>6
<1>14. Tree(u)
  BY <1>9, <1>10, <1>11, <1>12, <1>13 DEF Tree
<1>15. OnEdge(u, c)
  <2>1. PICK p, m : Path(t, p, m, c)
    BY DEF OnEdge
  <2>2. ASSUME NEW i \in 1..m - 1 PROVE LastChild(u, p[i], p[i + 1])
    <3>1. i \in 1..m /\ i /= m /\ m \in 1..m /\ p[m] = c /\ p[i] \in 1..N /\ LastChild(t, p[i], p[i + 1])
      BY <1>1, <2>1 DEF Path
    <3>2. p[i] /= c
      BY <2>1, <3>1 DEF Path
    <3>3. u[p[i]].children = t[p[i]].children
      BY <1>4, <3>1, <3>2
    <3> QED
      BY <3>1, <3>3 DEF LastChild
  <2>3. p \in [1..m -> 1..Len(u)]
    BY <1>1, <1>8, <2>1 DEF Path
  <2>4. Path(u, p, m, c)
    BY <2>1, <2>2, <2>3 DEF Path
  <2> QED
    BY <2>4 DEF OnEdge
<1>16. LastChild(u, c, N + K)
  <2>1. PICK s : s = u[c].children /\ IsSeq(s)
    BY <1>3, <1>4, <1>8
  <2>2. IsSeq(t[c].children)
    BY <1>1, <1>3 DEF Tree, Fielded
  <2>3. Len(s) > 0 /\ s[Len(s)] = N + K
    BY <1>4, <2>1, <2>2, SeqIs
  <2>4. s /= <<>>
    BY <2>3, Empties
  <2> QED
    BY <2>1, <2>3, <2>4 DEF LastChild, Last
<1>17. OnEdge(u, N + K)
  BY <1>14, <1>15, <1>16, PathExtends
<1>18. K = 2 => LastChild(u, N + 2, N + 1)
  <2>1. <<N + 1>> /= <<>> /\ Last(<<N + 1>>) = N + 1
    BY One, Empties DEF Last
  <2> QED
    BY <1>6, <2>1 DEF LastChild
<1>19. OnEdge(u, N + 1)
  <2>1. CASE K = 1
    BY <1>17, <2>1
  <2>2. CASE K = 2
    BY <1>14, <1>17, <1>18, <2>2, PathExtends
  <2> QED
    BY <1>2, <2>1, <2>2
<1> QED
  BY <1>1, <1>14, <1>15, <1>19

-----------------------------------------------------------------------------
(* The nodes that are made. *)

LEMMA NewNodeIs ==
  ASSUME NEW kind, NEW raw
  PROVE  /\ DOMAIN NewNode(kind, raw) = Fields /\ IsSeq(NewNode(kind, raw).locals)
         /\ NewNode(kind, raw).kind = kind /\ NewNode(kind, raw).children = <<>>
         /\ NewNode(kind, raw).parent = NoParent
         /\ kind = "method" => /\ NewNode(kind, raw).capacity = 3
                               /\ NewNode(kind, raw).nth_block_or_single /= 0
<1>1. DOMAIN NewNode(kind, raw) = Fields
  BY DEF NewNode, Fields
<1>2. /\ NewNode(kind, raw).locals = <<>> /\ NewNode(kind, raw).kind = kind
      /\ NewNode(kind, raw).children = <<>> /\ NewNode(kind, raw).parent = NoParent
      /\ NewNode(kind, raw).capacity = Capacity(kind)
      /\ NewNode(kind, raw).nth_block_or_single = BlockOrSingle(kind)
  BY DEF NewNode
<1>3. kind = "method" => Capacity(kind) = 3 /\ BlockOrSingle(kind) /= 0
  BY DEF Capacity, BlockOrSingle, Unlimited
<1> QED
  BY <1>1, <1>2, <1>3, Empties

LEMMA Starts == Tree(<<NewNode("root", "")>>) /\ OnEdge(<<NewNode("root", "")>>, 1)
<1>1. PICK t, m, kind, raw : t = <<m>> /\ m = NewNode(kind, raw) /\ kind = "root" /\ raw = ""
  OBVIOUS
<1>2. /\ DOMAIN m = Fields /\ IsSeq(m.locals) /\ m.kind = "root" /\ m.children = <<>>
      /\ m.parent = NoParent
  BY <1>1, NewNodeIs
<1>3. IsSeq(t) /\ Len(t) = 1 /\ t[1] = m
  BY <1>1, One
<1>4. \A k \in 1..Len(t) : k = 1
  BY <1>3
<1>5. Fielded(t)
  BY <1>2, <1>3, <1>4, Empties DEF Fielded
<1>6. \A k \in 1..Len(t) : t[k].children = <<>> /\ Len(<<>>) = 0 /\ t[k].kind /= "method"
  BY <1>2, <1>3, <1>4, Empties
<1>7. Tree(t)
  <2>1. 1 \in 1..Len(t) /\ IsRoot(t[1])
    BY <1>2, <1>3 DEF IsRoot
  <2>2. \A k \in 1..Len(t) : \A i \in 1..Len(t[k].children) : FALSE
    BY <1>6
  <2>3. \A k \in 2..Len(t) : FALSE
    BY <1>3
  <2> QED
    BY <1>5, <1>6, <2>1, <2>2, <2>3 DEF Tree
<1>8. PICK p : p = [i \in 1..1 |-> 1]
  OBVIOUS
<1>9. /\ p \in [1..1 -> 1..Len(t)] /\ p[1] = 1 /\ 1 \in Nat /\ 1 \in 1..1
      /\ \A i \in 1..1 : i = 1
      /\ \A i \in 1..1 - 1 : FALSE
  BY <1>3, <1>8
<1>10. Path(t, p, 1, 1)
  BY <1>9 DEF Path
<1> QED
  BY <1>1, <1>7, <1>10 DEF OnEdge

-----------------------------------------------------------------------------
(* append. *)

Adopting(s, n, k) == [s EXCEPT ![k].parent = n, ![n].children = Append(@, k)]

\* What that makes of s.
Adopted(s, n, k, u) ==
  /\ IsSeq(u) /\ Len(u) = Len(s)
  /\ u[k] = [s[k] EXCEPT !.parent = n]
  /\ u[n] = [s[n] EXCEPT !.children = Append(s[n].children, k)]
  /\ \A i \in 1..Len(s) : i /= k /\ i /= n => u[i] = s[i]

LEMMA AdoptingIs ==
  ASSUME NEW s, IsSeq(s), NEW n \in 1..Len(s), NEW k \in 1..Len(s), k /= n
  PROVE  Adopted(s, n, k, Adopting(s, n, k))
<1> DEFINE u == With(s, k, [s[k] EXCEPT !.parent = n])
           v == With(u, n, [u[n] EXCEPT !.children = Append(u[n].children, k)])
<1>1. Adopting(s, n, k) = v
  BY DEF Adopting, With
<1>2. PICK a : a = [s[k] EXCEPT !.parent = n]
  OBVIOUS
<1>3. IsSeq(u) /\ Len(u) = Len(s) /\ \A i \in 1..Len(s) : u[i] = IF i = k THEN a ELSE s[i]
  BY <1>2, Changes
<1> HIDE DEF u
<1>4. u[n] = s[n]
  BY <1>3
<1>5. PICK b : b = [u[n] EXCEPT !.children = Append(u[n].children, k)]
  OBVIOUS
<1>6. IsSeq(v) /\ Len(v) = Len(u) /\ \A i \in 1..Len(u) : v[i] = IF i = n THEN b ELSE u[i]
  BY <1>3, <1>5, Changes
<1> HIDE DEF v
<1>7. v[k] = a /\ v[n] = b /\ \A i \in 1..Len(s) : i /= k /\ i /= n => v[i] = s[i]
  BY <1>3, <1>6
<1>8. b = [s[n] EXCEPT !.children = Append(s[n].children, k)]
  BY <1>4, <1>5
<1>9. IsSeq(v) /\ Len(v) = Len(s)
  BY <1>3, <1>6
<1> QED
  BY <1>1, <1>2, <1>7, <1>8, <1>9, Zenon DEF Adopted

LEMMA AdoptsIs ==
  ASSUME NEW n, DOMAIN n = Fields, IsSeq(n.locals), NEW child
  PROVE  Adopts([n EXCEPT !.children = Append(n.children, child)], n, child)
BY DEF Adopts, Fields

\* A node made by Add, when its parent is known.
Unborn(kind, raw, attr) == [NewNode(kind, raw) EXCEPT !.attr = attr]
Born(kind, raw, attr, parent) == [Unborn(kind, raw, attr) EXCEPT !.parent = parent]

LEMMA BornIs ==
  ASSUME NEW kind, NEW raw, NEW attr, NEW parent
  PROVE  Fresh(Born(kind, raw, attr, parent), parent, <<>>) /\ Born(kind, raw, attr, parent).kind = kind
<1>1. PICK m : m = NewNode(kind, raw)
  OBVIOUS
<1>2. /\ DOMAIN m = Fields /\ IsSeq(m.locals) /\ m.kind = kind /\ m.children = <<>>
      /\ kind = "method" => m.capacity = 3 /\ m.nth_block_or_single /= 0
  BY <1>1, NewNodeIs
<1>3. Fresh([[m EXCEPT !.attr = attr] EXCEPT !.parent = parent], parent, <<>>)
  BY <1>2 DEF Fresh, Fields
<1>4. [[m EXCEPT !.attr = attr] EXCEPT !.parent = parent].kind = kind
  BY <1>2 DEF Fields
<1> QED
  BY <1>1, <1>3, <1>4, Zenon DEF Born, Unborn

\* The block around a single statement.
BornBlock(children, parent) ==
  [[NewNode("block", "") EXCEPT !.children = children, !.capacity = 2] EXCEPT !.parent = parent]

LEMMA BornBlockIs ==
  ASSUME NEW children, NEW parent
  PROVE  Fresh(BornBlock(children, parent), parent, children) /\ BornBlock(children, parent).kind = "block"
<1>1. PICK m, kind, raw : m = NewNode(kind, raw) /\ kind = "block" /\ raw = ""
  OBVIOUS
<1>2. DOMAIN m = Fields /\ IsSeq(m.locals) /\ m.kind = "block"
  BY <1>1, NewNodeIs
<1>3. Fresh([[m EXCEPT !.children = children, !.capacity = 2] EXCEPT !.parent = parent], parent, children)
  BY <1>2 DEF Fresh, Fields
<1>4. [[m EXCEPT !.children = children, !.capacity = 2] EXCEPT !.parent = parent].kind = "block"
  BY <1>2 DEF Fields
<1> QED
  BY <1>1, <1>3, <1>4, Zenon DEF BornBlock

\* The tree before on_complete, with the new node in its place.
Single(t, c, m) == Adopting(Append(t, m), c, Len(t) + 1)
Wrapped(t, c, m) ==
  LET new == Len(t) + 1
      block == [NewNode("block", "") EXCEPT !.children = <<new>>, !.capacity = 2]
  IN  Adopting(Append([Append(t, m) EXCEPT ![new].parent = new + 1], block), c, new + 1)

LEMMA SingleGrows ==
  ASSUME NEW t, Tree(t), NEW c \in 1..Len(t), NEW kind, NEW raw, NEW attr, NEW m,
         m = Unborn(kind, raw, attr)
  PROVE  Grown(t, Single(t, c, m), c, 1) /\ Single(t, c, m)[Len(t) + 1].kind = kind
<1>1. PICK N \in Nat : N = Len(t) /\ IsSeq(t)
  BY SeqIs DEF Tree, Fielded
<1>2. PICK s : s = Append(t, m)
  OBVIOUS
<1>3. IsSeq(s) /\ Len(s) = N + 1 /\ (\A i \in 1..N : s[i] = t[i]) /\ s[N + 1] = m
  BY <1>1, <1>2, Appends
<1>4. PICK k : k = N + 1 /\ k \in 1..Len(s) /\ k /= c /\ c \in 1..Len(s)
  BY <1>1, <1>3
<1>5. PICK u : u = Adopting(s, c, k)
  OBVIOUS
<1>6. /\ IsSeq(u) /\ Len(u) = Len(s)
      /\ u[k] = [s[k] EXCEPT !.parent = c]
      /\ u[c] = [s[c] EXCEPT !.children = Append(s[c].children, k)]
      /\ \A i \in 1..Len(s) : i /= k /\ i /= c => u[i] = s[i]
  <2>1. Adopted(s, c, k, Adopting(s, c, k))
    BY <1>3, <1>4, AdoptingIs
  <2>2. Adopted(s, c, k, u)
    BY <1>5, <2>1
  <2> QED
    BY <2>2 DEF Adopted
<1>7. Single(t, c, m) = u
  BY <1>1, <1>2, <1>4, <1>5 DEF Single
<1>8. s[c] = t[c] /\ s[k] = m
  BY <1>1, <1>3, <1>4
<1>9. DOMAIN t[c] = Fields /\ IsSeq(t[c].locals)
  BY DEF Tree, Fielded
<1>10. Adopts(u[c], t[c], k)
  BY <1>6, <1>8, <1>9, AdoptsIs
<1>11. Fresh(u[k], c, <<>>) /\ u[k].kind = kind
  <2>1. u[k] = Born(kind, raw, attr, c)
    BY <1>6, <1>8, Zenon DEF Born
  <2> QED
    BY ONLY <2>1, BornIs
<1>12. ASSUME NEW i \in 1..N, i /= c PROVE Alike(u[i], t[i])
  <2>1. i \in 1..Len(s) /\ i /= k
    BY <1>3, <1>4
  <2>2. u[i] = t[i]
    BY <1>3, <1>6, <1>12, <2>1
  <2> QED
    BY <1>1, <2>2 DEF Tree, Fielded, Alike
<1>13. Grown(t, u, c, 1)
  BY <1>1, <1>3, <1>4, <1>6, <1>10, <1>11, <1>12 DEF Grown
<1> QED
  BY <1>1, <1>4, <1>7, <1>11, <1>13

LEMMA WrappedGrows ==
  ASSUME NEW t, Tree(t), NEW c \in 1..Len(t), NEW kind, NEW raw, NEW attr, NEW m,
         m = Unborn(kind, raw, attr)
  PROVE  Grown(t, Wrapped(t, c, m), c, 2) /\ Wrapped(t, c, m)[Len(t) + 2].kind = "block"
<1>1. PICK N \in Nat : N = Len(t) /\ IsSeq(t)
  BY SeqIs DEF Tree, Fielded
<1>2. PICK new, k : new = N + 1 /\ k = N + 2 /\ k = new + 1
  BY <1>1
<1>3. PICK r : r = Append(t, m)
  OBVIOUS
<1>4. IsSeq(r) /\ Len(r) = N + 1 /\ (\A i \in 1..N : r[i] = t[i]) /\ r[new] = m
  BY <1>1, <1>2, <1>3, Appends
<1>5. PICK m2 : m2 = [m EXCEPT !.parent = k]
  OBVIOUS
<1>6. PICK q : q = With(r, new, m2)
  OBVIOUS
<1>7. q = [r EXCEPT ![new].parent = k]
  <2>1. q = [r EXCEPT ![new] = [m EXCEPT !.parent = k]]
    BY <1>5, <1>6, Zenon DEF With
  <2>2. [r EXCEPT ![new].parent = k] = [r EXCEPT ![new] = [r[new] EXCEPT !.parent = k]]
    OBVIOUS
  <2> QED
    BY <1>4, <2>1, <2>2, Zenon
<1>8. IsSeq(q) /\ Len(q) = Len(r) /\ \A i \in 1..Len(r) : q[i] = IF i = new THEN m2 ELSE r[i]
  BY <1>4, <1>6, Changes
<1>9. PICK block : block = [NewNode("block", "") EXCEPT !.children = <<new>>, !.capacity = 2]
  OBVIOUS
<1>10. PICK s : s = Append(q, block)
  OBVIOUS
<1>11. IsSeq(s) /\ Len(s) = Len(q) + 1 /\ (\A i \in 1..Len(q) : s[i] = q[i]) /\ s[Len(q) + 1] = block
  BY <1>8, <1>10, Appends
<1>12. Len(s) = N + 2 /\ k \in 1..Len(s) /\ k /= c /\ c \in 1..Len(s) /\ new \in 1..Len(s) /\ new /= c /\ new /= k
  BY <1>1, <1>2, <1>4, <1>8, <1>11
<1>13. PICK u : u = Adopting(s, c, k)
  OBVIOUS
<1>14. /\ IsSeq(u) /\ Len(u) = Len(s)
       /\ u[k] = [s[k] EXCEPT !.parent = c]
       /\ u[c] = [s[c] EXCEPT !.children = Append(s[c].children, k)]
       /\ \A i \in 1..Len(s) : i /= k /\ i /= c => u[i] = s[i]
  <2>1. Adopted(s, c, k, Adopting(s, c, k))
    BY <1>11, <1>12, AdoptingIs
  <2>2. Adopted(s, c, k, u)
    BY <1>13, <2>1
  <2> QED
    BY <2>2 DEF Adopted
<1>15. Wrapped(t, c, m) = u
  BY <1>1, <1>2, <1>3, <1>7, <1>9, <1>10, <1>13, Zenon DEF Wrapped
<1>16. s[k] = block /\ s[new] = m2 /\ \A i \in 1..N : s[i] = t[i]
  <2>1. new \in 1..Len(r) /\ new \in 1..Len(q) /\ k = Len(q) + 1 /\ \A i \in 1..N : i \in 1..Len(r) /\ i \in 1..Len(q) /\ i /= new
    BY <1>1, <1>2, <1>4, <1>8
  <2> QED
    BY <1>4, <1>8, <1>11, <2>1
<1>17. DOMAIN t[c] = Fields /\ IsSeq(t[c].locals)
  BY DEF Tree, Fielded
<1>18. Adopts(u[c], t[c], k)
  BY <1>1, <1>14, <1>16, <1>17, AdoptsIs
<1>19. Fresh(u[k], c, <<new>>) /\ u[k].kind = "block"
  <2>1. u[k] = BornBlock(<<new>>, c)
    BY <1>9, <1>14, <1>16, Zenon DEF BornBlock
  <2> QED
    BY <2>1, BornBlockIs, Zenon
<1>20. Fresh(u[new], k, <<>>)
  <2>1. u[new] = m2
    BY <1>12, <1>14, <1>16
  <2>2. u[new] = Born(kind, raw, attr, k)
    BY <1>5, <2>1, Zenon DEF Born
  <2> QED
    BY ONLY <2>2, BornIs
<1>21. ASSUME NEW i \in 1..N, i /= c PROVE Alike(u[i], t[i])
  <2>1. i \in 1..Len(s) /\ i /= k
    BY <1>2, <1>12
  <2>2. u[i] = t[i]
    BY <1>14, <1>16, <1>21, <2>1
  <2> QED
    BY <1>1, <2>2 DEF Tree, Fielded, Alike
<1>22. Grown(t, u, c, 2)
  BY <1>1, <1>2, <1>12, <1>14, <1>18, <1>19, <1>20, <1>21 DEF Grown
<1> QED
  BY <1>1, <1>2, <1>15, <1>19, <1>22

\* The end of append.
Finishes(u, c) == IF is_complete(u, c) THEN on_complete(u, c) ELSE u

LEMMA NotEmpty == ASSUME NEW s, IsSeq(s), s /= <<>> PROVE Len(s) >= 1
<1>1. PICK S : s \in Seq(S)
  BY DEF IsSeq
<1> QED
  BY <1>1

LEMMA Finished ==
  ASSUME NEW t, Tree(t), NEW c, OnEdge(t, c), NEW u, NEW K, Grown(t, u, c, K),
         t[c].kind = "method" /\ t[c].children = <<>> => K = 1 /\ u[Len(t) + 1].kind /= "block"
  PROVE  /\ Tree(Finishes(u, c)) /\ OnEdge(Finishes(u, c), c)
         /\ OnEdge(Finishes(u, c), Len(t) + 1)
<1>1. Tree(u) /\ OnEdge(u, c) /\ OnEdge(u, Len(t) + 1)
  BY Grows
<1>2. c \in 1..Len(t) /\ c \in 1..Len(u)
  BY <1>1, EdgeIs
<1>3. PICK s, r : s = t[c].children /\ r = u[c].children
  OBVIOUS
<1>4. IsSeq(s) /\ IsSeq(r) /\ Len(r) = Len(s) + 1 /\ r[Len(s) + 1] = Len(t) + K
  <2>1. Len(u[c].children) = Len(t[c].children) + 1 /\ u[c].children[Len(t[c].children) + 1] = Len(t) + K
    BY <1>2, GrownKids
  <2>2. IsSeq(t[c].children) /\ IsSeq(u[c].children)
    BY <1>1, <1>2 DEF Tree, Fielded
  <2> QED
    BY <1>3, <2>1, <2>2
<1>5. u[c].kind = t[c].kind
  BY <1>2 DEF Grown, Adopts
<1>6. ASSUME is_complete(u, c), u[c].kind = "method" PROVE Len(r) >= 2
  <2>1. Len(s) \in Nat
    BY <1>4, SeqIs
  <2>2. CASE s /= <<>>
    BY <1>4, <2>1, <2>2, NotEmpty
  <2>3. CASE s = <<>>
    <3>1. K = 1 /\ u[Len(t) + 1].kind /= "block"
      BY <1>3, <1>5, <1>6, <2>3
    <3>2. Len(s) = 0 /\ Len(r) = 1
      BY <1>4, <2>3, Empties
    <3>3. Last(r) = Len(t) + 1
      BY <1>4, <3>1, <3>2 DEF Last
    <3>4. u[c].capacity = 3
      BY <1>1, <1>2, <1>6 DEF Tree
    <3>5. u[Last(r)].kind = "block" \/ Len(r) >= 3
      BY <1>3, <1>6, <3>4 DEF is_complete
    <3> QED
      BY <3>1, <3>2, <3>3, <3>5
  <2> QED
    BY <2>2, <2>3
<1>7. CASE is_complete(u, c)
  <2>1. \A i \in 1..Len(u[c].children) : u[c].children[i] \in 1..Len(u)
    BY <1>1, <1>2 DEF Tree
  <2>2. Fielded(u)
    BY <1>1 DEF Tree
  <2>3. Kept(u, on_complete(u, c))
    BY <1>2, <1>3, <1>6, <1>7, <2>1, <2>2, Completes
  <2>4. PICK v : v = on_complete(u, c) /\ Kept(u, v)
    BY <2>3
  <2>5. Tree(v) /\ OnEdge(v, c) /\ OnEdge(v, Len(t) + 1)
    BY <1>1, <2>4, KeptTree, KeptEdge
  <2> QED
    BY <1>7, <2>4, <2>5 DEF Finishes
<1>8. CASE ~is_complete(u, c)
  BY <1>1, <1>8 DEF Finishes
<1> QED
  BY <1>7, <1>8

-----------------------------------------------------------------------------
(* The steps. *)

Edge(t, c) == Tree(t) /\ OnEdge(t, c)

\* What Add makes of the tree.
Added(t, c, kind, raw, attr) ==
  LET m == Unborn(kind, raw, attr)
  IN  IF Wraps(t, c, kind) THEN Finishes(Wrapped(t, c, m), c) ELSE Finishes(Single(t, c, m), c)

LEMMA AddedKeeps ==
  ASSUME NEW t, NEW c, Edge(t, c), NEW kind, NEW raw, NEW attr,
         t[c].kind = "method" /\ t[c].children = <<>> => kind /= "block"
  PROVE  Edge(Added(t, c, kind, raw, attr), c) /\ Edge(Added(t, c, kind, raw, attr), Len(t) + 1)
<1>1. PICK m : m = Unborn(kind, raw, attr)
  OBVIOUS
<1>2. Tree(t) /\ OnEdge(t, c) /\ c \in 1..Len(t)
  BY EdgeIs DEF Edge
<1>3. CASE Wraps(t, c, kind)
  <2>1. PICK u : u = Wrapped(t, c, m) /\ Added(t, c, kind, raw, attr) = Finishes(u, c)
    BY <1>1, <1>3, Zenon DEF Added
  <2>2. Grown(t, u, c, 2)
    BY <1>1, <1>2, <2>1, WrappedGrows
  <2>3. ~(t[c].kind = "method" /\ t[c].children = <<>>)
    <3>1. t[c].kind = "method" => t[c].nth_block_or_single /= 0
      BY <1>2 DEF Tree
    <3>2. Len(t[c].children) = t[c].nth_block_or_single
      BY <1>3 DEF Wraps
    <3> QED
      BY <3>1, <3>2, Empties
  <2>4. Tree(Finishes(u, c)) /\ OnEdge(Finishes(u, c), c) /\ OnEdge(Finishes(u, c), Len(t) + 1)
    BY <1>2, <2>2, <2>3, Finished
  <2> QED
    BY <2>1, <2>4 DEF Edge
<1>4. CASE ~Wraps(t, c, kind)
  <2>1. PICK u : u = Single(t, c, m) /\ Added(t, c, kind, raw, attr) = Finishes(u, c)
    BY <1>1, <1>4, Zenon DEF Added
  <2>2. Grown(t, u, c, 1) /\ u[Len(t) + 1].kind = kind
    <3>1. Grown(t, Single(t, c, m), c, 1) /\ Single(t, c, m)[Len(t) + 1].kind = kind
      BY <1>1, <1>2, SingleGrows
    <3> QED
      BY <2>1, <3>1, Zenon
  <2>3. Tree(Finishes(u, c)) /\ OnEdge(Finishes(u, c), c) /\ OnEdge(Finishes(u, c), Len(t) + 1)
    BY <1>2, <2>2, Finished
  <2> QED
    BY <2>1, <2>3 DEF Edge
<1> QED
  BY <1>3, <1>4

LEMMA NearestEdge ==
  ASSUME NEW t, NEW c, Edge(t, c) PROVE Edge(t, nearest_incomplete_node(t, c))
BY Nearest DEF Edge

LEMMA AfterEdge == ASSUME NEW t, NEW c, Edge(t, c) PROVE Edge(t, After(t, c))
BY NearestEdge DEF After

LEMMA Goes == ASSUME Edge(nodes, current) PROVE Edge(nodes, Settled) /\ Edge(nodes, Into)
<1>1. Edge(nodes, Settled)
  BY NearestEdge DEF Settled
<1>2. PICK c : c = Settled /\ Edge(nodes, c)
  BY <1>1
<1>3. Edge(nodes, nearest_incomplete_node(nodes, c))
  BY <1>2, NearestEdge
<1>4. Into = nearest_incomplete_node(nodes, c) \/ Into = c
  BY <1>2 DEF Into
<1> QED
  BY <1>1, <1>2, <1>3, <1>4

\* A method that has no child yet gets no block.
NoBlock(kind) == nodes[Into].kind = "method" /\ nodes[Into].children = <<>> => kind /= "block"

LEMMA AddKeeps ==
  ASSUME Edge(nodes, current), NEW kind, NEW raw, NEW stays, NoBlock(kind), Add(kind, raw, stays)
  PROVE  Edge(nodes, current)'
<1>1. PICK static : static = (kind = "method" /\ cursor > 1 /\ result[cursor - 1].type = "st_static")
  OBVIOUS
<1>2. PICK m : m = Unborn(kind, raw, static)
  OBVIOUS
<1>3. /\ nodes' = Added(nodes, Into, kind, raw, static)
      /\ current' = IF stays THEN Len(nodes) + 1 ELSE After(nodes', Into)
  <2>1. Finishes(Wrapped(nodes, Into, m), Into) =
          Attach(Append([Append(nodes, m) EXCEPT ![Len(nodes) + 1].parent = Len(nodes) + 1 + 1],
                        [NewNode("block", "") EXCEPT !.children = <<Len(nodes) + 1>>, !.capacity = 2]),
                 Into, Len(nodes) + 1 + 1)
    BY DEF Finishes, Wrapped, Adopting, Attach
  <2>2. Finishes(Single(nodes, Into, m), Into) = Attach(Append(nodes, m), Into, Len(nodes) + 1)
    BY DEF Finishes, Single, Adopting, Attach
  <2>3. Added(nodes, Into, kind, raw, static) =
          IF Wraps(nodes, Into, kind) THEN Finishes(Wrapped(nodes, Into, m), Into)
          ELSE Finishes(Single(nodes, Into, m), Into)
    BY <1>2, Zenon DEF Added
  <2> QED
    BY <1>1, <1>2, <2>1, <2>2, <2>3, Zenon DEF Add, Unborn
<1>4. PICK t, c : t = nodes /\ c = Into /\ Edge(t, c)
  BY Goes
<1>5. t[c].kind = "method" /\ t[c].children = <<>> => kind /= "block"
  BY <1>4 DEF NoBlock
<1>6. PICK u : u = Added(t, c, kind, raw, static)
  OBVIOUS
<1>7. Edge(u, c) /\ Edge(u, Len(t) + 1)
  BY <1>4, <1>5, <1>6, AddedKeeps
<1>8. Edge(u, After(u, c))
  BY <1>7, AfterEdge
<1>9. nodes' = u /\ current' = IF stays THEN Len(t) + 1 ELSE After(u, c)
  BY <1>3, <1>4, <1>6
<1> QED
  BY <1>7, <1>8, <1>9 DEF Edge

\* stage = "build" begins with the tree of the root alone.
Early == {"lex", "index", "call", "at", "sexp", "sexped"}
Growing ==
  /\ stage \in Early => nodes = <<NewNode("root", "")>> /\ current = 1
  /\ stage = "build" => Edge(nodes, current)

Elsewhere == (stage' \in Early => stage \in Early /\ UNCHANGED treeVars) /\ stage' /= "build"

LEMMA ElsewhereKeeps == ASSUME Growing, Elsewhere PROVE Growing'
BY DEF Growing, Elsewhere, treeVars

LEMMA StartKeeps == ASSUME Growing, StartBuild PROVE Growing'
<1>1. stage \in Early /\ (stage' = "build" \/ stage' = "rejected") /\ nodes' = nodes /\ current' = current
  BY DEF StartBuild, Early, treeVars
<1>2. nodes = <<NewNode("root", "")>> /\ current = 1
  BY <1>1 DEF Growing
<1>3. Edge(nodes, current)
  BY <1>2, Starts, Zenon DEF Edge
<1>4. stage' \notin Early
  BY <1>1 DEF Early
<1>5. Edge(nodes, current)'
  BY <1>1, <1>3
<1> QED
  BY <1>4, <1>5 DEF Growing

\* A step of the builder that appends: the method it may append to has its name.
LEMMA GrowingAdds ==
  ASSUME Growing, stage = "build", NEW kind, NEW raw, NEW stays, NoBlock(kind), Add(kind, raw, stays)
  PROVE  Growing'
<1>1. stage' = "build" /\ stage' \notin Early
  BY DEF Add, Took, Early
<1>2. Edge(nodes, current)'
  BY AddKeeps DEF Growing
<1> QED
  BY <1>1, <1>2 DEF Growing

\* One that does not.
LEMMA GrowingMoves ==
  ASSUME Growing, stage = "build", Took, nodes' = nodes, Edge(nodes, current')
  PROVE  Growing'
<1>1. stage' = "build" /\ stage' \notin Early
  BY DEF Took, Early
<1> QED
  BY <1>1 DEF Growing

LEMMA BlockOpens == ASSUME NEW o \in Openings, o[2] = "block" PROVE o[1] = "st_begin_block"
BY SMTT(60) DEF Openings

LEMMA Puts == ASSUME NEW newstack, NEW emitted, Put(newstack, emitted) PROVE stage' = stage
BY DEF Put

LEMMA Handles == ASSUME NEW kept, NEW pushed, NEW emitted, Handle(kept, pushed, emitted) PROVE stage' = stage
BY DEF Handle, Put

LEMMA Builds == ASSUME Growing, MethodsNamed, BuilderNext PROVE Growing'
<1>1. CASE StartBuild
  BY <1>1, StartKeeps
<1>2. CASE Built
  BY <1>2, ElsewhereKeeps DEF Built, Elsewhere, Early
<1>3. CASE TakeEnd \/ TakeEndBlock \/ TakeEndInherit \/ TakeStatic
  <2>1. stage = "build" /\ Took /\ nodes' = nodes
    BY <1>3 DEF TakeEnd, TakeEndBlock, TakeEndInherit, TakeStatic, Taking
  <2>2. PICK t, c : t = nodes /\ c = Settled /\ Edge(t, c) /\ Edge(t, Into)
    BY <2>1, Goes DEF Growing
  <2>3. Edge(t, nearest_incomplete_node(t, c))
    BY <2>2, NearestEdge
  <2>4. ASSUME t[c].kind = "inherit" PROVE Edge(t, t[c].parent)
    <3>1. c /= 1
      BY <2>2, <2>4 DEF Edge, Tree, IsRoot
    <3> QED
      BY <2>2, <3>1, EdgeParent DEF Edge
  <2>5. \/ current' = nearest_incomplete_node(t, c) \/ current' = Into \/ current' = c
        \/ t[c].kind = "inherit" /\ current' = t[c].parent
    BY <1>3, <2>2 DEF TakeEnd, TakeEndBlock, TakeEndInherit, TakeStatic
  <2>6. Edge(nodes, current')
    BY <2>2, <2>3, <2>4, <2>5
  <2> QED
    BY <2>1, <2>6, GrowingMoves
<1>4. CASE TakeIn
  <2>1. stage = "build" /\ Took /\ current' = Settled
    BY <1>4 DEF TakeIn
  <2>2. PICK t, c : t = nodes /\ c = Settled /\ Edge(t, c)
    BY <2>1, Goes DEF Growing
  <2>3. PICK x : x = Len(t[c].children) + 1
    OBVIOUS
  <2>4. PICK m, u : m = [t[c] EXCEPT !.nth_block_or_single = x] /\ u = With(t, c, m)
    OBVIOUS
  <2>5. nodes' = u
    BY <1>4, <2>2, <2>3, <2>4, Zenon DEF TakeIn, With
  <2>6. Fielded(t) /\ c \in 1..Len(t)
    BY <2>2, EdgeIs DEF Edge, Tree
  <2>7. DOMAIN t[c] = Fields /\ IsSeq(t[c].locals) /\ IsSeq(t[c].children)
    BY <2>6 DEF Fielded
  <2>8. x /= 0
    <3>1. PICK s : s = t[c].children /\ IsSeq(s)
      BY <2>7
    <3> QED
      BY <2>3, <3>1, SeqIs
  <2>9. Alike(m, t[c])
    BY <2>4, <2>7, <2>8 DEF Alike, Fields
  <2>10. Kept(t, u)
    BY <2>4, <2>6, <2>9, KeptNode
  <2>11. Edge(u, c)
    BY <2>2, <2>10, KeptTree, KeptEdge DEF Edge
  <2>12. stage' = "build" /\ stage' \notin Early /\ current' = c
    BY <2>1, <2>2 DEF Took, Early
  <2> QED
    BY <2>5, <2>11, <2>12 DEF Growing
<1>5. CASE TakeSeparator
  <2>1. stage = "build" /\ St.type \in {"endl", "comma"}
    BY <1>5 DEF TakeSeparator, Taking
  <2>2. CASE Add(St.type, "", FALSE)
    <3>1. PICK kind, raw, stays : kind = St.type /\ raw = "" /\ stays = FALSE
      OBVIOUS
    <3>2. Add(kind, raw, stays)
      BY <2>2, <3>1
    <3>3. NoBlock(kind)
      BY <2>1, <3>1 DEF NoBlock
    <3> QED
      BY <2>1, <3>2, <3>3, GrowingAdds
  <2>3. CASE current' = Into /\ UNCHANGED nodes /\ Took
    <3>1. Edge(nodes, current')
      BY <2>1, <2>3, Goes DEF Growing
    <3> QED
      BY <2>1, <2>3, <3>1, GrowingMoves
  <2> QED
    BY <1>5, <2>2, <2>3 DEF TakeSeparator
<1>6. CASE TakeOperand
  <2>1. PICK o \in Operands : Taking({o[1]}) /\ Add(o[2], St.raw, FALSE)
    BY <1>6 DEF TakeOperand
  <2>2. PICK kind, raw, stays : kind = o[2] /\ raw = St.raw /\ stays = FALSE
    OBVIOUS
  <2>3. Add(kind, raw, stays) /\ stage = "build"
    BY <2>1, <2>2 DEF Taking
  <2>4. NoBlock(kind)
    BY <2>2 DEF NoBlock, Operands
  <2> QED
    BY <2>3, <2>4, GrowingAdds
<1>7. CASE TakeOpening
  <2>1. PICK o \in Openings : Taking({o[1]}) /\ Add(o[2], "", TRUE)
    BY <1>7 DEF TakeOpening
  <2>2. PICK kind, raw, stays : kind = o[2] /\ raw = "" /\ stays = TRUE
    OBVIOUS
  <2>3. Add(kind, raw, stays) /\ stage = "build"
    BY <2>1, <2>2 DEF Taking
  <2>4. NoBlock(kind)
    <3>1. kind = "block" => o[1] = "st_begin_block"
      BY <2>1, <2>2, BlockOpens
    <3>2. cursor <= Len(result) /\ St.type = o[1]
      BY <2>1 DEF Taking
    <3> QED
      BY <2>3, <3>1, <3>2 DEF NoBlock, MethodsNamed
  <2> QED
    BY <2>3, <2>4, GrowingAdds
<1>8. CASE TakeOp
  <2>1. PICK kind, raw, stays :
          /\ kind = CASE St.raw = "=" -> "assignment"
                      [] St.raw \in {"++", "--"} -> "standalone_op"
                      [] OTHER -> "op"
          /\ raw = St.raw /\ stays = TRUE
    OBVIOUS
  <2>2. Add(kind, raw, stays) /\ stage = "build"
    BY <1>8, <2>1 DEF TakeOp, Taking
  <2>3. NoBlock(kind)
    BY <2>1 DEF NoBlock
  <2> QED
    BY <2>2, <2>3, GrowingAdds
<1> QED
  BY <1>1, <1>2, <1>3, <1>4, <1>5, <1>6, <1>7, <1>8 DEF BuilderNext

LEMMA Steps == ASSUME Growing, MethodsNamed, [Next]_vars PROVE Growing'
<1>1. CASE LexNext /\ UNCHANGED treeVars
  <2>1. Elsewhere
    BY <1>1 DEF LexNext, Gather, Comment, Match, Lexed, Lexing, Elsewhere, Early
  <2> QED
    BY <2>1, ElsewhereKeeps
<1>2. CASE SexperNext /\ UNCHANGED treeVars
  <2>1. CASE MoveIndexed \/ MoveCalled \/ Turn \/ Sexped
    <3>1. stage \in Early /\ stage' /= "build"
      BY <2>1 DEF MoveIndexed, MoveCalled, Turn, Sexped, Early
    <3> QED
      BY <1>2, <3>1, ElsewhereKeeps DEF Elsewhere
  <2>2. CASE sexp_root \/ sexp_class \/ sexp_methodbody
    <3>1. stage = "sexp"
      BY <2>2 DEF sexp_root, sexp_class, sexp_methodbody, Reading
    <3>2. ASSUME sexp_root PROVE stage' = stage
      BY <3>2 DEF sexp_root, Handle, Put
    <3>3. ASSUME sexp_class PROVE stage' = stage
      BY <3>3 DEF sexp_class, Handle, Put
    <3>4. ASSUME sexp_methodbody PROVE stage' = stage
      BY <3>4, Handles, Puts, SMTT(60) DEF sexp_methodbody
    <3>5. stage \in Early /\ stage' /= "build"
      BY <2>2, <3>1, <3>2, <3>3, <3>4 DEF Early
    <3> QED
      BY <1>2, <3>5, ElsewhereKeeps DEF Elsewhere
  <2> QED
    BY <1>2, <2>1, <2>2 DEF SexperNext
<1>3. CASE BuilderNext
  BY <1>3, Builds
<1>4. CASE TransNext
  <2>1. stage' \notin Early /\ stage' /= "build"
    BY <1>4 DEF TransNext, Validate, VisitVirtual, Visit, Trap, Leave, NextPass, Early
  <2> QED
    BY <2>1, ElsewhereKeeps DEF Elsewhere
<1>5. CASE Generate
  <2>1. stage' \notin Early /\ stage' /= "build"
    BY <1>5 DEF Generate, generate, Early
  <2> QED
    BY <2>1, ElsewhereKeeps DEF Elsewhere
<1>6. CASE UNCHANGED <<sharedVars, treeVars>>
  BY <1>6 DEF Growing, sharedVars, treeVars
<1> QED
  BY <1>1, <1>2, <1>3, <1>4, <1>5, <1>6 DEF Next, Stopped, vars

LEMMA Begins == ASSUME Init PROVE Growing
BY DEF Init, LexInit, TreeInit, Growing, Early, Root

-----------------------------------------------------------------------------
(* The theorem. *)

\* m is on the way from n to its last child, from there to its last child, and so on.
Down(t, n, m) ==
  \E k \in Nat : \E c \in [1..k -> 1..Len(t)] :
    /\ 1 \in 1..k /\ k \in 1..k /\ c[1] = n /\ c[k] = m
    /\ \A i \in 1..k - 1 : LastChild(t, c[i], c[i + 1])

LEMMA DownSelf == ASSUME NEW t, NEW n \in 1..Len(t) PROVE Down(t, n, n)
<1>1. PICK c : c = [i \in 1..1 |-> n]
  OBVIOUS
<1>2. c \in [1..1 -> 1..Len(t)] /\ c[1] = n /\ 1 \in 1..1 /\ 1 \in Nat /\ \A i \in 1..1 - 1 : FALSE
  BY <1>1
<1> QED
  BY <1>2 DEF Down

LEMMA DownOnce ==
  ASSUME NEW t, NEW n \in 1..Len(t), NEW h, LastChild(t, n, h), NEW m, Down(t, h, m)
  PROVE  Down(t, n, m)
<1>1. PICK k \in Nat : \E c \in [1..k -> 1..Len(t)] :
        /\ 1 \in 1..k /\ k \in 1..k /\ c[1] = h /\ c[k] = m
        /\ \A i \in 1..k - 1 : LastChild(t, c[i], c[i + 1])
  BY DEF Down
<1>2. PICK c \in [1..k -> 1..Len(t)] :
        /\ 1 \in 1..k /\ k \in 1..k /\ c[1] = h /\ c[k] = m
        /\ \A i \in 1..k - 1 : LastChild(t, c[i], c[i + 1])
  BY <1>1
<1>3. PICK j \in Nat : j = k + 1
  OBVIOUS
<1>4. PICK d : d = [i \in 1..j |-> IF i = 1 THEN n ELSE c[i - 1]]
  OBVIOUS
<1>5. /\ \A i \in 1..j : i /= 1 => i - 1 \in 1..k
      /\ 1 \in 1..j /\ j \in 1..j /\ j /= 1 /\ j - 1 = k
  BY <1>2, <1>3
<1>6. d \in [1..j -> 1..Len(t)] /\ \A i \in 1..j : d[i] = IF i = 1 THEN n ELSE c[i - 1]
  BY <1>2, <1>4, <1>5
<1>7. d[1] = n /\ d[j] = m
  BY <1>2, <1>5, <1>6
<1>8. ASSUME NEW i \in 1..j - 1 PROVE LastChild(t, d[i], d[i + 1])
  <2>1. i \in 1..j /\ i + 1 \in 1..j /\ i + 1 /= 1 /\ i + 1 - 1 = i
    BY <1>3
  <2>2. d[i + 1] = c[i]
    BY <1>6, <2>1
  <2>3. CASE i = 1
    BY <1>2, <1>7, <2>2, <2>3
  <2>4. CASE i /= 1
    <3>1. i - 1 \in 1..k - 1 /\ i - 1 + 1 = i
      BY <1>3, <2>4
    <3>2. d[i] = c[i - 1] /\ LastChild(t, c[i - 1], c[i])
      BY <1>2, <1>6, <2>1, <2>4, <3>1
    <3> QED
      BY <2>2, <3>2
  <2> QED
    BY <2>3, <2>4
<1> QED
  BY <1>5, <1>6, <1>7, <1>8 DEF Down

LEMMA DownFirst ==
  ASSUME NEW t, NEW n, NEW m, Down(t, n, m), m /= n
  PROVE  t[n].children /= <<>> /\ Down(t, Last(t[n].children), m)
<1>1. PICK k \in Nat : \E c \in [1..k -> 1..Len(t)] :
        /\ 1 \in 1..k /\ k \in 1..k /\ c[1] = n /\ c[k] = m
        /\ \A i \in 1..k - 1 : LastChild(t, c[i], c[i + 1])
  BY DEF Down
<1>2. PICK c \in [1..k -> 1..Len(t)] :
        /\ 1 \in 1..k /\ k \in 1..k /\ c[1] = n /\ c[k] = m
        /\ \A i \in 1..k - 1 : LastChild(t, c[i], c[i + 1])
  BY <1>1
<1>3. k /= 1
  BY <1>2
<1>4. PICK j \in Nat : j = k - 1 /\ j >= 1
  BY <1>2, <1>3
<1>5. PICK d : d = [i \in 1..j |-> c[i + 1]]
  OBVIOUS
<1>6. /\ d \in [1..j -> 1..Len(t)] /\ 1 \in 1..j /\ j \in 1..j /\ d[j] = m /\ d[1] = c[2]
      /\ \A i \in 1..j : d[i] = c[i + 1]
  BY <1>2, <1>4, <1>5
<1>7. LastChild(t, n, d[1])
  <2>1. 1 \in 1..k - 1 /\ 1 + 1 = 2
    BY <1>2, <1>3
  <2>2. LastChild(t, c[1], c[1 + 1])
    BY <1>2, <2>1
  <2> QED
    BY <1>2, <1>6, <2>1, <2>2
<1>8. ASSUME NEW i \in 1..j - 1 PROVE LastChild(t, d[i], d[i + 1])
  <2>1. i \in 1..j /\ i + 1 \in 1..j /\ i + 1 \in 1..k - 1
    BY <1>4
  <2>2. d[i] = c[i + 1] /\ d[i + 1] = c[i + 1 + 1]
    BY <1>6, <2>1
  <2> QED
    BY <1>2, <2>1, <2>2
<1>9. Down(t, d[1], m)
  BY <1>6, <1>8 DEF Down
<1> QED
  BY <1>7, <1>9 DEF LastChild

\* The recursion of RightEdge defines a function.
LEMMA Edges ==
  ASSUME NEW t, Tree(t)
  PROVE  \E edge : edge = [n \in 1..Len(t) |->
           {n} \union IF Kids(t, n) = <<>> THEN {} ELSE edge[Last(Kids(t, n))]]
<1> DEFINE Under(n) == {m \in 1..Len(t) : Down(t, n, m)}
           f == [n \in 1..Len(t) |-> Under(n)]
<1>1. ASSUME NEW n \in 1..Len(t)
      PROVE  f[n] = {n} \union IF Kids(t, n) = <<>> THEN {} ELSE f[Last(Kids(t, n))]
  <2>1. f[n] = Under(n) /\ Kids(t, n) = t[n].children
    BY DEF Kids
  <2>2. Down(t, n, n)
    BY DownSelf
  <2>3. CASE t[n].children = <<>>
    <3>1. \A m : Down(t, n, m) => m = n
      BY <2>3, DownFirst
    <3>2. Under(n) = {n}
      BY <2>2, <3>1
    <3> HIDE DEF f, Under
    <3> QED
      BY <2>1, <2>3, <3>2
  <2>4. CASE t[n].children /= <<>>
    <3>1. PICK h : h = Last(t[n].children) /\ LastChild(t, n, h)
      BY <2>4 DEF LastChild
    <3>2. h \in 1..Len(t)
      BY <3>1, LastIs
    <3>3. f[h] = Under(h)
      BY <3>2
    <3>4. \A m : Down(t, h, m) => Down(t, n, m)
      BY <3>1, DownOnce
    <3>5. \A m : Down(t, n, m) => m = n \/ Down(t, h, m)
      BY <3>1, DownFirst
    <3>6. Under(n) = {n} \union Under(h)
      BY <2>2, <3>4, <3>5
    <3> HIDE DEF f, Under
    <3> QED
      BY <2>1, <2>4, <3>1, <3>3, <3>6
  <2> QED
    BY <2>3, <2>4
<1>2. f = [n \in 1..Len(t) |-> f[n]]
  OBVIOUS
<1> HIDE DEF f
<1>3. f = [n \in 1..Len(t) |-> {n} \union IF Kids(t, n) = <<>> THEN {} ELSE f[Last(Kids(t, n))]]
  BY <1>1, <1>2
<1> QED
  BY <1>3

LEMMA EdgeIsRight ==
  ASSUME NEW t, NEW c, Edge(t, c), NEW edge,
         \A n \in 1..Len(t) :
           edge[n] = {n} \union IF Kids(t, n) = <<>> THEN {} ELSE edge[Last(Kids(t, n))]
  PROVE  c \in edge[1]
<1>1. PICK p, m : Path(t, p, m, c)
  BY DEF Edge, OnEdge
<1>2. /\ m \in Nat /\ 1 \in 1..m /\ m \in 1..m /\ p \in [1..m -> 1..Len(t)] /\ p[1] = 1 /\ p[m] = c
      /\ \A i \in 1..m - 1 : LastChild(t, p[i], p[i + 1])
  BY <1>1 DEF Path
<1> DEFINE S == {i \in 0..m - 1 : c \in edge[p[m - i]]}
<1>3. 0 \in S
  <2>1. c \in 1..Len(t) /\ p[m - 0] = c /\ 0 \in 0..m - 1
    BY <1>2
  <2>2. c \in edge[c]
    BY <2>1
  <2> QED
    BY <2>1, <2>2
<1>4. ASSUME NEW i \in 0..m - 1 - 1, i \in S PROVE i + 1 \in S
  <2>1. i + 1 \in 0..m - 1 /\ m - (i + 1) \in 1..m - 1 /\ m - (i + 1) \in 1..m /\ m - (i + 1) + 1 = m - i
    BY <1>2
  <2>2. PICK n, h : n = p[m - (i + 1)] /\ h = p[m - i]
    OBVIOUS
  <2>3. n \in 1..Len(t) /\ LastChild(t, n, h)
    BY <1>2, <2>1, <2>2
  <2>4. Kids(t, n) /= <<>> /\ Last(Kids(t, n)) = h
    BY <2>3 DEF LastChild, Kids
  <2>5. edge[n] = {n} \union edge[h]
    BY <2>3, <2>4
  <2>6. c \in edge[h]
    BY <1>4, <2>2
  <2> QED
    BY <2>1, <2>2, <2>5, <2>6
<1>5. m - 1 \in S
  <2>1. m - 1 \in Nat /\ m - 1 \in 0..m - 1
    BY <1>2
  <2> HIDE DEF S
  <2>2. \A i \in 0..m - 1 : i \in S
    BY <1>3, <1>4, <2>1, Induction
  <2> QED
    BY <2>1, <2>2
<1>6. m - (m - 1) = 1
  BY <1>2
<1> QED
  BY <1>2, <1>5, <1>6

LEMMA GrowsRight == ASSUME Growing PROVE RightEdge
<1> SUFFICES ASSUME stage = "build" PROVE RightEdge
  BY DEF RightEdge
<1>1. PICK t, c : t = nodes /\ c = current /\ Edge(t, c)
  BY DEF Growing
<1>2. Tree(t)
  BY <1>1 DEF Edge
<1>3. DOMAIN t = 1..Len(t)
  BY <1>2, SeqIs DEF Tree, Fielded
<1> DEFINE IsEdge(g) == g = [n \in DOMAIN t |->
             {n} \union IF Kids(t, n) = <<>> THEN {} ELSE g[Last(Kids(t, n))]]
<1>4. PICK edge : edge = (CHOOSE g : IsEdge(g)) /\ IsEdge(edge)
  <2>1. \E g : IsEdge(g)
    BY <1>2, <1>3, Edges
  <2> HIDE DEF IsEdge
  <2> QED
    BY <2>1
<1>5. c \in edge[1]
  <2>1. \A n \in 1..Len(t) :
          edge[n] = {n} \union IF Kids(t, n) = <<>> THEN {} ELSE edge[Last(Kids(t, n))]
    BY <1>3, <1>4
  <2> QED
    BY <1>1, <2>1, EdgeIsRight
<1>6. \A n \in DOMAIN t \ {1} : Contains(Kids(t, t[n].parent), n)
  <2> SUFFICES ASSUME NEW n \in DOMAIN t, n /= 1 PROVE Contains(Kids(t, t[n].parent), n)
    OBVIOUS
  <2>1. Len(t) \in Nat
    BY <1>2, SeqIs DEF Tree, Fielded
  <2>2. n \in 2..Len(t)
    BY <1>3, <2>1
  <2> QED
    BY <1>2, <2>2 DEF Tree, Contains, Kids
<1>7. \A n \in DOMAIN t : \A i \in DOMAIN Kids(t, n) : t[Kids(t, n)[i]].parent = n
  <2> SUFFICES ASSUME NEW n \in DOMAIN t, NEW i \in DOMAIN t[n].children
               PROVE  t[t[n].children[i]].parent = n
    BY DEF Kids
  <2>1. IsSeq(t[n].children)
    BY <1>2, <1>3 DEF Tree, Fielded
  <2>2. i \in 1..Len(t[n].children)
    BY <2>1, SeqIs
  <2> QED
    BY <1>2, <1>3, <2>2 DEF Tree
<1> HIDE DEF IsEdge
<1> QED
  BY <1>1, <1>4, <1>5, <1>6, <1>7 DEF RightEdge, IsEdge, Root

\* Whatever the sources are, while the tree is built the node that takes what
\* follows is at its right edge, and every node is the child of just its parent
\* (syntax_node::append, nearest_incomplete_node and on_complete) - as long as no
\* method is completed before it has a name, which on_complete would look for
\* behind the end of its children.
THEOREM TreeGrowsRight == Spec /\ []MethodsNamed => []RightEdge
<1>1. Init => Growing
  BY Begins
<1>2. Growing /\ MethodsNamed /\ [Next]_vars => Growing'
  BY Steps
<1>3. Growing => RightEdge
  BY GrowsRight
<1> QED
  BY <1>1, <1>2, <1>3, PTL DEF Spec
===============================================================================
