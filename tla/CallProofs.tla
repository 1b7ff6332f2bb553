------------------------------ MODULE CallProofs ------------------------------
(* Proofs that calls on the shared stack keep the promise of CallSpec. *)
EXTENDS RunnerProofs

(***************************************************************************)
(* The operands of an activation are a slice of the stack.                 *)
(***************************************************************************)
Slice(b, from, to) == [j \in 1..Fills(to - from) |-> b[from + j - 1]]

LimitOf(cs, b, p, i) == IF i = Len(cs) THEN p ELSE BaseOf(cs, b, i + 1)
FramesOf(cs, b, bs, p) ==
    [i \in 1..Len(cs) |-> Slice(bs, BaseOf(cs, b, i), LimitOf(cs, b, p, i))]

Empties(n) == [i \in 1..n |-> Empty]

Heights_ == 0..StackSize
Stacks == [Slots -> Value]

LEMMA FunctionSeq ==
    ASSUME NEW T, NEW n \in Nat, NEW f \in [1..n -> T]
    PROVE  f \in Seq(T) /\ Len(f) = n
<1>1. f \in Seq(T)
    BY SeqDef
<1>2. DOMAIN f = 1..Len(f) /\ Len(f) \in Nat
    BY <1>1, LenProperties
<1>3. 1..n = 1..Len(f)
    BY <1>2
<1>4. n = Len(f)
  <2>1. \A x, y \in Nat : 1..x = 1..y => x = y
    <3> SUFFICES ASSUME NEW x \in Nat, NEW y \in Nat, 1..x = 1..y PROVE x = y
        OBVIOUS
    <3>1. CASE x < y
        BY <3>1
    <3>2. CASE y < x
        BY <3>2
    <3> QED BY <3>1, <3>2
  <2> QED BY <1>2, <1>3, <2>1
<1> QED BY <1>1, <1>4

LEMMA SliceType ==
    ASSUME NEW b \in Stacks, NEW from \in Heights_, NEW to \in Heights_
    PROVE  /\ Slice(b, from, to) \in Seq(Value) /\ Len(Slice(b, from, to)) = Fills(to - from)
           /\ Fills(to - from) \in Nat
           /\ \A j \in 1..Fills(to - from) : Slice(b, from, to)[j] = b[from + j - 1]
<1> DEFINE n == Fills(to - from)
<1>1. n \in Nat /\ (n > 0 => n = to - from)
    BY SlotFacts DEF Fills, Heights_
<1>2. ASSUME NEW j \in 1..n PROVE b[from + j - 1] \in Value
  <2>1. from + j - 1 \in Slots
      BY <1>1, SlotFacts DEF Heights_
  <2> QED BY <2>1 DEF Stacks
<1> HIDE DEF n
<1>3. [j \in 1..n |-> b[from + j - 1]] \in [1..n -> Value]
    BY <1>2
<1>4. Slice(b, from, to) = [j \in 1..n |-> b[from + j - 1]]
    BY DEF Slice, n
<1>5. Slice(b, from, to) \in [1..n -> Value]
    BY <1>3, <1>4
<1>6. Slice(b, from, to) \in Seq(Value) /\ Len(Slice(b, from, to)) = n
    BY <1>1, <1>5, FunctionSeq
<1> QED BY <1>1, <1>4, <1>6 DEF n

\* Stacks that agree on the slots of a slice have the same slice there.
LEMMA SliceSame ==
    ASSUME NEW b, NEW c, NEW from \in Heights_, NEW to \in Heights_,
           \A s \in from..(to - 1) : b[s] = c[s]
    PROVE  Slice(b, from, to) = Slice(c, from, to)
<1> DEFINE n == Fills(to - from)
<1>1. ASSUME NEW j \in 1..n PROVE b[from + j - 1] = c[from + j - 1]
  <2>1. from + j - 1 \in from..(to - 1)
      BY SlotFacts DEF Fills, Heights_
  <2> QED BY <2>1
<1> HIDE DEF n
<1>2. [j \in 1..n |-> b[from + j - 1]] = [j \in 1..n |-> c[from + j - 1]]
    BY <1>1
<1> QED BY <1>2 DEF Slice, n

\* Two sequences over the stack are equal when they are as long and agree everywhere.
LEMMA SliceOf ==
    ASSUME NEW b \in Stacks, NEW from \in Heights_, NEW to \in Heights_, from <= to,
           NEW s \in Seq(Value), Len(s) = to - from,
           \A j \in 1..(to - from) : s[j] = b[from + j - 1]
    PROVE  s = Slice(b, from, to)
<1>1. Fills(to - from) = to - from
    BY SlotFacts DEF Fills, Heights_
<1>2. \A j \in 1..Len(s) : s[j] = Slice(b, from, to)[j]
    BY <1>1, SliceType
<1>3. Slice(b, from, to) \in Seq(Value) /\ Len(Slice(b, from, to)) = Len(s)
    BY <1>1, SliceType
<1> QED BY <1>2, <1>3, SeqEqual

\* Parts of a slice.
LEMMA SliceSub ==
    ASSUME NEW b \in Stacks, NEW from \in Heights_, NEW to \in Heights_, NEW mid \in Heights_,
           from <= mid, mid <= to
    PROVE  /\ SubSeq(Slice(b, from, to), 1, mid - from) = Slice(b, from, mid)
           /\ SubSeq(Slice(b, from, to), mid - from + 1, to - from) = Slice(b, mid, to)
<1> DEFINE s == Slice(b, from, to)
<1>1. from \in Int /\ to \in Int /\ mid \in Int
    BY SlotFacts DEF Heights_
<1>2. /\ s \in Seq(Value) /\ Len(s) = to - from
      /\ \A j \in 1..(to - from) : s[j] = b[from + j - 1] /\ s[j] \in Value
  <2>1. Fills(to - from) = to - from
      BY <1>1 DEF Fills
  <2>2. s \in Seq(Value) /\ Len(s) = to - from
      BY <2>1, SliceType
  <2>3. \A j \in 1..(to - from) : s[j] = b[from + j - 1]
      BY <2>1, SliceType
  <2> QED BY <2>2, <2>3, ElementOfSeq
<1> HIDE DEF s
<1>3. SubSeq(s, 1, mid - from) = Slice(b, from, mid)
  <2> DEFINE m == mid - from
  <2>1. 1 \in Int /\ m \in Int /\ m >= 0
      BY <1>1
  <2>2. \A j \in 1..m : s[j] \in Value /\ s[j] = b[from + j - 1]
      BY <1>1, <1>2
  <2> HIDE DEF m
  <2>3. /\ SubSeq(s, 1, m) \in Seq(Value)
        /\ Len(SubSeq(s, 1, m)) = IF 1 <= m THEN m - 1 + 1 ELSE 0
        /\ \A i \in 1..(m - 1 + 1) : SubSeq(s, 1, m)[i] = s[1 + i - 1]
      BY <2>1, <2>2, SubSeqProperties
  <2>4. Len(SubSeq(s, 1, m)) = m
      BY <2>1, <2>3
  <2>5. \A i \in 1..m : SubSeq(s, 1, m)[i] = b[from + i - 1]
      BY <2>1, <2>2, <2>3
  <2> QED BY <2>3, <2>4, <2>5, SliceOf DEF m
<1>4. SubSeq(s, mid - from + 1, to - from) = Slice(b, mid, to)
  <2> DEFINE m == mid - from + 1
             n == to - from
  <2>1. m \in Int /\ n \in Int /\ n - m + 1 = to - mid /\ to - mid >= 0
      BY <1>1
  <2>2. \A j \in m..n : s[j] \in Value
      BY <1>1, <1>2
  <2> HIDE DEF m, n
  <2>3. /\ SubSeq(s, m, n) \in Seq(Value)
        /\ Len(SubSeq(s, m, n)) = IF m <= n THEN n - m + 1 ELSE 0
        /\ \A i \in 1..(n - m + 1) : SubSeq(s, m, n)[i] = s[m + i - 1]
      BY <2>1, <2>2, SubSeqProperties
  <2>4. Len(SubSeq(s, m, n)) = to - mid
    <3>1. CASE m <= n
        BY <2>1, <2>3, <3>1
    <3>2. CASE ~(m <= n)
        BY <1>1, <2>1, <2>3, <3>2
    <3> QED BY <3>1, <3>2
  <2>5. \A i \in 1..(to - mid) : SubSeq(s, m, n)[i] = b[mid + i - 1]
    <3> SUFFICES ASSUME NEW i \in 1..(to - mid) PROVE SubSeq(s, m, n)[i] = b[mid + i - 1]
        OBVIOUS
    <3>1. SubSeq(s, m, n)[i] = s[m + i - 1]
        BY <2>1, <2>3
    <3>2. m + i - 1 \in 1..(to - from) /\ from + (m + i - 1) - 1 = mid + i - 1
        BY <1>1 DEF m
    <3>3. s[m + i - 1] = b[from + (m + i - 1) - 1]
        BY <1>2, <3>2
    <3> QED BY <3>1, <3>2, <3>3
  <2> QED BY <2>3, <2>4, <2>5, SliceOf DEF m, n
<1> QED BY <1>3, <1>4 DEF s

\* One value more.
LEMMA SliceAppend ==
    ASSUME NEW b \in Stacks, NEW from \in Heights_, NEW to \in Heights_, from <= to, to < StackSize,
           NEW v \in Value, NEW c \in Stacks, c[to] = v, \A s \in from..(to - 1) : c[s] = b[s]
    PROVE  Append(Slice(b, from, to), v) = Slice(c, from, to + 1)
<1> DEFINE s == Slice(b, from, to)
<1>1. from \in Int /\ to \in Int /\ to + 1 \in Heights_ /\ from <= to + 1
    BY SlotFacts DEF Heights_
<1>2. /\ s \in Seq(Value) /\ Len(s) = to - from
      /\ \A j \in 1..(to - from) : s[j] = b[from + j - 1]
  <2>1. Fills(to - from) = to - from
      BY <1>1 DEF Fills
  <2> QED BY <2>1, SliceType
<1> HIDE DEF s
<1> DEFINE t == Append(s, v)
<1>3. /\ t \in Seq(Value) /\ Len(t) = Len(s) + 1
      /\ \A i \in 1..Len(s) : t[i] = s[i]
      /\ t[Len(s) + 1] = v
    BY <1>2, AppendProperties
<1> HIDE DEF t
<1>4. Len(t) = to + 1 - from
    BY <1>1, <1>2, <1>3
<1>5. ASSUME NEW j \in 1..(to + 1 - from) PROVE t[j] = c[from + j - 1]
  <2>1. CASE j = to + 1 - from
    <3>1. from + j - 1 = to /\ j = Len(s) + 1
        BY <1>1, <1>2, <2>1
    <3> QED BY <1>3, <3>1
  <2>2. CASE j # to + 1 - from
    <3>1. j \in 1..(to - from) /\ from + j - 1 \in from..(to - 1)
        BY <1>1, <2>2
    <3> QED BY <1>2, <1>3, <3>1
  <2> QED BY <2>1, <2>2
<1>6. t = Slice(c, from, to + 1)
    BY <1>1, <1>3, <1>4, <1>5, SliceOf
<1> QED BY <1>6 DEF t, s

\* Values that are Empty on top.
LEMMA SlicePad ==
    ASSUME NEW b \in Stacks, NEW c \in Stacks, NEW from \in Heights_, NEW mid \in Heights_,
           NEW to \in Heights_, from <= mid, mid <= to,
           \A s \in from..(mid - 1) : c[s] = b[s], \A s \in mid..(to - 1) : c[s] = Empty
    PROVE  Slice(c, from, to) = Slice(b, from, mid) \o Empties(to - mid)
<1> DEFINE s == Slice(b, from, mid)
           e == Empties(to - mid)
           t == s \o e
<1>1. from \in Int /\ to \in Int /\ mid \in Int /\ to - mid \in Nat
    BY SlotFacts DEF Heights_
<1>2. /\ s \in Seq(Value) /\ Len(s) = mid - from
      /\ \A j \in 1..(mid - from) : s[j] = b[from + j - 1]
  <2>1. Fills(mid - from) = mid - from
      BY <1>1 DEF Fills
  <2> QED BY <2>1, SliceType
<1>3. e \in Seq(Value) /\ Len(e) = to - mid
  <2>1. e \in [1..(to - mid) -> Value]
      BY SomeValues DEF Empties
  <2> QED BY <1>1, <2>1, FunctionSeq
<1>4. \A i \in 1..(to - mid) : e[i] = Empty
    BY DEF Empties
<1> HIDE DEF s, e
<1>5. /\ t \in Seq(Value) /\ Len(t) = Len(s) + Len(e)
      /\ \A i \in 1..(Len(s) + Len(e)) : t[i] = IF i <= Len(s) THEN s[i] ELSE e[i - Len(s)]
    BY <1>2, <1>3, ConcatProperties
<1> HIDE DEF t
<1>6. Len(t) = to - from /\ from <= to
    BY <1>1, <1>2, <1>3, <1>5
<1>7. ASSUME NEW j \in 1..(to - from) PROVE t[j] = c[from + j - 1]
  <2>1. t[j] = IF j <= Len(s) THEN s[j] ELSE e[j - Len(s)]
      BY <1>1, <1>2, <1>3, <1>5
  <2>2. CASE j <= mid - from
    <3>1. j \in 1..(mid - from) /\ from + j - 1 \in from..(mid - 1)
        BY <1>1, <2>2
    <3> QED BY <1>2, <2>1, <2>2, <3>1
  <2>3. CASE ~(j <= mid - from)
    <3>1. j - (mid - from) \in 1..(to - mid) /\ from + j - 1 \in mid..(to - 1)
        BY <1>1, <2>3
    <3>2. t[j] = e[j - (mid - from)]
        BY <1>2, <2>1, <2>3
    <3> QED BY <1>4, <3>1, <3>2
  <2> QED BY <2>2, <2>3
<1>8. t = Slice(c, from, to)
    BY <1>5, <1>6, <1>7, SliceOf
<1> QED BY <1>8 DEF t, s, e

--------------------------------------------------------------------------------
(***************************************************************************)
(* The activations of the interpreter.                                     *)
(***************************************************************************)
LEMMA FramesGive ==
    ASSUME NEW p \in Programs, NEW cs \in Seq(FrameOf(p)), NEW b \in Heights_,
           NEW bs \in Stacks, NEW top \in Heights_
    PROVE  /\ Len(cs) \in Nat /\ Len(FramesOf(cs, b, bs, top)) = Len(cs)
           /\ \A i \in 1..Len(cs) :
                /\ BaseOf(cs, b, i) \in Heights_ /\ LimitOf(cs, b, top, i) \in Heights_
                /\ FramesOf(cs, b, bs, top)[i] = Slice(bs, BaseOf(cs, b, i), LimitOf(cs, b, top, i))
                /\ FramesOf(cs, b, bs, top)[i] \in Seq(Value)
<1> DEFINE f == FramesOf(cs, b, bs, top)
<1>1. Len(cs) \in Nat
    BY LenProperties
<1>2. ASSUME NEW i \in 1..Len(cs) PROVE BaseOf(cs, b, i) \in Heights_
  <2>1. CASE i = Len(cs)
      BY <2>1 DEF BaseOf
  <2>2. CASE i # Len(cs)
    <3>1. i + 1 \in 1..Len(cs)
        BY <1>1, <2>2
    <3>2. cs[i + 1] \in FrameOf(p)
        BY <3>1, ElementOfSeq
    <3> QED BY <2>2, <3>2 DEF BaseOf, FrameOf, Heights_
  <2> QED BY <2>1, <2>2
<1>3. ASSUME NEW i \in 1..Len(cs) PROVE LimitOf(cs, b, top, i) \in Heights_
  <2>1. i # Len(cs) => i + 1 \in 1..Len(cs)
      BY <1>1
  <2> QED BY <1>2, <2>1 DEF LimitOf
<1>4. ASSUME NEW i \in 1..Len(cs)
      PROVE  Slice(bs, BaseOf(cs, b, i), LimitOf(cs, b, top, i)) \in Seq(Value)
    BY <1>2, <1>3, SliceType
<1>5. f \in [1..Len(cs) -> Seq(Value)]
    BY <1>4 DEF FramesOf
<1>6. Len(f) = Len(cs)
    BY <1>1, <1>5, FunctionSeq
<1>7. \A i \in 1..Len(cs) : f[i] = Slice(bs, BaseOf(cs, b, i), LimitOf(cs, b, top, i))
    BY DEF FramesOf
<1> QED BY <1>1, <1>2, <1>3, <1>5, <1>6, <1>7

LEMMA FramesNow ==
    /\ Frames = FramesOf(callstack, bp, buf, ptr)
    /\ Frames' = FramesOf(callstack', bp', buf', ptr')
<1>1. Frames = FramesOf(callstack, bp, buf, ptr)
    BY DEF Frames, FramesOf, Limit, Base, LimitOf, BaseOf, Slice
<1>2. Frames' = FramesOf(callstack', bp', buf', ptr')
    BY DEF Frames, FramesOf, Limit, Base, LimitOf, BaseOf, Slice
<1> QED BY <1>1, <1>2

LEMMA StackTypes ==
    ASSUME Types
    PROVE  /\ prog \in Programs /\ callstack \in Seq(FrameOf(prog)) /\ bp \in Heights_
           /\ buf \in Stacks /\ ptr \in Heights_
BY DEF Types, Running, StackType, Heights_, Stacks

LEMMA StackTypesNext ==
    ASSUME Types'
    PROVE  /\ prog' \in Programs /\ callstack' \in Seq(FrameOf(prog')) /\ bp' \in Heights_
           /\ buf' \in Stacks /\ ptr' \in Heights_
BY DEF Types, Running, StackType, Heights_, Stacks, FrameOf

LEMMA FramesHere ==
    ASSUME Types
    PROVE  /\ Len(callstack) \in Nat /\ Len(Frames) = Len(callstack)
           /\ \A i \in 1..Len(callstack) :
                /\ Frames[i] = Slice(buf, BaseOf(callstack, bp, i), LimitOf(callstack, bp, ptr, i))
                /\ Frames[i] \in Seq(Value) /\ BaseOf(callstack, bp, i) \in Heights_
<1>1. /\ Len(callstack) \in Nat /\ Len(FramesOf(callstack, bp, buf, ptr)) = Len(callstack)
      /\ \A i \in 1..Len(callstack) :
           /\ BaseOf(callstack, bp, i) \in Heights_ /\ LimitOf(callstack, bp, ptr, i) \in Heights_
           /\ FramesOf(callstack, bp, buf, ptr)[i]
                = Slice(buf, BaseOf(callstack, bp, i), LimitOf(callstack, bp, ptr, i))
           /\ FramesOf(callstack, bp, buf, ptr)[i] \in Seq(Value)
    BY StackTypes, FramesGive
<1> QED BY <1>1, FramesNow

LEMMA FramesThen ==
    ASSUME Types'
    PROVE  /\ Len(callstack') \in Nat /\ Len(Frames') = Len(callstack')
           /\ \A i \in 1..Len(callstack') :
                /\ Frames'[i]
                     = Slice(buf', BaseOf(callstack', bp', i), LimitOf(callstack', bp', ptr', i))
                /\ Frames'[i] \in Seq(Value) /\ BaseOf(callstack', bp', i) \in Heights_
<1> DEFINE cs == callstack'
           b == bp'
           bs == buf'
           top == ptr'
           p == prog'
<1>1. p \in Programs /\ cs \in Seq(FrameOf(p)) /\ b \in Heights_ /\ bs \in Stacks /\ top \in Heights_
    BY StackTypesNext
<1>2. Frames' = FramesOf(cs, b, bs, top)
    BY FramesNow
<1> HIDE DEF cs, b, bs, top, p
<1>3. /\ Len(cs) \in Nat /\ Len(FramesOf(cs, b, bs, top)) = Len(cs)
      /\ \A i \in 1..Len(cs) :
           /\ BaseOf(cs, b, i) \in Heights_ /\ LimitOf(cs, b, top, i) \in Heights_
           /\ FramesOf(cs, b, bs, top)[i] = Slice(bs, BaseOf(cs, b, i), LimitOf(cs, b, top, i))
           /\ FramesOf(cs, b, bs, top)[i] \in Seq(Value)
    BY <1>1, FramesGive
<1>4. /\ Len(cs) \in Nat /\ Len(Frames') = Len(cs)
      /\ \A i \in 1..Len(cs) :
           /\ Frames'[i] = Slice(bs, BaseOf(cs, b, i), LimitOf(cs, b, top, i))
           /\ Frames'[i] \in Seq(Value) /\ BaseOf(cs, b, i) \in Heights_
    BY <1>2, <1>3
<1> QED BY <1>4 DEF cs, b, bs, top, p

\* The activations below the n-th are the same after a step that keeps their frames and
\* their slots.
LEMMA OthersKept ==
    ASSUME Types, Types', Ordered(callstack, bp), NEW n \in 1..Len(callstack),
           n <= Len(callstack'),
           \A i \in 1..n : BaseOf(callstack', bp', i) = BaseOf(callstack, bp, i),
           \A s \in 0..(BaseOf(callstack, bp, n) - 1) : buf'[s] = buf[s]
    PROVE  \A i \in 1..(n - 1) : Frames'[i] = Frames[i]
<1> SUFFICES ASSUME NEW i \in 1..(n - 1) PROVE Frames'[i] = Frames[i]
    OBVIOUS
<1>1. Len(callstack) \in Nat /\ Len(callstack') \in Nat
    BY FramesHere, FramesThen
<1>2. i \in 1..n /\ i + 1 \in 1..n /\ i # Len(callstack) /\ i # Len(callstack')
      /\ i \in 1..Len(callstack) /\ i \in 1..Len(callstack') /\ i + 1 \in 1..Len(callstack)
    BY <1>1
<1> DEFINE from == BaseOf(callstack, bp, i)
           to == BaseOf(callstack, bp, i + 1)
           lim == BaseOf(callstack, bp, n)
<1>3. from \in Heights_ /\ to \in Heights_ /\ lim \in Heights_
    BY <1>2, FramesHere
<1>4. Frames[i] = Slice(buf, from, to)
    BY <1>2, FramesHere DEF LimitOf
<1>5. Frames'[i] = Slice(buf', from, to)
    BY <1>2, FramesThen DEF LimitOf
<1>6. to <= lim
    BY <1>2, <1>1 DEF Ordered
<1> HIDE DEF from, to, lim
<1>7. \A s \in from..(to - 1) : buf'[s] = buf[s]
  <2>1. \A s \in from..(to - 1) : s \in 0..(lim - 1)
      BY <1>3, <1>6, SlotFacts DEF Heights_
  <2> QED BY <2>1 DEF lim
<1>8. Slice(buf', from, to) = Slice(buf, from, to)
    BY <1>3, <1>7, SliceSame
<1> QED BY <1>4, <1>5, <1>8

\* The running method computes: it writes no slot under its own.
LEMMA WorkStep ==
    ASSUME Types, Types', Ordered(callstack, bp), callstack # <<>>,
           UNCHANGED <<prog, callstack, bp>>, \A s \in 0..(bp - 1) : buf'[s] = buf[s]
    PROVE  Calls!Work
<1> DEFINE k == Len(callstack)
<1>1. /\ k \in Nat \ {0} /\ Len(Frames) = k /\ Len(Frames') = k
      /\ \A i \in 1..k : Frames'[i] \in Seq(Value)
  <2>1. k \in Nat /\ k # 0
      BY StackTypes, EmptySeq, LenProperties
  <2> QED BY <2>1, FramesHere, FramesThen
<1>2. k \in 1..k /\ k > 0 /\ BaseOf(callstack, bp, k) = bp /\ k <= Len(callstack')
    BY <1>1 DEF BaseOf
<1>3. \A i \in 1..k : BaseOf(callstack', bp', i) = BaseOf(callstack, bp, i)
    OBVIOUS
<1>4. \A s \in 0..(BaseOf(callstack, bp, k) - 1) : buf'[s] = buf[s]
    BY <1>2
<1>5. k \in 1..Len(callstack) /\ prog' = prog
    BY <1>2
<1> HIDE DEF k
<1>6. \A i \in 1..(k - 1) : Frames'[i] = Frames[i]
    BY <1>2, <1>3, <1>4, <1>5, OthersKept
<1> QED BY <1>1, <1>2, <1>6 DEF Calls!Work, Calls!Depth, Calls!SameOthers

\* A call moves the n topmost of p values to the callee.
LEMMA CallWithStep ==
    ASSUME Types, Types', Ordered(callstack, bp), callstack # <<>>,
           NEW n \in Nat, NEW b \in Stacks, NEW p \in Heights_, bp <= p - n,
           NEW size \in Heights_, p <= size, \A s \in 0..(bp - 1) : b[s] = buf[s],
           \A s \in Slots : (s < p => buf'[s] = b[s]) /\ (s >= p /\ s < size => buf'[s] = Empty),
           ptr' = size, bp' = p - n, Len(callstack') = Len(callstack) + 1,
           \A i \in 1..Len(callstack) : callstack'[i] = callstack[i],
           callstack'[Len(callstack) + 1].bp = bp
    PROVE  Calls!CallWith(Slice(b, bp, p), n)
<1> DEFINE k == Len(callstack)
           base == p - n
           f == Slice(b, bp, p)
<1>1. k \in Nat \ {0} /\ Len(Frames) = k /\ Len(Frames') = k + 1
  <2>1. k \in Nat /\ k # 0
      BY StackTypes, EmptySeq, LenProperties
  <2> QED BY <2>1, FramesHere, FramesThen
<1>2. bp \in Heights_ /\ base \in Heights_ /\ bp <= base /\ base <= p
      /\ bp \in Int /\ base \in Int /\ p \in Int /\ size \in Int
    BY StackTypes, SlotFacts DEF Heights_
<1>3. \A i \in 1..k : BaseOf(callstack', bp', i) = BaseOf(callstack, bp, i)
  <2> SUFFICES ASSUME NEW i \in 1..k PROVE BaseOf(callstack', bp', i) = BaseOf(callstack, bp, i)
      OBVIOUS
  <2>1. BaseOf(callstack', bp', i) = callstack'[i + 1].bp
      BY <1>1 DEF BaseOf
  <2>2. CASE i = k
      BY <2>1, <2>2 DEF BaseOf
  <2>3. CASE i # k
    <3>1. i + 1 \in 1..k
        BY <1>1, <2>3
    <3> QED BY <2>1, <2>3, <3>1 DEF BaseOf
  <2> QED BY <2>2, <2>3
<1>4. /\ BaseOf(callstack, bp, k) = bp /\ BaseOf(callstack', bp', k + 1) = base
      /\ k \in 1..Len(callstack) /\ k <= Len(callstack')
    BY <1>1 DEF BaseOf
<1>6. \A s \in 0..(bp - 1) : buf'[s] = buf[s]
  <2>1. \A s \in 0..(bp - 1) : s \in Slots /\ s < p
      BY <1>2, SlotFacts DEF Heights_
  <2> QED BY <2>1
<1>7. /\ buf' \in Stacks
      /\ Frames'[k] = Slice(buf', bp, base) /\ Frames'[k + 1] = Slice(buf', base, size)
    BY <1>1, <1>3, <1>4, StackTypesNext, FramesThen DEF LimitOf
<1>8. \A i \in 1..(k - 1) : Frames'[i] = Frames[i]
  <2> HIDE DEF k
  <2>1. \A s \in 0..(BaseOf(callstack, bp, k) - 1) : buf'[s] = buf[s]
      BY <1>4, <1>6
  <2> QED BY <1>3, <1>4, <2>1, OthersKept
<1> DEFINE c == buf'
           from == bp
<1>9. /\ c \in Stacks
      /\ \A s \in from..(base - 1) : c[s] = b[s]
      /\ \A s \in base..(p - 1) : c[s] = b[s]
      /\ \A s \in p..(size - 1) : c[s] = Empty
  <2>1. \A s \in from..(base - 1) : s \in Slots /\ s < p
      BY <1>2, SlotFacts DEF Heights_
  <2>2. \A s \in base..(p - 1) : s \in Slots /\ s < p
      BY <1>2, SlotFacts DEF Heights_
  <2>3. \A s \in p..(size - 1) : s \in Slots /\ s >= p /\ s < size
      BY <1>2, SlotFacts DEF Heights_
  <2> QED BY <1>7, <2>1, <2>2, <2>3
<1>10. from \in Heights_ /\ base \in Heights_ /\ from <= base /\ base <= p
       /\ from \in Int /\ base \in Int /\ p \in Int /\ size \in Int /\ base = p - n
       /\ f = Slice(b, from, p)
    BY <1>2
<1> HIDE DEF k, base, c, from, f
<1>11. Slice(c, from, base) = Slice(b, from, base)
    BY <1>9, <1>10, SliceSame
<1>12. Slice(c, base, size) = Slice(b, base, p) \o Empties(size - p)
  <2>1. base \in Heights_ /\ p \in Heights_ /\ size \in Heights_ /\ base <= p /\ p <= size
      BY <1>10
  <2>2. b \in Stacks /\ c \in Stacks /\ (\A s \in base..(p - 1) : c[s] = b[s])
        /\ (\A s \in p..(size - 1) : c[s] = Empty)
      BY <1>9
  <2> QED BY ONLY <2>1, <2>2, SlicePad
<1>13. Len(f) = p - from
  <2>1. Fills(p - from) = p - from
      BY <1>10 DEF Fills
  <2> QED BY <1>10, <2>1, SliceType
<1>18. Len(f) - n = base - from
    BY <1>10, <1>13
<1>19. SubSeq(f, 1, base - from) = Slice(b, from, base)
       /\ SubSeq(f, base - from + 1, p - from) = Slice(b, base, p)
  <2>1. from \in Heights_ /\ base \in Heights_ /\ p \in Heights_ /\ from <= base /\ base <= p
      BY <1>10
  <2>2. /\ SubSeq(Slice(b, from, p), 1, base - from) = Slice(b, from, base)
        /\ SubSeq(Slice(b, from, p), base - from + 1, p - from) = Slice(b, base, p)
    <3>1. b \in Stacks
        OBVIOUS
    <3> QED BY ONLY <2>1, <3>1, SliceSub
  <2> QED BY <1>10, <2>2
<1>20. Len(Frames'[k + 1]) = size - base /\ size - p \in 0..(size - base)
  <2>1. Fills(size - base) = size - base
      BY <1>10 DEF Fills
  <2>2. Len(Slice(c, base, size)) = size - base
      BY <1>9, <1>10, <2>1, SliceType
  <2> QED BY <1>7, <1>10, <2>2 DEF c
<1>14. Frames'[k] = SubSeq(f, 1, Len(f) - n)
    BY <1>7, <1>11, <1>18, <1>19 DEF c, from
<1>15. Frames'[k + 1] = SubSeq(f, Len(f) - n + 1, Len(f)) \o Empties(size - p)
    BY <1>7, <1>12, <1>13, <1>18, <1>19 DEF c, from
<1>16. Calls!SameOthers
    BY <1>1, <1>8 DEF Calls!SameOthers, Calls!Depth
<1> HIDE DEF Frames
<1>17. Calls!CallWith(f, n)
    BY <1>1, <1>14, <1>15, <1>16, <1>20 DEF Calls!CallWith, Calls!Depth, Empties
<1> QED BY <1>17 DEF f

\* The running method and its operands.
LEMMA Running_ ==
    ASSUME Types, HeightsInv, Verified(prog), Looping
    PROVE  /\ Len(callstack) \in Nat \ {0} /\ callstack # <<>> /\ Ordered(callstack, bp)
           /\ bp \in Int /\ ptr \in Int /\ bp <= ptr
           /\ Calls!Depth = Len(callstack) /\ Calls!Depth > 0
           /\ Calls!Caller = Slice(buf, bp, ptr) /\ Len(Calls!Caller) = ptr - bp
<1> DEFINE k == Len(callstack)
<1>1. k \in Nat \ {0} /\ Chain(prog, callstack, host, bp) /\ ptr = bp + prog.height[pc]
      /\ prog.height[pc] \in Nat
    BY Here DEF Heights
<1>2. bp \in Int /\ ptr \in Int /\ bp \in Heights_ /\ ptr \in Heights_ /\ buf \in Stacks
    BY StackTypes, SlotFacts DEF Heights_
<1>3. bp <= ptr
    BY <1>1, <1>2
<1>4. Frames[k] = Slice(buf, bp, ptr) /\ Len(Frames) = k
    BY <1>1, FramesHere DEF BaseOf, LimitOf
<1>5. Len(Slice(buf, bp, ptr)) = ptr - bp
  <2>1. Fills(ptr - bp) = ptr - bp
      BY <1>2, <1>3 DEF Fills
  <2> QED BY <1>2, <2>1, SliceType
<1>6. callstack # <<>>
    BY <1>1, EmptySeq
<1> QED
    BY <1>1, <1>2, <1>3, <1>4, <1>5, <1>6 DEF Calls!Depth, Calls!Caller, Chain

\* programcall enters a method with the arguments that are on the stack, or with the
\* receiver pushed above them.
LEMMA EnterCalls ==
    ASSUME Types, Types', HeightsInv, Verified(prog), Looping,
           NEW e \in DOMAIN prog.entries, NEW n \in Nat, n <= Entry(e).params,
           NEW then, NEW arity, NEW b, NEW p,
           \/ b = buf /\ p = ptr
           \/ \E v \in Value : ptr < StackSize /\ b = [buf EXCEPT ![ptr] = v] /\ p = ptr + 1,
           bp <= p - n,
           EnterFrame(e, n, b, p, then, arity)
    PROVE  Calls!Call \/ UNCHANGED Frames
<1> DEFINE size == FirstSlot(e, p, n) + Bound(e, n) + Locals(e)
           top == [pc |-> Resume, bp |-> bp, entry |-> e]
<1>1. CASE size > StackSize
  <2>1. UNCHANGED <<callstack, bp, buf, ptr>>
      BY <1>1 DEF EnterFrame, registers, stackvars
  <2> QED BY <2>1, FramesNow
<1>2. CASE ~(size > StackSize)
  <2>1. /\ buf' = [i \in Slots |-> IF i \in p..(size - 1) THEN Empty ELSE b[i]]
        /\ ptr' = size /\ callstack' = Append(callstack, top) /\ bp' = p - n
      BY <1>2 DEF EnterFrame, FirstSlot
  <2>2. top.bp = bp
      OBVIOUS
  <2>3. top \in FrameOf(prog)
      BY LoopingInStep DEF Types, Running, FrameOf, Resume, Looping
  <2> HIDE DEF top
  <2>4. /\ Len(callstack) \in Nat \ {0} /\ callstack # <<>> /\ Ordered(callstack, bp)
        /\ bp \in Int /\ ptr \in Int /\ bp <= ptr
        /\ Calls!Depth > 0 /\ Calls!Caller = Slice(buf, bp, ptr) /\ Len(Calls!Caller) = ptr - bp
      BY Running_
  <2>5. /\ bp \in Heights_ /\ ptr \in Heights_ /\ buf \in Stacks
      BY StackTypes
  <2>6. /\ Len(callstack') = Len(callstack) + 1 /\ callstack'[Len(callstack) + 1].bp = bp
        /\ \A i \in 1..Len(callstack) : callstack'[i] = callstack[i]
      BY <2>1, <2>2, <2>3, StackTypes, AppendProperties
  <2>7. /\ b \in Stacks /\ p \in Heights_ /\ \A s \in 0..(bp - 1) : b[s] = buf[s]
    <3>1. CASE b = buf /\ p = ptr
        BY <2>5, <3>1
    <3>2. ASSUME NEW v \in Value, ptr < StackSize, b = [buf EXCEPT ![ptr] = v], p = ptr + 1
          PROVE  b \in Stacks /\ p \in Heights_ /\ \A s \in 0..(bp - 1) : b[s] = buf[s]
      <4>1. b \in Stacks
          BY <2>5, <3>2, Written DEF Stacks
      <4>2. p \in Heights_
          BY <2>4, <2>5, <3>2, SlotFacts DEF Heights_
      <4>3. ASSUME NEW s \in 0..(bp - 1) PROVE b[s] = buf[s]
        <5>1. s \in Slots /\ s # ptr
            BY <2>4, <2>5, SlotFacts DEF Heights_
        <5> QED BY <2>5, <3>2, <5>1 DEF Stacks
      <4> QED BY <4>1, <4>2, <4>3
    <3> QED BY <3>1, <3>2
  <2>8. p \in Int /\ p - n \in Int /\ size \in Heights_ /\ p <= size /\ size \in Int
    <3>1. p \in Int
        BY <2>7, SlotFacts DEF Heights_
    <3>2. Entry(e).params \in Nat /\ Entry(e).locals \in Nat
        BY EntryFields DEF Types, Running, Entry
    <3>3. Bound(e, n) \in Nat /\ Bound(e, n) >= n /\ Locals(e) \in Nat
        BY <3>2 DEF Bound, Locals, Fills
    <3>4. size = p - n + Bound(e, n) + Locals(e) /\ size \in Int
        BY <3>1, <3>3 DEF FirstSlot
    <3> HIDE DEF size
    <3>5. p <= size
        BY <3>1, <3>3, <3>4
    <3>6. 0 <= p
        BY <2>7, SlotFacts DEF Heights_
    <3> QED BY <1>2, <3>1, <3>4, <3>5, <3>6, SlotFacts DEF Heights_, size
  <2> HIDE DEF size
  <2>9. \A s \in Slots : (s < p => buf'[s] = b[s]) /\ (s >= p /\ s < size => buf'[s] = Empty)
      BY <2>1, <2>8, SlotFacts
  <2>10. Calls!CallWith(Slice(b, bp, p), n)
      BY <2>1, <2>4, <2>6, <2>7, <2>8, <2>9, CallWithStep
  <2>11. CASE b = buf /\ p = ptr
    <3>1. n \in 0..Len(Calls!Caller)
        BY <2>4, <2>11
    <3>2. Calls!CallWith(Calls!Caller, n)
        BY <2>4, <2>10, <2>11
    <3> QED BY <2>4, <3>1, <3>2 DEF Calls!Call
  <2>12. ASSUME NEW v \in Value, ptr < StackSize, b = [buf EXCEPT ![ptr] = v], p = ptr + 1
         PROVE  Calls!Call
    <3>1. b[ptr] = v /\ \A s \in bp..(ptr - 1) : b[s] = buf[s]
      <4>1. ptr \in Slots
          BY <2>4, <2>5, <2>12, SlotFacts DEF Heights_
      <4>2. \A s \in bp..(ptr - 1) : s \in Slots /\ s # ptr
          BY <2>4, <2>5, SlotFacts DEF Heights_
      <4> QED BY <2>5, <2>12, <4>1, <4>2 DEF Stacks
    <3>2. Append(Calls!Caller, v) = Slice(b, bp, p)
      <4>1. /\ bp \in Heights_ /\ ptr \in Heights_ /\ buf \in Stacks /\ b \in Stacks
            /\ bp <= ptr /\ ptr < StackSize
          BY <2>4, <2>5, <2>7, <2>12
      <4>2. Append(Slice(buf, bp, ptr), v) = Slice(b, bp, ptr + 1)
          BY ONLY <3>1, <4>1, v \in Value, SliceAppend
      <4> QED BY <2>4, <2>12, <4>2
    <3>3. n \in 0..(Len(Calls!Caller) + 1)
        BY <2>4, <2>12
    <3>4. Calls!CallWith(Append(Calls!Caller, v), n)
        BY <2>10, <3>2
    <3> QED BY <2>4, <3>3, <3>4 DEF Calls!Call
  <2> QED BY <2>11, <2>12
<1> QED BY <1>1, <1>2

\* op_ret leaves one value with the caller, on top of what it had.
LEMMA ReturnCalls ==
    ASSUME Types, Types', HeightsInv, Verified(prog), Return
    PROVE  Calls!Return
<1> DEFINE k == Len(callstack)
           frame == callstack[k]
           v == buf[ptr - 1]
<1>1. /\ Fetch("ret") /\ Shift(Entry(frame.entry).locals + 1, v)
      /\ bp' = frame.bp /\ callstack' = SubSeq(callstack, 1, k - 1)
  <2>1. Fetch("ret") /\ Shift(Entry(frame.entry).locals + 1, Arg(0))
        /\ bp' = frame.bp /\ callstack' = SubSeq(callstack, 1, k - 1)
      BY DEF Return
  <2>2. Arg(0) = v
      BY <2>1, FetchGives, SlotFacts DEF Arg
  <2> QED BY <2>1, <2>2
<1>2. /\ Looping /\ Inst = prog.code[pc] /\ Inst.op = "ret" /\ ptr \in 0..(StackSize - 1)
      /\ buf \in [Slots -> Value]
    BY <1>1, FetchGives DEF Fetch
<1>3. /\ Method_ \in DOMAIN prog.entries /\ Heights(prog, Method_, pc) /\ ptr = bp + prog.height[pc]
    BY <1>2, Here
<1>4. /\ k \in Nat \ {0} /\ callstack # <<>> /\ Ordered(callstack, bp)
      /\ bp \in Int /\ ptr \in Int /\ bp <= ptr
      /\ Calls!Depth = k /\ Calls!Depth > 0
      /\ Calls!Caller = Slice(buf, bp, ptr) /\ Len(Calls!Caller) = ptr - bp
    BY <1>2, Running_
<1>5. /\ bp \in Heights_ /\ ptr \in Heights_ /\ buf \in Stacks
      /\ buf' \in Stacks /\ ptr' \in Heights_ /\ bp' \in Heights_
    BY StackTypes, StackTypesNext
<1>6. bp < ptr /\ ptr' = bp + 1 /\ buf' = [buf EXCEPT ![bp] = v] /\ v \in Value
  <2>1. prog.height[pc] = Entry(frame.entry).locals + 1
      BY <1>2, <1>3 DEF Heights, Method_, Entry
  <2>2. Entry(frame.entry).locals \in Nat
      BY <1>3, EntryFields DEF Types, Running, Entry, Method_
  <2>3. /\ ptr' = ptr - (Entry(frame.entry).locals + 1) + 1
        /\ buf' = [buf EXCEPT ![ptr - (Entry(frame.entry).locals + 1)] = v]
      BY <1>1 DEF Shift, Replaced
  <2> DEFINE l == Entry(frame.entry).locals
  <2>4. ptr = bp + (l + 1) /\ l \in Nat
      BY <1>3, <2>1, <2>2
  <2>5. ptr' = ptr - (l + 1) + 1 /\ buf' = [buf EXCEPT ![ptr - (l + 1)] = v]
      BY <2>3
  <2> HIDE DEF l, v
  <2>6. bp < ptr /\ ptr - (l + 1) = bp
      BY <1>4, <2>4
  <2>7. ptr' = bp + 1 /\ buf' = [buf EXCEPT ![bp] = v]
      BY <2>5, <2>6
  <2>8. ptr - 1 \in Slots
      BY <1>2, <1>4, <1>5, <2>6, SlotFacts DEF Heights_
  <2> QED BY <1>2, <2>6, <2>7, <2>8 DEF v
<1>7. Calls!Caller # <<>> /\ Calls!Caller[Len(Calls!Caller)] = v
  <2>1. Fills(ptr - bp) = ptr - bp
      BY <1>4 DEF Fills
  <2>2. ptr - bp \in 1..Fills(ptr - bp) /\ bp + (ptr - bp) - 1 = ptr - 1
      BY <1>4, <1>6, <2>1
  <2>3. Slice(buf, bp, ptr)[ptr - bp] = buf[bp + (ptr - bp) - 1]
      BY <1>5, <2>2, SliceType
  <2>4. Calls!Caller[Len(Calls!Caller)] = v
      BY <1>4, <2>2, <2>3
  <2>5. Len(Calls!Caller) # 0
      BY <1>4, <1>6
  <2> QED BY <2>4, <2>5, EmptySeq
<1>8. /\ Len(callstack') = k - 1
      /\ \A i \in 1..(k - 1) : callstack'[i] = callstack[i]
    BY <1>1, <1>4, StackTypes, Popped
<1>9. Len(Frames) = k /\ Len(Frames') = k - 1
    BY <1>8, FramesHere, FramesThen
<1>10. \A i \in 1..(k - 1) : BaseOf(callstack', bp', i) = BaseOf(callstack, bp, i)
    BY <1>1, <1>4, <1>8 DEF BaseOf
<1>11. \A s \in Slots : s # bp => buf'[s] = buf[s]
    BY <1>5, <1>6 DEF Stacks
<1>12. buf'[bp] = v
  <2>1. bp \in Slots
      BY <1>2, <1>4, <1>5, <1>6, SlotFacts DEF Heights_
  <2> QED BY <1>5, <1>6, <2>1 DEF Stacks
<1>13. CASE k > 1
  <2> DEFINE j == k - 1
             from == BaseOf(callstack, bp, j)
  <2>1. j \in 1..k /\ j + 1 = k /\ j \in 1..Len(callstack) /\ j \in 1..Len(callstack') /\ j # k
      BY <1>4, <1>8, <1>13
  <2>2. BaseOf(callstack, bp, k) = bp
      BY DEF BaseOf
  <2>3. from \in Heights_ /\ from <= bp
    <3>1. from \in Heights_
        BY <2>1, FramesHere
    <3>2. k \in 1..Len(callstack) /\ j <= k
        BY <1>4
    <3> QED BY <2>1, <2>2, <3>1, <3>2, <1>4 DEF Ordered
  <2>4. from \in Int
      BY <2>3, SlotFacts DEF Heights_
  <2>5. Frames[j] = Slice(buf, from, bp)
      BY <2>1, <2>2, FramesHere DEF LimitOf
  <2>6. Frames'[j] = Slice(buf', from, bp + 1)
      BY <1>6, <1>8, <1>10, <2>1, FramesThen DEF LimitOf
  <2>7. \A s \in from..(bp - 1) : buf'[s] = buf[s]
    <3>1. \A s \in from..(bp - 1) : s \in Slots /\ s # bp
        BY <1>4, <1>5, <2>3, SlotFacts DEF Heights_
    <3> QED BY <1>11, <3>1
  <2>8. \A i \in 1..(j - 1) : Frames'[i] = Frames[i]
    <3>1. \A s \in 0..(from - 1) : buf'[s] = buf[s]
      <4>1. \A s \in 0..(from - 1) : s \in Slots /\ s # bp
          BY <1>4, <1>5, <2>3, <2>4, SlotFacts DEF Heights_
      <4> QED BY <1>11, <4>1
    <3>2. j <= Len(callstack') /\ \A i \in 1..j : BaseOf(callstack', bp', i) = BaseOf(callstack, bp, i)
        BY <1>8, <1>10
    <3> HIDE DEF j
    <3> QED BY <1>4, <2>1, <3>1, <3>2, OthersKept
  <2> DEFINE c == buf'
  <2>9. /\ c \in Stacks /\ buf \in Stacks /\ bp \in Heights_ /\ bp < StackSize /\ from \in Heights_
        /\ from <= bp /\ v \in Value /\ c[bp] = v /\ \A s \in from..(bp - 1) : c[s] = buf[s]
    <3>1. bp < StackSize
        BY <1>2, <1>4, <1>6, SlotFacts
    <3> QED BY <1>5, <1>6, <1>12, <2>3, <2>7, <3>1
  <2> HIDE DEF c, from, v, j, k
  <2>10. Append(Slice(buf, from, bp), v) = Slice(c, from, bp + 1)
      BY ONLY <2>9, SliceAppend
  <2>11. Frames'[j] = Append(Frames[j], v)
      BY <2>5, <2>6, <2>10 DEF c
  <2>12. \A i \in 1..(k - 2) : Frames'[i] = Frames[i]
    <3>1. k - 2 = j - 1
        BY <1>4 DEF j
    <3> QED BY <2>8, <3>1
  <2>13. Calls!Depth = k /\ Len(Frames') = k - 1 /\ Frames'[k - 1] = Append(Frames[k - 1], v)
      BY <1>4, <1>9, <2>11 DEF j
  <2> QED BY <1>4, <1>7, <2>12, <2>13 DEF Calls!Return
<1>14. CASE ~(k > 1)
  <2>1. Calls!Depth = k /\ 1..(k - 2) = {} /\ ~(Calls!Depth > 1) /\ Len(Frames') = Calls!Depth - 1
      BY <1>4, <1>9, <1>14
  <2> QED BY <1>4, <1>7, <2>1 DEF Calls!Return
<1> QED BY <1>13, <1>14

--------------------------------------------------------------------------------
(***************************************************************************)
(* Every instruction is a call, a return or work of the running method.    *)
(***************************************************************************)
CallsKept == Calls!Next \/ UNCHANGED Frames

\* What an instruction takes is the running method's.
LEMMA Above ==
    ASSUME Types, HeightsInv, Verified(prog), NEW op, Fetch(op)
    PROVE  /\ Looping /\ Inst.op = op /\ Needs(Inst) \in Nat /\ bp + Needs(Inst) <= ptr
           /\ bp \in Int /\ ptr \in Int /\ ptr < StackSize
           /\ bp \in Heights_ /\ ptr \in Heights_ /\ buf \in Stacks
<1>1. Looping /\ Inst = prog.code[pc] /\ ptr < StackSize
    BY FetchGives, SlotFacts DEF Fetch
<1>2. Inst.op = op /\ Inst.n \in Nat /\ Inst.arity \in Nat
    BY InstEffects
<1>3. Needs(Inst) \in Nat
    BY <1>2 DEF Needs
<1>4. prog.height[pc] >= Needs(Inst) /\ prog.height[pc] \in Nat /\ ptr = bp + prog.height[pc]
    BY <1>1, Here DEF Heights
<1>5. bp \in Int /\ ptr \in Int
    BY StackTypes, SlotFacts DEF Heights_
<1>6. bp + Needs(Inst) <= ptr
    BY <1>3, <1>4, <1>5
<1> QED BY <1>1, <1>2, <1>3, <1>5, <1>6, StackTypes

UnderKept == \A s \in 0..(bp - 1) : buf'[s] = buf[s]

\* A write to a slot that is the running method's.
LEMMA WriteUnder ==
    ASSUME Types, \/ buf' = buf
                  \/ \E w \in Int : \E v : w >= bp /\ buf' = [buf EXCEPT ![w] = v]
    PROVE  UnderKept
<1>1. bp \in Int /\ bp \in Heights_ /\ buf \in Stacks
    BY StackTypes, SlotFacts DEF Heights_
<1>2. ASSUME NEW s \in 0..(bp - 1) PROVE buf'[s] = buf[s]
  <2>1. s \in Slots /\ s < bp /\ s \in Int
      BY <1>1, SlotFacts DEF Heights_
  <2>2. ASSUME NEW w \in Int, NEW v, w >= bp, buf' = [buf EXCEPT ![w] = v] PROVE buf'[s] = buf[s]
    <3>1. s # w
        BY <1>1, <2>1, <2>2
    <3> QED BY <1>1, <2>1, <2>2, <3>1 DEF Stacks
  <2> QED BY <2>2
<1> QED BY <1>2 DEF UnderKept

LEMMA WriteCalls ==
    ASSUME Types, Types', HeightsInv, Verified(prog), Looping,
           UNCHANGED <<prog, bp, callstack>>, UnderKept
    PROVE  CallsKept
<1>1. callstack # <<>> /\ Ordered(callstack, bp)
    BY Running_
<1>2. Calls!Work
    BY <1>1, WorkStep DEF UnderKept
<1> QED BY <1>2 DEF CallsKept, Calls!Next

\* Instructions that replace n of their operands by one.
LEMMA ShiftUnder ==
    ASSUME Types, HeightsInv, Verified(prog), NEW op, Fetch(op),
           NEW n \in Nat, n <= Needs(Inst), NEW v, Shift(n, v)
    PROVE  UnderKept
<1>1. Needs(Inst) \in Nat /\ bp + Needs(Inst) <= ptr /\ bp \in Int /\ ptr \in Int
    BY Above
<1> DEFINE w == ptr - n
<1>2. w \in Int /\ w >= bp
    BY <1>1
<1>3. buf' = [buf EXCEPT ![w] = v]
    BY DEF Shift, Replaced
<1> HIDE DEF w
<1> QED BY <1>2, <1>3, WriteUnder

LEMMA ShiftCalls ==
    ASSUME Types, Types', HeightsInv, Verified(prog), NEW op, Fetch(op),
           NEW n \in Nat, n <= Needs(Inst), NEW v, Shift(n, v), Advance
    PROVE  CallsKept
<1>1. UnderKept
    BY ShiftUnder
<1> QED BY <1>1, Above, WriteCalls DEF Advance

LEMMA StoreUnder ==
    ASSUME Types, HeightsInv, Verified(prog), StoreLocal PROVE UnderKept
<1>1. Fetch("stloc") /\ buf' = [buf EXCEPT ![bp + Inst.k] = Arg(0)]
    BY DEF StoreLocal
<1>2. Inst.k \in Nat /\ bp \in Int
    BY <1>1, FetchGives, InstructionFields, Above
<1> DEFINE w == bp + Inst.k
           v == Arg(0)
<1>3. w \in Int /\ w >= bp /\ buf' = [buf EXCEPT ![w] = v]
    BY <1>1, <1>2
<1> HIDE DEF w, v
<1> QED BY <1>3, WriteUnder

LEMMA CallCalls ==
    ASSUME Types, Types', HeightsInv, Verified(prog), NEW op, Fetch(op),
           NEW e \in DOMAIN prog.entries, NEW n \in Nat,
           NEW then \in {"none", "fold", "native"}, NEW arity, NEW b, NEW p,
           \/ b = buf /\ p = ptr
           \/ \E v \in Value : b = [buf EXCEPT ![ptr] = v] /\ p = ptr + 1,
           bp <= p - n, then = "none" => b = buf, then = "fold" => bp <= p - n - 1,
           then = "native" => n = 0,
           ProgramCall(e, n, b, p, then, arity)
    PROVE  CallsKept
<1>1. /\ Looping /\ bp \in Int /\ ptr \in Int /\ ptr < StackSize /\ ptr >= bp
      /\ bp \in Heights_ /\ ptr \in Heights_ /\ buf \in Stacks
    BY Above, Running_
<1>2. Entry(e).params \in Nat /\ ~Entry(e).va_args
    BY EntryFields DEF Types, Running, Entry, Verified
<1>3. CASE n > Entry(e).params
  <2>1. Finish(then, arity, b, p) /\ Advance
      BY <1>2, <1>3 DEF ProgramCall
  <2>2. UNCHANGED <<prog, bp, callstack>>
      BY <2>1 DEF Advance
  <2>3. then # "native"
      BY <1>2, <1>3
  <2>4. CASE then = "none"
      BY <1>1, <2>1, <2>2, <2>4, WriteUnder, WriteCalls DEF Finish, After
  <2>5. CASE then = "fold"
    <3> DEFINE v == b[p - 1]
               w == p - 2
    <3>1. buf' = [b EXCEPT ![w] = v]
        BY <2>1, <2>5 DEF Finish, After, Folded
    <3>2. p \in Int /\ n >= 1
        BY <1>1, <1>2, <1>3
    <3>3. w \in Int /\ w >= bp
        BY <1>1, <2>5, <3>2
    <3> HIDE DEF v, w
    <3>4. CASE b = buf
        BY <1>1, <2>2, <3>1, <3>3, <3>4, WriteUnder, WriteCalls
    <3>5. ASSUME NEW u, b = [buf EXCEPT ![ptr] = u] PROVE CallsKept
      <4>1. ASSUME NEW s \in 0..(bp - 1) PROVE buf'[s] = buf[s]
        <5>1. s \in Slots /\ s # w /\ s # ptr
            BY <1>1, <3>3, SlotFacts DEF Heights_
        <5>2. b[s] = buf[s] /\ s \in DOMAIN b
            BY <1>1, <3>5, <5>1 DEF Stacks
        <5> QED BY <3>1, <5>1, <5>2
      <4> QED BY <1>1, <2>2, <4>1, WriteCalls DEF UnderKept
    <3> QED BY <3>4, <3>5
  <2> QED BY <2>3, <2>4, <2>5
<1>4. CASE ~(n > Entry(e).params)
  <2>1. n <= Entry(e).params
      BY <1>2, <1>4
  <2>2. EnterFrame(e, n, b, p, then, arity)
      BY <1>4 DEF ProgramCall
  <2>3. \/ b = buf /\ p = ptr
        \/ \E v \in Value : ptr < StackSize /\ b = [buf EXCEPT ![ptr] = v] /\ p = ptr + 1
      BY <1>1
  <2>4. Calls!Call \/ UNCHANGED Frames
      BY <1>1, <2>1, <2>2, <2>3, EnterCalls
  <2> QED BY <2>4 DEF CallsKept, Calls!Next
<1> QED BY <1>3, <1>4

\* An exception is raised with the operands as they are.
LEMMA RaiseCalls ==
    ASSUME Types, Types', HeightsInv, Verified(prog), NEW op, Fetch(op), NEW kind, NEW p,
           Raise(kind, buf, p)
    PROVE  CallsKept
BY Above, WriteUnder, WriteCalls DEF Raise, Advance

LEMMA NativeCalls ==
    ASSUME Types, Types', HeightsInv, Verified(prog), NEW op, Fetch(op),
           NEW n \in Nat, n <= Needs(Inst), NEW r, NativeReturn(n, buf, ptr, r)
    PROVE  CallsKept
<1>1. Shift(n, r) /\ Advance
    BY DEF NativeReturn, Shift, Replaced
<1> QED BY <1>1, ShiftCalls

LEMMA VCallCalls ==
    ASSUME Types, Types', HeightsInv, Verified(prog), NEW op, Fetch(op),
           NEW v, NEW name, NEW n \in Nat, Needs(Inst) = n + 1, NEW c,
           VCallOn(v, name, n, buf, ptr, c)
    PROVE  CallsKept
<1>1. ASSUME NEW kind \in {"null pointer", "method not found", "native"}, Raise(kind, buf, ptr)
      PROVE  CallsKept
    BY <1>1, RaiseCalls
<1>2. ASSUME Scripted(v, name), ProgramCall(Method(v, name).entry, n, buf, ptr, "fold", 0)
      PROVE  CallsKept
  <2>1. Method(v, name).entry \in DOMAIN prog.entries
      BY <1>2, MethodEntry DEF Scripted, Types, Running
  <2>2. bp + (n + 1) <= ptr /\ bp \in Int /\ ptr \in Int
      BY Above
  <2>3. bp <= ptr - n /\ bp <= ptr - n - 1
      BY <2>2
  <2> QED BY <1>2, <2>1, <2>3, CallCalls
<1>3. ASSUME NEW r \in Results, NativeReturn(n + 1, buf, ptr, r) PROVE CallsKept
  <2>1. n + 1 \in Nat /\ n + 1 <= Needs(Inst)
      OBVIOUS
  <2> QED BY <1>3, <2>1, NativeCalls
<1>4. \/ \E kind \in {"null pointer", "method not found", "native"} : Raise(kind, buf, ptr)
      \/ Scripted(v, name) /\ ProgramCall(Method(v, name).entry, n, buf, ptr, "fold", 0)
      \/ \E r \in Results : NativeReturn(n + 1, buf, ptr, r)
    BY ValuesAssumption DEF VCallOn, Scripted, HasMethod, Responds
<1> QED BY <1>1, <1>2, <1>3, <1>4

LEMMA SimpleCalls ==
    ASSUME Types, Types', HeightsInv, Verified(prog),
           \/ Load \/ LoadThis \/ LoadLocal \/ Dup \/ StoreLocal \/ Pop \/ Nop \/ Binary
           \/ NewArr \/ SetCallee
    PROVE  CallsKept
<1>1. ASSUME NEW op, Fetch(op), NEW n \in Nat, n <= Needs(Inst), NEW v, Shift(n, v), Plain
      PROVE  CallsKept
    BY <1>1, ShiftCalls DEF Plain
<1>2. ASSUME NEW op, Fetch(op), NEW v, Shift(0, v), Plain PROVE CallsKept
  <2>1. 0 \in Nat /\ 0 <= Needs(Inst)
      BY <1>2, Above
  <2> QED BY <1>1, <1>2, <2>1
<1>3. ASSUME NEW op, Fetch(op), NEW n, Dropped(n), Advance PROVE CallsKept
    BY <1>3, Above, WriteUnder, WriteCalls DEF Dropped, Advance
<1>4. CASE Load \/ LoadThis \/ LoadLocal \/ Dup
    BY <1>2, <1>4 DEF Load, LoadThis, LoadLocal, Dup
<1>5. CASE StoreLocal
  <2>1. Fetch("stloc") /\ Advance
      BY <1>5 DEF StoreLocal, Plain
  <2> QED BY <1>5, <2>1, Above, StoreUnder, WriteCalls DEF Advance
<1>6. CASE Pop \/ Nop \/ SetCallee
    BY <1>3, <1>6 DEF Pop, Nop, SetCallee, Plain
<1>7. CASE Binary
  <2>1. PICK r \in Results : Fetch("binary") /\ Shift(2, r) /\ Plain
      BY <1>7 DEF Binary
  <2>2. 2 \in Nat /\ 2 <= Needs(Inst)
      BY <2>1, InstEffects DEF Needs
  <2> QED BY <1>1, <2>1, <2>2
<1>8. CASE NewArr
  <2>1. Fetch("newarr") /\ Shift(Inst.n, Array) /\ Plain
      BY <1>8 DEF NewArr
  <2>2. Inst.n \in Nat /\ Inst.n <= Needs(Inst)
      BY <2>1, InstEffects DEF Needs
  <2> QED BY <1>1, <2>1, <2>2
<1> QED BY <1>4, <1>5, <1>6, <1>7, <1>8

LEMMA OperatorCalls ==
    ASSUME Types, Types', HeightsInv, Verified(prog), AddsNumbers, Equal \/ Arith \/ Add
    PROVE  CallsKept
<1>1. ASSUME NEW op \in {"equal", "arith", "add"}, Fetch(op), NEW v, Shift(2, v), Plain
      PROVE  CallsKept
  <2>1. 2 \in Nat /\ 2 <= Needs(Inst)
      BY <1>1, InstEffects DEF Needs
  <2> QED BY <1>1, <2>1, ShiftCalls DEF Plain
<1>2. ASSUME NEW op \in {"equal", "arith"}, Fetch(op), VCallOn(Arg(1), Inst.name, 1, buf, ptr, None)
      PROVE  CallsKept
  <2>1. Needs(Inst) = 1 + 1 /\ 1 \in Nat
      BY <1>2, InstEffects DEF Needs
  <2> QED BY <1>2, <2>1, VCallCalls
<1>3. CASE Equal
    BY <1>1, <1>2, <1>3 DEF Equal
<1>4. CASE Arith
  <2>1. Fetch("arith")
      BY <1>4 DEF Arith
  <2>2. \/ \E r \in Results : Shift(2, r) /\ Plain
        \/ Raise("arithmetic", buf, ptr - 2)
        \/ VCallOn(Arg(1), Inst.name, 1, buf, ptr, None)
      BY <1>4 DEF Arith
  <2> QED BY <1>1, <1>2, <2>1, <2>2, RaiseCalls
<1>5. CASE Add
  <2>1. Fetch("add")
      BY <1>5 DEF Add
  <2>2. Numbers
      BY <2>1, FetchGives DEF AddsNumbers, Fetch, Code
  <2>3. \E r \in Results : Shift(2, r) /\ Plain
      BY <1>5, <2>2 DEF Add
  <2> QED BY <1>1, <2>1, <2>3
<1> QED BY <1>3, <1>4, <1>5

LEMMA PropCalls ==
    ASSUME Types, Types', HeightsInv, Verified(prog), LoadProp \/ StoreProp PROVE CallsKept
<1>1. ASSUME NEW op, Fetch(op), UNCHANGED <<prog, bp, callstack>>, buf' = buf PROVE CallsKept
    BY <1>1, Above, WriteUnder, WriteCalls
<1>2. CASE LoadProp
  <2>1. Fetch("ldprop")
      BY <1>2 DEF LoadProp
  <2>2. 1 \in Nat /\ 1 <= Needs(Inst)
      BY <2>1, InstEffects DEF Needs
  <2>3. \/ \E r \in Results : Shift(1, r) /\ Plain
        \/ UNCHANGED <<prog, bp, callstack>> /\ buf' = buf
      BY <1>2 DEF LoadProp, Dropped
  <2>4. ASSUME NEW r \in Results, Shift(1, r), Plain PROVE CallsKept
      BY <2>1, <2>2, <2>4, ShiftCalls DEF Plain
  <2> QED BY <1>1, <2>1, <2>3, <2>4
<1>3. CASE StoreProp
  <2>1. Fetch("stprop") /\ UNCHANGED <<prog, bp, callstack>> /\ buf' = buf
      BY <1>3 DEF StoreProp, Dropped, Plain, Advance
  <2> QED BY <1>1, <2>1
<1> QED BY <1>2, <1>3

LEMMA NewObjCalls ==
    ASSUME Types, Types', HeightsInv, Verified(prog), NEW o \in Objects, NewObj(o)
    PROVE  CallsKept
<1>1. Fetch("newobj") /\ Inst.n \in Nat
    BY InstEffects DEF NewObj
<1>2. /\ Looping /\ bp + Inst.n <= ptr /\ bp \in Int /\ ptr \in Int
  <2>1. Needs(Inst) = Inst.n
      BY <1>1, InstEffects DEF Needs
  <2> QED BY <1>1, <2>1, Above
<1>3. CASE HasMethod(o, "_ctor")
  <2> DEFINE b == [buf EXCEPT ![ptr] = o]
             e == Method(o, "_ctor").entry
             n == Inst.n
             p == ptr + 1
  <2>1. ProgramCall(e, n, b, p, "fold", 0)
      BY <1>3 DEF NewObj
  <2>2. e \in DOMAIN prog.entries
      BY <1>3, MethodEntry DEF Types, Running
  <2>3. o \in Value
      BY DEF Value
  <2>4. \E v \in Value : b = [buf EXCEPT ![ptr] = v] /\ p = ptr + 1
      BY <2>3
  <2>5. n \in Nat /\ bp <= p - n /\ bp <= p - n - 1
      BY <1>1, <1>2
  <2> HIDE DEF b, e, n, p
  <2> QED BY <1>1, <2>1, <2>2, <2>4, <2>5, CallCalls
<1>4. CASE ~HasMethod(o, "_ctor")
  <2>1. Shift(0, o) /\ Advance
      BY <1>4 DEF NewObj, Plain
  <2>2. 0 \in Nat /\ 0 <= Needs(Inst)
      BY <1>1, Above
  <2> QED BY <1>1, <2>1, <2>2, ShiftCalls
<1> QED BY <1>3, <1>4

LEMMA InvokeCalls ==
    ASSUME Types, Types', HeightsInv, Verified(prog), VCall \/ StaticCall PROVE CallsKept
<1>1. CASE VCall
  <2>1. Fetch("vcall") /\ VCallOn(buf[callee], Inst.name, Inst.n, buf, ptr, callee)
      BY <1>1 DEF VCall
  <2>2. Inst.n \in Nat /\ Needs(Inst) = Inst.n + 1
      BY <2>1, InstEffects DEF Needs
  <2> QED BY <2>1, <2>2, VCallCalls
<1>2. CASE StaticCall
  <2>1. Fetch("call") /\ ProgramCall(Inst.k, Inst.n, buf, ptr, "none", 0)
      BY <1>2 DEF StaticCall
  <2>2. Inst.n \in Nat /\ Needs(Inst) = Inst.n
      BY <2>1, InstEffects DEF Needs
  <2>3. bp <= ptr - Inst.n
    <3>1. bp + Inst.n <= ptr /\ bp \in Int /\ ptr \in Int
        BY <2>1, <2>2, Above
    <3> QED BY <2>2, <3>1
  <2>4. Inst.k \in DOMAIN prog.entries
    <3>1. prog \in Programs /\ pc \in 1..Len(prog.code) /\ Inst = prog.code[pc]
          /\ Inst.op = "call"
        BY <2>1, FetchGives
    <3> QED BY <3>1, InstructionFields
  <2> QED BY <2>1, <2>2, <2>3, <2>4, CallCalls
<1> QED BY <1>1, <1>2

LEMMA SysCalls ==
    ASSUME Types, Types', HeightsInv, Verified(prog), SysCall PROVE CallsKept
<1>1. Fetch("syscall") /\ Native(Inst.mode, Inst.arity, buf, ptr)
    BY DEF SysCall
<1>2. Inst.op = "syscall" /\ Inst.arity \in Nat /\ Needs(Inst) = Inst.arity
    BY <1>1, InstEffects DEF Needs
<1>3. /\ Looping /\ bp + Inst.arity <= ptr /\ bp \in Int /\ ptr \in Int /\ bp <= ptr
      /\ buf \in Stacks /\ ptr \in Heights_
    BY <1>1, <1>2, Above, Running_
<1>4. CASE Inst.mode = "prints" /\ Scripted(buf[ptr - 1], "to_string")
  <2> DEFINE v == buf[ptr - 1]
             b == [buf EXCEPT ![ptr] = v]
             e == Method(v, "to_string").entry
             p == ptr + 1
  <2>1. ProgramCall(e, 0, b, p, "native", Inst.arity)
      BY <1>1, <1>4 DEF Native
  <2>2. e \in DOMAIN prog.entries
      BY <1>4, MethodEntry DEF Types, Running, Scripted
  <2>3. v \in Value
    <3>1. Inst.arity > 0 /\ bp >= 0
        BY <1>1, <1>4, FetchGives, InstructionFields, StackTypes, SlotFacts DEF Heights_
    <3>2. ptr - 1 \in Slots
        BY <1>2, <1>3, <3>1, SlotFacts DEF Heights_
    <3> QED BY <1>3, <3>2 DEF Stacks
  <2>4. \E u \in Value : b = [buf EXCEPT ![ptr] = u] /\ p = ptr + 1
      BY <2>3
  <2>5. 0 \in Nat /\ bp <= p - 0 /\ "native" \in {"none", "fold", "native"}
      BY <1>3
  <2> HIDE DEF v, b, e, p
  <2> QED BY <1>1, <2>1, <2>2, <2>4, <2>5, CallCalls
<1>5. ASSUME NEW r \in Results, NativeReturn(Inst.arity, buf, ptr, r) PROVE CallsKept
    BY <1>1, <1>2, <1>5, NativeCalls
<1>6. CASE Inst.mode = "fails" /\ Raise("native", buf, ptr)
    BY <1>1, <1>6, RaiseCalls
<1> QED BY <1>1, <1>4, <1>5, <1>6 DEF Native

LEMMA JumpCalls ==
    ASSUME Types, Types', HeightsInv, Verified(prog), Jump \/ JumpIf \/ JumpUnless \/ Throw
    PROVE  CallsKept
<1>1. ASSUME NEW op, Fetch(op), UNCHANGED <<prog, bp, callstack>>, buf' = buf PROVE CallsKept
    BY <1>1, Above, WriteUnder, WriteCalls
<1>2. CASE Jump
    BY <1>1, <1>2 DEF Jump, stackvars
<1>3. CASE JumpIf
    BY <1>1, <1>3 DEF JumpIf, Dropped
<1>4. CASE JumpUnless
    BY <1>1, <1>4 DEF JumpUnless, Dropped
<1>5. CASE Throw
    BY <1>5, RaiseCalls DEF Throw
<1> QED BY <1>2, <1>3, <1>4, <1>5

\* What run_entry leaves to its C++ caller is the running method's: at least the value
\* that the caller folds, above what it folds it into.
LEMMA AtRunEnd ==
    ASSUME Types, HeightsInv, Verified(prog), RunEnd, host[Len(host)].then # "none"
    PROVE  /\ callstack # <<>> /\ Ordered(callstack, bp) /\ host[Len(host)] \in Activation
           /\ ptr - 2 + Given(host[Len(host)]) >= bp
<1> DEFINE h == host[Len(host)]
<1>1. host \in Seq(Activation) /\ Hosted(host) /\ Len(host) \in Nat \ {0} /\ h \in Activation
    BY EmptySeq, ElementOfSeq DEF RunEnd, Types, Hosted
<1>2. /\ InStep(callstack, host) /\ Chain(prog, callstack, host, bp)
      /\ Now(prog, callstack, host, pc, bp, ptr)
    BY DEF HeightsInv, RunEnd
<1>3. Len(callstack) = Len(host) - 1
    BY <1>1, <1>2, LenProperties DEF InStep, RunEnd, Types
<1>4. callstack # <<>>
  <2>1. ASSUME callstack = <<>> PROVE FALSE
    <3>1. Len(callstack) = 0
        BY <2>1, EmptySeq
    <3>2. Len(host) = 1
        BY <1>1, <1>3, <3>1
    <3> QED BY <1>1, <3>2 DEF Hosted
  <2> QED BY <2>1
<1>5. /\ InMethod(prog, Method_, pc) /\ ptr - 1 + Given(h) = bp + prog.height[pc]
      /\ prog.height[pc] >= 1
  <2>1. Len(callstack) # Len(host)
      BY <1>1, <1>3
  <2> QED BY <1>2, <1>4, <2>1 DEF Now, Level, Method_
<1>6. prog.height[pc] \in Nat
  <2>1. Len(callstack) \in Nat /\ Len(callstack) # 0
      BY <1>4, StackTypes, EmptySeq, LenProperties
  <2>2. callstack[Len(callstack)] \in FrameOf(prog)
      BY <2>1, StackTypes, ElementOfSeq
  <2>3. Method_ \in DOMAIN prog.entries
      BY <2>2 DEF Method_, FrameOf
  <2> QED BY <1>5, <2>3 DEF Verified, Heights, InMethod
<1>7. bp \in Int /\ ptr \in Int /\ Given(h) \in Int
    BY <1>1, StackTypes, SlotFacts, GivenType DEF Heights_
<1> HIDE DEF h
<1>8. ptr - 2 + Given(h) >= bp
    BY <1>5, <1>6, <1>7
<1> QED BY <1>1, <1>2, <1>4, <1>8 DEF h, Chain

LEMMA RunEndUnder ==
    ASSUME Types, HeightsInv, Verified(prog), RunEnd PROVE UnderKept
<1> DEFINE h == host[Len(host)]
<1>1. h \in Activation
    BY EmptySeq, ElementOfSeq DEF RunEnd, Types, Hosted
<1>2. bp \in Int /\ ptr \in Int /\ bp \in Heights_ /\ buf \in Stacks /\ h.arity \in Nat
    BY <1>1, StackTypes, SlotFacts DEF Heights_, Activation
<1>3. CASE h.then = "none" \/ UNCHANGED <<buf, ptr>>
    BY <1>3 DEF RunEnd, Finish, After, stackvars, UnderKept
<1>4. CASE ~(h.then = "none" \/ UNCHANGED <<buf, ptr>>)
  <2> DEFINE w == ptr - 2
             v == buf[ptr - 1]
             f == Folded(buf, ptr)
             x == ptr - 2 - h.arity
  <2>1. Finish(h.then, h.arity, buf, ptr) /\ f = [buf EXCEPT ![w] = v]
      BY <1>4 DEF RunEnd, stackvars, Folded
  <2>2. \/ h.then = "fold" /\ buf' = f
        \/ h.then = "native" /\ buf' = [f EXCEPT ![x] = Null]
      BY <1>1, <1>4, <2>1 DEF Finish, After, Activation
  <2>3. /\ w \in Int /\ w >= bp
        /\ x \in Int /\ (h.then = "native" => x >= bp)
    <3>1. ptr - 2 + Given(h) >= bp
        BY <1>4, AtRunEnd
    <3>2. (h.then = "fold" => Given(h) = 0) /\ (h.then = "native" => Given(h) = 0 - h.arity)
        BY DEF Given
    <3> HIDE DEF h
    <3> QED BY <1>2, <2>2, <3>1, <3>2
  <2>4. ASSUME NEW s \in 0..(bp - 1) PROVE buf'[s] = buf[s]
    <3> HIDE DEF w, v, f, x
    <3>1. s \in Slots /\ s # w /\ (h.then = "native" => s # x)
        BY <1>2, <2>3, SlotFacts DEF Heights_
    <3>2. f[s] = buf[s] /\ s \in DOMAIN f
        BY <1>2, <2>1, <3>1 DEF Stacks
    <3> QED BY <2>2, <3>1, <3>2
  <2> QED BY <2>4 DEF UnderKept
<1> QED BY <1>3, <1>4

LEMMA RunEndCalls ==
    ASSUME Types, Types', HeightsInv, Verified(prog), RunEnd PROVE CallsKept
<1>1. UNCHANGED <<prog, bp, callstack>>
    BY DEF RunEnd, registers
<1>2. CASE UNCHANGED <<buf, ptr>>
    BY <1>1, <1>2, FramesNow DEF CallsKept
<1>3. CASE ~UNCHANGED <<buf, ptr>>
  <2>1. host[Len(host)].then # "none"
      BY <1>3 DEF RunEnd, stackvars, Finish, After
  <2>2. Calls!Work
      BY <1>1, <2>1, AtRunEnd, RunEndUnder, WorkStep DEF UnderKept
  <2> QED BY <2>2 DEF CallsKept, Calls!Next
<1> QED BY <1>2, <1>3

\* A handler finds the exception on top of the running method's operands.
LEMMA HandleUnder ==
    ASSUME Types, HeightsInv, Verified(prog), Handle, Caught(prog, pc)
    PROVE  UnderKept /\ callstack # <<>> /\ Ordered(callstack, bp)
<1>1. exception # NoException /\ Handlers = AroundAt(prog, pc)
    BY DEF Handlers, AroundAt, Around, Handle
<1>2. /\ InStep(callstack, host) /\ Chain(prog, callstack, host, bp)
      /\ Len(callstack) = Len(host)
      /\ ptr + 1 = bp + prog.height[CatchAt(prog, pc)]
      /\ prog.height[CatchAt(prog, pc)] >= 1
      /\ InMethod(prog, Method_, CatchAt(prog, pc))
    BY <1>1 DEF HeightsInv, Handle, Level, Method_
<1>3. Len(callstack) \in Nat \ {0}
    BY <1>2, EmptySeq DEF Types, Hosted, Handle
<1>4. prog.height[CatchAt(prog, pc)] \in Nat
  <2>1. callstack[Len(callstack)] \in FrameOf(prog)
      BY <1>3, StackTypes, ElementOfSeq
  <2>2. Method_ \in DOMAIN prog.entries
      BY <2>1 DEF Method_, FrameOf
  <2> QED BY <1>2, <2>2 DEF Verified, Heights, InMethod
<1>5. bp \in Int /\ ptr \in Int /\ bp \in Heights_ /\ buf \in Stacks /\ ptr >= bp
  <2>1. bp \in Int /\ ptr \in Int
      BY StackTypes, SlotFacts DEF Heights_
  <2> QED BY <1>2, <1>4, <2>1, StackTypes
<1>6. ASSUME NEW s \in 0..(bp - 1) PROVE buf'[s] = buf[s]
  <2>1. s \in Slots /\ s # ptr - 0
      BY <1>5, SlotFacts DEF Heights_
  <2>2. buf' = buf \/ buf' = [buf EXCEPT ![ptr - 0] = Exception]
      BY DEF Handle, Shift, Replaced, stackvars
  <2> QED BY <1>5, <2>1, <2>2 DEF Stacks
<1>7. callstack # <<>>
    BY <1>3, EmptySeq
<1> QED BY <1>2, <1>6, <1>7 DEF UnderKept, Chain

LEMMA HandleCalls ==
    ASSUME Types, Types', HeightsInv, Verified(prog), Handle PROVE CallsKept
<1>1. Handlers = AroundAt(prog, pc) /\ UNCHANGED <<prog, bp, callstack>>
    BY DEF Handlers, AroundAt, Around, Handle
<1>2. CASE Caught(prog, pc)
  <2>1. Calls!Work
      BY <1>1, <1>2, HandleUnder, WorkStep DEF UnderKept
  <2> QED BY <2>1 DEF CallsKept, Calls!Next
<1>3. CASE ~Caught(prog, pc)
  <2>1. UNCHANGED <<callstack, bp, buf, ptr>>
      BY <1>1, <1>3 DEF Handle, stackvars, Caught
  <2> QED BY <2>1, FramesNow DEF CallsKept
<1> QED BY <1>2, <1>3

LEMMA StepCalls ==
    ASSUME Types, Types', HeightsInv, Verified(prog), AddsNumbers, [Next]_vars
    PROVE  CallsKept
<1>1. CASE Execute
  <2>1. ASSUME ParamToArr PROVE CallsKept
    <3>1. Looping /\ Inst = prog.code[pc] /\ Inst.op = "param_to_arr"
        BY <2>1, FetchGives DEF ParamToArr, Fetch
    <3> QED BY <3>1, Here DEF Raises
  <2>2. CASE \/ Load \/ LoadThis \/ LoadLocal \/ Dup \/ StoreLocal \/ Pop \/ Nop \/ Binary
             \/ NewArr \/ SetCallee
      BY <2>2, SimpleCalls
  <2>3. CASE Equal \/ Arith \/ Add
      BY <2>3, OperatorCalls
  <2>4. CASE LoadProp \/ StoreProp
      BY <2>4, PropCalls
  <2>5. ASSUME NEW o \in Objects, NewObj(o) PROVE CallsKept
      BY <2>5, NewObjCalls
  <2>6. CASE VCall \/ StaticCall
      BY <2>6, InvokeCalls
  <2>7. CASE SysCall
      BY <2>7, SysCalls
  <2>8. CASE Jump \/ JumpIf \/ JumpUnless \/ Throw
      BY <2>8, JumpCalls
  <2>9. CASE Return
      BY <2>9, ReturnCalls DEF CallsKept, Calls!Next
  <2> QED
      BY <1>1, <2>1, <2>2, <2>3, <2>4, <2>5, <2>6, <2>7, <2>8, <2>9 DEF Execute
<1>2. CASE OutOfObjects \/ StackFault \/ Stopped \/ UNCHANGED vars
  <2>1. UNCHANGED <<callstack, bp, buf, ptr>>
      BY <1>2 DEF OutOfObjects, StackFault, Stopped, vars, registers, stackvars
  <2> QED BY <2>1, FramesNow DEF CallsKept
<1>3. CASE RunEnd
    BY <1>3, RunEndCalls
<1>4. CASE Handle
    BY <1>4, HandleCalls
<1> QED BY <1>1, <1>2, <1>3, <1>4 DEF Next

\* The bootstrap method has no operands yet.
LEMMA InitCalls == Init => Calls!Init
<1> SUFFICES ASSUME Init PROVE Calls!Init
    OBVIOUS
<1>1. Types
    BY InitTypes
<1> DEFINE f == [pc |-> Entry(1).start, bp |-> 0, entry |-> 1]
<1>2. callstack = <<f>> /\ bp = 0 /\ ptr = 0
    BY DEF Init
<1> HIDE DEF f
<1>3. Len(callstack) = 1
    BY <1>2
<1>4. Len(Frames) = 1 /\ Frames[1] = Slice(buf, 0, 0) /\ Frames[1] \in Seq(Value)
    BY <1>1, <1>2, <1>3, FramesHere DEF BaseOf, LimitOf
<1>5. Len(Frames[1]) = 0
  <2>1. Fills(0 - 0) = 0 /\ 0 \in Heights_
      BY SlotFacts DEF Fills, Heights_
  <2> QED BY <1>1, <1>4, <2>1, StackTypes, SliceType
<1>6. Frames[1] = <<>>
    BY <1>4, <1>5, EmptySeq
<1>7. Frames \in Seq(Seq(Value))
  <2>1. Frames \in [1..1 -> Seq(Value)]
      BY <1>3, <1>4 DEF Frames
  <2> QED BY <2>1, FunctionSeq
<1>8. Frames = <<<<>>>>
  <2> DEFINE e == <<>>
  <2>1. e \in Seq(Value) /\ Frames[1] = e
      BY <1>6
  <2> HIDE DEF e
  <2>2. <<e>> \in Seq(Seq(Value)) /\ Len(<<e>>) = 1 /\ <<e>>[1] = e
      BY <2>1
  <2>3. \A i \in 1..Len(Frames) : Frames[i] = <<e>>[i]
      BY <1>4, <2>1, <2>2
  <2>4. Frames = <<e>>
      BY <1>4, <1>7, <2>2, <2>3, SeqEqual
  <2> QED BY <2>4 DEF e
<1> QED BY <1>8 DEF Calls!Init

\* The interpreter implements CallSpec: in a verified program every activation of a method
\* has operands of its own on the shared stack, a call moves its arguments, a return leaves
\* one value, and nothing else of one activation is touched by another.
THEOREM CallsImplemented ==
    ASSUME \A p \in Programs : Verified(p)
    PROVE  Spec /\ []AddsNumbers => CallPromise
<1>1. Types => Verified(prog)
    BY DEF Types, Running
<1>2. Types /\ Types' /\ HeightsInv /\ AddsNumbers /\ [Next]_vars => [Calls!Next]_Frames
    BY <1>1, StepCalls DEF CallsKept
<1> QED BY <1>2, InitCalls, AlwaysTypes, AlwaysHeights, PTL DEF Spec, CallPromise, Calls!Spec
================================================================================
