---------------------------- MODULE ContainersProofs ----------------------------
(* Proofs about loops over containers that script code may change under them. *)
EXTENDS Containers, SequenceTheorems, WellFoundedInduction, TLAPS

(***************************************************************************)
(* What holds of each loop between two steps, however many are nested.     *)
(* A loop over the items of an array owes those behind its position, and   *)
(* stands at one, until the array loses items: then it owes nothing.       *)
(* equal goes on by the left length, so the right one must not get less;   *)
(* remove by the end it was given, and it keeps less than it has seen.     *)
(* A loop over entries owes no key at or before the one it stands at.      *)
(***************************************************************************)
ItemLoop(l) == l.kind \in {"foreach", "text", "join"}

ItemLoopInv(l, its) ==
    IF l.hurt THEN l.due = {}
    ELSE l.at <= Len(its[l.of]) /\ l.due \subseteq (l.at + 1)..Len(its[l.of])

EqualInv(l, its) ==
    /\ l.due = {} /\ l.with \in DOMAIN its
    /\ ~l.hurt => Len(its[l.of]) <= Len(its[l.with])

RemoveInv(l, its) ==
    /\ l.due = {} /\ l.at <= l.end /\ l.kept < l.at
    /\ ~l.hurt => l.end <= Len(its[l.of])

EntryLoopInv(l, ents) == l.due \subseteq {k \in DOMAIN ents[l.of] : k > l.at}

Over(l, its, ents) == l.of \in IF OverEntries(l.kind) THEN DOMAIN ents ELSE DOMAIN its

LoopInv(l, its, ents) ==
    /\ l \in LoopType
    /\ Over(l, its, ents)
    /\ ItemLoop(l) => ItemLoopInv(l, its)
    /\ l.kind = "equal" => EqualInv(l, its)
    /\ l.kind = "remove" => RemoveInv(l, its)
    /\ OverEntries(l.kind) => EntryLoopInv(l, ents)

\* The same of every loop, with the containers as arguments.
AllGood(ls, its, ents) ==
    ls \in Seq(LoopType) /\ \A n \in DOMAIN ls : LoopInv(ls[n], its, ents)

\* A loop that is about to have the item at its position.
Arriving(l, its, ents) ==
    /\ l \in LoopType
    /\ Over(l, its, ents)
    /\ ItemLoop(l) => IF l.hurt THEN l.due = {}
                      ELSE l.at <= Len(its[l.of]) /\ l.due \subseteq l.at..Len(its[l.of])
    /\ l.kind = "equal" => EqualInv(l, its)
    /\ l.kind = "remove" => RemoveInv(l, its)
    /\ OverEntries(l.kind) => l.due \subseteq {k \in DOMAIN ents[l.of] : k >= l.at}

ItemsType(its) ==
    /\ DOMAIN its \subseteq Arrays
    /\ \A a \in DOMAIN its : its[a] \in Seq(Value) /\ Len(its[a]) <= MaxLen[a]

EntriesType(ents) ==
    /\ DOMAIN ents \subseteq Dictionaries
    /\ \A d \in DOMAIN ents : DOMAIN ents[d] \subseteq Keys
                             /\ ents[d] \in [DOMAIN ents[d] -> Value]

Data == ItemsType(items) /\ EntriesType(entries)
LoopsInv == AllGood(loops, items, entries) /\ Len(loops) <= MaxLoops
StatusInv == /\ status \in {"ok", "bad_index", "empty", "thrown", "no_text", "invalid"}
             /\ OnlyDisturbedFails

ContainersInv == Data /\ LoopsInv /\ StatusInv

--------------------------------------------------------------------------------
\* The invariant is what the two properties need.
LEMMA InvGives == ContainersInv => TypeOK /\ OnlyDisturbedFails
BY DEF ContainersInv, Data, LoopsInv, StatusInv, ItemsType, EntriesType, AllGood, LoopInv, Over,
       TypeOK

\* Lowest is the lowest: what dic.begin() and ++it yield.
LEMMA LowestIs ==
    ASSUME NEW ks \in SUBSET Nat, ks # {}
    PROVE  Lowest(ks) \in ks /\ \A j \in ks : Lowest(ks) <= j
<1> DEFINE R == {ss \in Nat \X Nat : ss[1] < ss[2]}
<1>1. IsWellFoundedOn(R, Nat)
    BY NatLessThanWellFounded DEF OpToRel
<1>2. PICK x \in ks : \A y \in ks : ~(<<y, x>> \in R)
  <2> HIDE DEF R
  <2> QED
      BY <1>1, WFMin
<1>3. ASSUME NEW y \in ks PROVE x <= y
  <2>1. x \in Nat /\ y \in Nat OBVIOUS
  <2>2. ~(y < x)
    <3> SUFFICES ASSUME y < x PROVE <<y, x>> \in R
        BY <1>2
    <3> QED BY <2>1
  <2> QED BY <2>1, <2>2
<1> QED
    BY <1>3 DEF Lowest

\* What a step that goes over the same items at the same position leaves as it is.
SameLoop(m, l) ==
    /\ m.kind = l.kind /\ m.of = l.of /\ m.with = l.with /\ m.at = l.at
    /\ m.kept = l.kept /\ m.end = l.end /\ m.hurt = l.hurt

\* What an answer to a comparison, and the script code of an item, may be.
LEMMA BoundFields ==
    ASSUME NEW l \in LoopType, NEW arrays
    PROVE  /\ Bound(l, arrays) \in LoopType
           /\ Bound(l, arrays).due = l.due \ {l.at}
           /\ SameLoop(Bound(l, arrays), l)
<1>1. \A v, w : Answers(v, w) \in (SUBSET BOOLEAN) \ {{}}
  <2> SUFFICES ASSUME NEW v, NEW w PROVE Answers(v, w) \in (SUBSET BOOLEAN) \ {{}} OBVIOUS
  <2>1. {v = w} \in (SUBSET BOOLEAN) \ {{}} OBVIOUS
  <2> QED BY <2>1 DEF Answers
<1>2. Compared(l, arrays) \in (SUBSET BOOLEAN) \ {{}}
  <2>1. CASE l.kind = "equal"
      BY <1>1, <2>1 DEF Compared
  <2>2. CASE l.kind = "remove"
      BY <1>1, <2>2 DEF Compared
  <2>3. CASE l.kind # "equal" /\ l.kind # "remove"
      BY <2>3 DEF Compared
  <2> QED BY <2>1, <2>2, <2>3
<1> DEFINE c == Compared(l, arrays)
           s == IF Calls(l, arrays) THEN MaxSteps ELSE 0
<1>3. s \in Nat
    BY BoundsAssumption
<1>4. Bound(l, arrays) = [l EXCEPT !.due = @ \ {l.at}, !.answers = c, !.left = s]
    BY Zenon DEF Bound
<1>5. c \in (SUBSET BOOLEAN) \ {{}}
    BY <1>2
<1> HIDE DEF c, s
<1> DEFINE l1 == [l EXCEPT !.due = @ \ {l.at}]
           l2 == [l1 EXCEPT !.answers = c]
           l3 == [l2 EXCEPT !.left = s]
<1>6. l1 \in LoopType /\ l1.due = l.due \ {l.at} /\ SameLoop(l1, l)
    BY DEF LoopType, SameLoop
<1>7. l2 \in LoopType /\ l2.due = l1.due /\ SameLoop(l2, l1)
  <2> HIDE DEF l1
  <2> QED BY <1>5, <1>6 DEF LoopType, SameLoop
<1>8. l3 \in LoopType /\ l3.due = l2.due /\ SameLoop(l3, l2)
  <2> HIDE DEF l2
  <2> QED BY <1>3, <1>7 DEF LoopType, SameLoop
<1>9. Bound(l, arrays) = l3
    BY <1>4
<1> HIDE DEF l1, l2, l3
<1> QED
    BY <1>6, <1>7, <1>8, <1>9 DEF SameLoop

\* An item that the loop has had is owed no more.
LEMMA BoundGood ==
    ASSUME NEW l, NEW its, NEW ents, NEW arrays, Arriving(l, its, ents)
    PROVE  LoopInv(Bound(l, arrays), its, ents)
<1> DEFINE b == Bound(l, arrays)
<1>1. l \in LoopType /\ b \in LoopType /\ b.due = l.due \ {l.at} /\ SameLoop(b, l)
    BY BoundFields DEF Arriving
<1> HIDE DEF b
<1>2. l.at \in Nat \ {0} /\ l.hurt \in BOOLEAN /\ l.due \in SUBSET Nat
    BY <1>1 DEF SameLoop, LoopType
<1>3. Over(b, its, ents)
    BY <1>1 DEF SameLoop, Arriving, Over
<1>4. ItemLoop(b) => ItemLoopInv(b, its)
    <2> SUFFICES ASSUME ItemLoop(b) PROVE ItemLoopInv(b, its) OBVIOUS
    <2> ItemLoop(l) BY <1>1 DEF SameLoop, ItemLoop
    <2>1. CASE l.hurt
        BY <1>1, <2>1 DEF SameLoop, Arriving, ItemLoopInv
    <2>2. CASE ~l.hurt
      <3>1. \A k \in b.due : k \in l.at..Len(its[l.of]) /\ k # l.at
          BY <1>1, <2>2 DEF SameLoop, Arriving
      <3> QED
          BY <1>1, <1>2, <2>2, <3>1 DEF SameLoop, Arriving, ItemLoopInv
    <2> QED BY <2>1, <2>2
<1>5. b.kind = "equal" => EqualInv(b, its)
    BY <1>1 DEF SameLoop, Arriving, EqualInv
<1>6. b.kind = "remove" => RemoveInv(b, its)
    BY <1>1 DEF SameLoop, Arriving, RemoveInv
<1>7. OverEntries(b.kind) => EntryLoopInv(b, ents)
    BY <1>1, <1>2 DEF SameLoop, Arriving, EntryLoopInv
<1> QED
    BY <1>1, <1>3, <1>4, <1>5, <1>6, <1>7 DEF LoopInv, b

--------------------------------------------------------------------------------
\* Only left changes when a statement has been executed.
SpentOf(l) == [l EXCEPT !.left = @ - 1]

LEMMA SpentOfGood ==
    ASSUME NEW l, NEW its, NEW ents, LoopInv(l, its, ents), l.left > 0
    PROVE  LoopInv(SpentOf(l), its, ents)
<1> DEFINE m == SpentOf(l)
<1>1. l \in LoopType
    BY DEF LoopInv
<1>2. l.left - 1 \in Nat
    BY <1>1 DEF LoopType
<1>3. m \in LoopType /\ m.due = l.due /\ SameLoop(m, l)
    BY <1>1, <1>2 DEF SpentOf, LoopType, SameLoop
<1> HIDE DEF m
<1> SUFFICES LoopInv(m, its, ents)
    BY DEF m
<1> QED
    BY <1>1, <1>3 DEF LoopInv, SameLoop, Over, ItemLoop, ItemLoopInv, EqualInv, RemoveInv,
       EntryLoopInv

LEMMA SpentGood ==
    ASSUME NEW ls, NEW its, NEW ents, AllGood(ls, its, ents),
           ls # <<>> => ls[Len(ls)].left > 0
    PROVE  AllGood(Spent(ls), its, ents) /\ Len(Spent(ls)) = Len(ls)
<1>1. CASE ls = <<>>
    BY <1>1 DEF Spent
<1>2. CASE ls # <<>>
  <2> DEFINE i == Len(ls)
             m == SpentOf(ls[i])
  <2>1. ls \in Seq(LoopType) /\ i \in 1..Len(ls)
      BY <1>2, EmptySeq DEF AllGood
  <2>2. LoopInv(m, its, ents)
      BY <1>2, <2>1, SpentOfGood DEF AllGood
  <2>3. Spent(ls) = [ls EXCEPT ![i] = m]
      BY <1>2 DEF Spent, SpentOf
  <2> HIDE DEF m
  <2>4. m \in LoopType
      BY <2>2 DEF LoopInv
  <2> QED
      BY <2>1, <2>2, <2>3, <2>4, ExceptSeq DEF AllGood
<1> QED
    BY <1>1, <1>2

\* The loops under the innermost one.
LEMMA OuterGood ==
    ASSUME NEW ls, NEW its, NEW ents, AllGood(ls, its, ents), ls # <<>>
    PROVE  /\ AllGood(SubSeq(ls, 1, Len(ls) - 1), its, ents)
           /\ Len(SubSeq(ls, 1, Len(ls) - 1)) = Len(ls) - 1
           /\ Len(ls) \in Nat \ {0}
           /\ LoopInv(ls[Len(ls)], its, ents)
<1> DEFINE o == SubSeq(ls, 1, Len(ls) - 1)
<1>1. ls \in Seq(LoopType) /\ Len(ls) \in Nat \ {0}
    BY EmptySeq DEF AllGood
<1>2. /\ o \in Seq(LoopType) /\ Len(o) = Len(ls) - 1
      /\ \A i \in 1..Len(o) : o[i] = ls[i]
  <2> DEFINE n == Len(ls) - 1
  <2>1. 1 \in Int /\ n \in Int /\ \A i \in 1..n : ls[i] \in LoopType
      BY <1>1, ElementOfSeq
  <2>2. n \in Nat
      BY <1>1
  <2> HIDE DEF n
  <2>3. /\ SubSeq(ls, 1, n) \in Seq(LoopType)
        /\ Len(SubSeq(ls, 1, n)) = IF 1 <= n THEN n - 1 + 1 ELSE 0
        /\ \A i \in 1..(n - 1 + 1) : SubSeq(ls, 1, n)[i] = ls[1 + i - 1]
      BY <2>1, SubSeqProperties
  <2>4. (1 <= n => n - 1 + 1 = n) /\ (~(1 <= n) => n = 0) /\ n - 1 + 1 = n
      BY <2>2
  <2>5. /\ SubSeq(ls, 1, n) \in Seq(LoopType) /\ Len(SubSeq(ls, 1, n)) = n
        /\ \A i \in 1..n : SubSeq(ls, 1, n)[i] = ls[i]
      BY <2>2, <2>3, <2>4
  <2> QED
      BY <2>5 DEF n
<1> HIDE DEF o
<1>3. ASSUME NEW i \in DOMAIN o PROVE LoopInv(o[i], its, ents)
    BY <1>1, <1>2 DEF AllGood
<1> QED
    BY <1>1, <1>2, <1>3 DEF AllGood, o

LEMMA AppendGood ==
    ASSUME NEW ls, NEW its, NEW ents, AllGood(ls, its, ents), NEW l, LoopInv(l, its, ents)
    PROVE  AllGood(Append(ls, l), its, ents) /\ Len(Append(ls, l)) = Len(ls) + 1
<1>1. ls \in Seq(LoopType) /\ l \in LoopType
    BY DEF AllGood, LoopInv
<1> DEFINE q == Append(ls, l)
<1>2. /\ q \in Seq(LoopType) /\ Len(q) = Len(ls) + 1 /\ q[Len(ls) + 1] = l
      /\ \A i \in 1..Len(ls) : q[i] = ls[i]
    BY <1>1, AppendProperties
<1> HIDE DEF q
<1>3. ASSUME NEW i \in DOMAIN q PROVE LoopInv(q[i], its, ents)
    BY <1>1, <1>2 DEF AllGood
<1> QED
    BY <1>2, <1>3 DEF AllGood, q

\* A loop that comes to an item, where the code reaches it.
LEMMA VisitGood ==
    ASSUME NEW under, NEW l, NEW arrays, NEW its, NEW ents,
           AllGood(under, its, ents), Len(under) < MaxLoops, Arriving(l, its, ents),
           Visit(under, l, arrays)
    PROVE  \/ /\ AllGood(loops', its, ents) /\ Len(loops') = Len(under) + 1
              /\ Len(loops') <= MaxLoops /\ status' = status
           \/ loops' = loops /\ status' \in {"thrown", "no_text"}
<1>1. CASE Throws(l, arrays) \/ NoText(l, arrays)
    BY <1>1 DEF Visit
<1>2. CASE ~Throws(l, arrays) /\ ~NoText(l, arrays)
  <2>1. loops' = Append(under, Bound(l, arrays)) /\ status' = status
      BY <1>2 DEF Visit
  <2>2. LoopInv(Bound(l, arrays), its, ents)
      BY BoundGood
  <2>3. Len(under) \in Nat /\ MaxLoops \in Nat
      BY BoundsAssumption, LenProperties DEF AllGood
  <2> QED
      BY <2>1, <2>2, <2>3, AppendGood
<1> QED
    BY <1>1, <1>2

--------------------------------------------------------------------------------
(***************************************************************************)
(* What a statement does to the loops that are under way.                  *)
(***************************************************************************)
SameSizes(its, its2) == \A a \in DOMAIN its : a \in DOMAIN its2 /\ Len(its2[a]) = Len(its[a])
NoFewerKeys(ents, ents2) ==
    \A d \in DOMAIN ents : d \in DOMAIN ents2 /\ DOMAIN ents[d] \subseteq DOMAIN ents2[d]

\* Assigned items, new arrays and new entries disturb no loop.
LEMMA UndisturbedGood ==
    ASSUME NEW ls, NEW its, NEW ents, NEW its2, NEW ents2,
           AllGood(ls, its, ents), SameSizes(its, its2), NoFewerKeys(ents, ents2)
    PROVE  AllGood(ls, its2, ents2)
<1>1. ASSUME NEW n \in DOMAIN ls PROVE LoopInv(ls[n], its2, ents2)
  <2> DEFINE l == ls[n]
  <2>1. LoopInv(l, its, ents)
      BY DEF AllGood
  <2> HIDE DEF l
  <2>2. OverEntries(l.kind) => ~ItemLoop(l) /\ l.kind # "equal" /\ l.kind # "remove"
      BY DEF OverEntries, ItemLoop
  <2>3. Over(l, its2, ents2)
      BY <2>1 DEF LoopInv, Over, SameSizes, NoFewerKeys
  <2>4. ItemLoop(l) => ItemLoopInv(l, its2)
      BY <2>1, <2>2 DEF LoopInv, Over, SameSizes, ItemLoopInv
  <2>5. l.kind = "equal" => EqualInv(l, its2)
      BY <2>1, <2>2 DEF LoopInv, Over, SameSizes, EqualInv
  <2>6. l.kind = "remove" => RemoveInv(l, its2)
      BY <2>1, <2>2 DEF LoopInv, Over, SameSizes, RemoveInv
  <2>7. OverEntries(l.kind) => EntryLoopInv(l, ents2)
      BY <2>1 DEF LoopInv, Over, NoFewerKeys, EntryLoopInv
  <2> QED
      BY <2>1, <2>3, <2>4, <2>5, <2>6, <2>7 DEF LoopInv, l
<1> QED
    BY <1>1 DEF AllGood

\* A statement that changes every loop in its own way.
LEMMA EachGood ==
    ASSUME NEW ls \in Seq(LoopType), NEW f, NEW its, NEW ents,
           f = [n \in DOMAIN ls |-> f[n]],
           \A n \in DOMAIN ls : LoopInv(f[n], its, ents)
    PROVE  AllGood(f, its, ents) /\ Len(f) = Len(ls)
<1>1. Len(ls) \in Nat /\ DOMAIN ls = 1..Len(ls)
    BY LenProperties
<1>2. f \in [1..Len(ls) -> LoopType]
    BY <1>1 DEF LoopInv
<1>3. f \in Seq(LoopType)
    BY <1>1, <1>2, SeqDef
<1>4. Len(f) = Len(ls)
    BY <1>1, <1>2, <1>3, LenProperties
<1> QED
    BY <1>1, <1>3, <1>4, LenProperties DEF AllGood

\* An entry loop goes over no array.
LEMMA ApartFrom ==
    ASSUME Data, NEW l, LoopInv(l, items, entries)
    PROVE  /\ OverEntries(l.kind) => /\ ~ItemLoop(l) /\ l.kind # "equal" /\ l.kind # "remove"
                                     /\ l.of \in DOMAIN entries
                                     /\ \A a \in DOMAIN items : l.of # a
           /\ ~OverEntries(l.kind) => /\ l.of \in DOMAIN items
                                      /\ \A d \in DOMAIN entries : l.of # d
           /\ ItemLoop(l) => ~OverEntries(l.kind) /\ l.kind # "equal" /\ l.kind # "remove"
           /\ l.kind \in {"equal", "remove"} => ~OverEntries(l.kind) /\ ~ItemLoop(l)
           /\ l \in LoopType
<1>1. \A a \in DOMAIN items, d \in DOMAIN entries : a # d
    BY ContainersAssumption DEF Data, ItemsType, EntriesType
<1> QED
    BY <1>1 DEF LoopInv, Over, OverEntries, ItemLoop

\* The last part of an array is a part of the grown array and the place after it.
LEMMA GrownRange ==
    ASSUME NEW i \in Nat, NEW n \in Nat
    PROVE  (i + 1)..n \subseteq (i + 1)..(n + 1) /\ (i <= n => n + 1 \in (i + 1)..(n + 1))
OBVIOUS

GrownLoop(l, a, moved) ==
    IF l.of = a /\ l.kind \in {"foreach", "text", "join"}
    THEN [l EXCEPT !.due = IF l.hurt THEN {} ELSE @ \cup {Len(items[a]) + 1},
                   !.valid = @ /\ ~(moved /\ l.kind = "text")]
    ELSE IF l.of = a /\ l.kind = "remove" THEN [l EXCEPT !.valid = @ /\ ~moved]
    ELSE IF l.of = a /\ l.kind = "equal" THEN [l EXCEPT !.hurt = TRUE]
    ELSE l

\* A pushed item is owed by the loops over the array; equal is hurt on its left side.
LEMMA GrownLoopGood ==
    ASSUME Data, NEW l, LoopInv(l, items, entries), NEW a \in DOMAIN items, NEW moved \in BOOLEAN,
           NEW its, DOMAIN its = DOMAIN items,
           Len(its[a]) = Len(items[a]) + 1,
           \A b \in DOMAIN items : b # a => its[b] = items[b]
    PROVE  LoopInv(GrownLoop(l, a, moved), its, entries)
           /\ GrownLoop(l, a, moved).left = l.left
<1>1. l \in LoopType /\ Len(items[a]) \in Nat
    BY LenProperties DEF LoopInv, Data, ItemsType
<1>2. CASE l.of = a /\ ItemLoop(l)
  <2> DEFINE due == IF l.hurt THEN {} ELSE l.due \cup {Len(items[a]) + 1}
             valid == l.valid /\ ~(moved /\ l.kind = "text")
             l1 == [l EXCEPT !.due = due]
             l2 == [l1 EXCEPT !.valid = valid]
  <2>1. due \in SUBSET Nat /\ valid \in BOOLEAN
      BY <1>1 DEF LoopType
  <2> HIDE DEF due, valid
  <2>2. l1 \in LoopType /\ l1.due = due /\ SameLoop(l1, l) /\ l1.left = l.left
      BY <1>1, <2>1 DEF LoopType, SameLoop
  <2>3. l2 \in LoopType /\ l2.due = due /\ SameLoop(l2, l1) /\ l2.left = l1.left
    <3> HIDE DEF l1
    <3> QED BY <2>1, <2>2 DEF LoopType, SameLoop
  <2>4. GrownLoop(l, a, moved) = l2
      BY <1>2 DEF GrownLoop, ItemLoop, due, valid
  <2> HIDE DEF l1, l2
  <2>5. l.at \in Nat \ {0} /\ l.hurt \in BOOLEAN
      BY <1>1 DEF LoopType
  <2>6. l2.kind = l.kind /\ l2.of = a /\ l2.hurt = l.hurt /\ l2.at = l.at /\ l2.due = due
      BY <1>2, <2>2, <2>3 DEF SameLoop
  <2>7. ItemLoopInv(l2, its)
    <3>1. CASE l.hurt
        BY <2>6, <3>1 DEF ItemLoopInv, due
    <3>2. CASE ~l.hurt
      <4>1. l.at <= Len(items[a]) /\ l.due \subseteq (l.at + 1)..Len(items[a])
          BY <1>2, <3>2 DEF LoopInv, ItemLoopInv
      <4>2. due \subseteq (l.at + 1)..(Len(items[a]) + 1)
          BY <1>1, <2>5, <3>2, <4>1, GrownRange DEF due
      <4> QED
          BY <1>1, <2>5, <2>6, <3>2, <4>1, <4>2 DEF ItemLoopInv
    <3> QED BY <2>5, <3>1, <3>2
  <2> QED
      BY <1>2, <2>2, <2>3, <2>4, <2>6, <2>7, ApartFrom DEF LoopInv, Over, ItemLoop
<1>3. CASE l.of = a /\ l.kind = "remove"
  <2> DEFINE valid == l.valid /\ ~moved
             m == [l EXCEPT !.valid = valid]
  <2>1. valid \in BOOLEAN
      BY <1>1 DEF LoopType
  <2> HIDE DEF valid
  <2>2. m \in LoopType /\ m.due = l.due /\ SameLoop(m, l) /\ m.left = l.left
      BY <1>1, <2>1 DEF LoopType, SameLoop
  <2>3. GrownLoop(l, a, moved) = m
      BY <1>3 DEF GrownLoop, valid
  <2> HIDE DEF m
  <2>4. RemoveInv(l, items) /\ l.end \in Nat
      BY <1>1, <1>3 DEF LoopInv, LoopType
  <2>5. RemoveInv(m, its)
      BY <1>1, <1>3, <2>2, <2>4 DEF RemoveInv, SameLoop
  <2> QED
      BY <1>3, <2>2, <2>3, <2>5, ApartFrom DEF LoopInv, Over, SameLoop, ItemLoop
<1>4. CASE l.of = a /\ l.kind = "equal"
  <2> DEFINE m == [l EXCEPT !.hurt = TRUE]
  <2>1. /\ m \in LoopType /\ m.due = l.due /\ m.kind = l.kind /\ m.of = l.of /\ m.with = l.with
        /\ m.hurt = TRUE /\ m.left = l.left
      BY <1>1 DEF LoopType
  <2>2. GrownLoop(l, a, moved) = m
      BY <1>4 DEF GrownLoop
  <2> HIDE DEF m
  <2>3. EqualInv(m, its)
      BY <1>4, <2>1 DEF LoopInv, EqualInv
  <2> QED
      BY <1>4, <2>1, <2>2, <2>3, ApartFrom DEF LoopInv, Over, ItemLoop
<1>5. CASE l.of # a
  <2>1. GrownLoop(l, a, moved) = l
      BY <1>5 DEF GrownLoop
  <2>2. l.kind = "equal" => EqualInv(l, its)
    <3> SUFFICES ASSUME l.kind = "equal" PROVE EqualInv(l, its) OBVIOUS
    <3>1. EqualInv(l, items) /\ its[l.of] = items[l.of] /\ l.of \in DOMAIN items
        BY <1>5, ApartFrom DEF LoopInv
    <3>2. \A b \in DOMAIN items : Len(items[b]) \in Nat
        BY LenProperties DEF Data, ItemsType
    <3> QED
        BY <3>1, <3>2 DEF EqualInv
  <2>3. ItemLoop(l) => ItemLoopInv(l, its)
      BY <1>5, ApartFrom DEF LoopInv, ItemLoopInv
  <2>4. l.kind = "remove" => RemoveInv(l, its)
      BY <1>5, ApartFrom DEF LoopInv, RemoveInv
  <2> QED
      BY <1>1, <2>1, <2>2, <2>3, <2>4 DEF LoopInv, Over
<1>6. CASE l.of = a /\ ~ItemLoop(l) /\ l.kind # "remove" /\ l.kind # "equal"
    BY <1>1, <1>6, ApartFrom DEF LoopType, OverEntries, ItemLoop
<1> QED
    BY <1>2, <1>3, <1>4, <1>5, <1>6

LostLoop(l, a) == IF Goes(l, a) THEN [l EXCEPT !.due = {}, !.hurt = TRUE] ELSE l

\* Items of a have gone: the loops that go over it are hurt, no other one notices.
LEMMA LostLoopGood ==
    ASSUME Data, NEW l, LoopInv(l, items, entries), NEW a \in DOMAIN items,
           NEW its, DOMAIN its = DOMAIN items,
           \A b \in DOMAIN items : b # a => its[b] = items[b]
    PROVE  LoopInv(LostLoop(l, a), its, entries) /\ LostLoop(l, a).left = l.left
<1>1. l \in LoopType
    BY DEF LoopInv
<1>2. CASE Goes(l, a)
  <2> DEFINE l1 == [l EXCEPT !.due = {}]
             l2 == [l1 EXCEPT !.hurt = TRUE]
  <2>1. /\ l1 \in LoopType /\ l1.due = {} /\ l1.kind = l.kind /\ l1.of = l.of
        /\ l1.with = l.with /\ l1.at = l.at /\ l1.kept = l.kept /\ l1.end = l.end
        /\ l1.left = l.left
      BY <1>1 DEF LoopType
  <2> HIDE DEF l1
  <2>2. /\ l2 \in LoopType /\ l2.due = {} /\ l2.kind = l.kind /\ l2.of = l.of
        /\ l2.with = l.with /\ l2.at = l.at /\ l2.kept = l.kept /\ l2.end = l.end
        /\ l2.hurt = TRUE /\ l2.left = l.left
      BY <2>1 DEF LoopType
  <2>3. LostLoop(l, a) = l2
      BY <1>2 DEF LostLoop, l1
  <2> HIDE DEF l2
  <2>4. ItemLoop(l2) => ItemLoopInv(l2, its)
      BY <2>2 DEF ItemLoopInv
  <2>5. l.kind = "equal" => EqualInv(l2, its)
      BY <2>2 DEF LoopInv, EqualInv
  <2>6. l.kind = "remove" => RemoveInv(l2, its)
      BY <2>2 DEF LoopInv, RemoveInv
  <2>7. ~OverEntries(l.kind)
      BY <1>2, ApartFrom DEF Goes
  <2> QED
      BY <2>2, <2>3, <2>4, <2>5, <2>6, <2>7, ApartFrom DEF LoopInv, Over
<1>3. CASE ~Goes(l, a)
  <2>1. LostLoop(l, a) = l /\ l.of # a /\ (l.kind = "equal" => l.with # a)
      BY <1>3 DEF LostLoop, Goes
  <2>2. ItemLoop(l) => ItemLoopInv(l, its)
      BY <2>1, ApartFrom DEF LoopInv, ItemLoopInv
  <2>3. l.kind = "equal" => EqualInv(l, its)
      BY <2>1, ApartFrom DEF LoopInv, EqualInv
  <2>4. l.kind = "remove" => RemoveInv(l, its)
      BY <2>1, ApartFrom DEF LoopInv, RemoveInv
  <2> QED
      BY <2>1, <2>2, <2>3, <2>4 DEF LoopInv, Over
<1> QED
    BY <1>2, <1>3

LEMMA LostGood ==
    ASSUME Data, NEW ls, AllGood(ls, items, entries), NEW a \in DOMAIN items,
           NEW its, DOMAIN its = DOMAIN items,
           \A b \in DOMAIN items : b # a => its[b] = items[b]
    PROVE  /\ AllGood(Lost(ls, a), its, entries) /\ Len(Lost(ls, a)) = Len(ls)
           /\ \A n \in DOMAIN ls : Lost(ls, a)[n].left = ls[n].left
<1> DEFINE f == [n \in DOMAIN ls |-> LostLoop(ls[n], a)]
<1>1. Lost(ls, a) = f
    BY Zenon DEF Lost, LostLoop
<1>2. \A n \in DOMAIN ls : LoopInv(f[n], its, entries) /\ f[n].left = ls[n].left
    BY LostLoopGood DEF AllGood
<1>3. f = [n \in DOMAIN ls |-> f[n]] /\ ls \in Seq(LoopType)
    BY DEF AllGood
<1> HIDE DEF f
<1> QED
    BY <1>1, <1>2, <1>3, EachGood

\* A pushed item, and the loops that are under way.
LEMMA GrownGood ==
    ASSUME Data, AllGood(loops, items, entries), NEW a \in DOMAIN items, NEW moved \in BOOLEAN,
           NEW its, DOMAIN its = DOMAIN items,
           Len(its[a]) = Len(items[a]) + 1,
           \A b \in DOMAIN items : b # a => its[b] = items[b]
    PROVE  /\ AllGood(Grown(a, moved), its, entries) /\ Len(Grown(a, moved)) = Len(loops)
           /\ \A n \in DOMAIN loops : Grown(a, moved)[n].left = loops[n].left
<1> DEFINE f == [n \in DOMAIN loops |-> GrownLoop(loops[n], a, moved)]
<1>1. Grown(a, moved) = f
    BY Zenon DEF Grown, GrownLoop
<1>2. \A n \in DOMAIN loops : LoopInv(f[n], its, entries) /\ f[n].left = loops[n].left
    BY GrownLoopGood DEF AllGood
<1>3. f = [n \in DOMAIN loops |-> f[n]] /\ loops \in Seq(LoopType)
    BY DEF AllGood
<1> HIDE DEF f
<1> QED
    BY <1>1, <1>2, <1>3, EachGood

ErasedLoop(l, d, ks) ==
    IF l.of = d THEN [l EXCEPT !.due = @ \ ks, !.valid = @ /\ l.at \notin ks] ELSE l

\* The dictionaries, with ks taken out of one.
Without(d, ks, ents) ==
    /\ DOMAIN ents = DOMAIN entries /\ DOMAIN ents[d] = DOMAIN entries[d] \ ks
    /\ \A e \in DOMAIN entries : e # d => ents[e] = entries[e]

\* Erased keys are owed no more.
LEMMA ErasedGood ==
    ASSUME Data, AllGood(loops, items, entries), NEW d \in DOMAIN entries, NEW ks,
           NEW ents, Without(d, ks, ents)
    PROVE  /\ AllGood(Erased(d, ks), items, ents) /\ Len(Erased(d, ks)) = Len(loops)
           /\ \A n \in DOMAIN loops : Erased(d, ks)[n].left = loops[n].left
<1> DEFINE f == [n \in DOMAIN loops |-> ErasedLoop(loops[n], d, ks)]
<1>1. Erased(d, ks) = f
    BY Zenon DEF Erased, ErasedLoop
<1>2. ASSUME NEW l, LoopInv(l, items, entries)
      PROVE  LoopInv(ErasedLoop(l, d, ks), items, ents) /\ ErasedLoop(l, d, ks).left = l.left
  <2>1. l \in LoopType
      BY <1>2 DEF LoopInv
  <2>2. CASE l.of = d
    <3> DEFINE valid == l.valid /\ l.at \notin ks
               l1 == [l EXCEPT !.due = @ \ ks]
               l2 == [l1 EXCEPT !.valid = valid]
    <3>1. valid \in BOOLEAN
        BY <2>1 DEF LoopType
    <3> HIDE DEF valid
    <3>2. l1 \in LoopType /\ l1.due = l.due \ ks /\ SameLoop(l1, l) /\ l1.left = l.left
        BY <2>1 DEF LoopType, SameLoop
    <3> HIDE DEF l1
    <3>3. l2 \in LoopType /\ l2.due = l1.due /\ SameLoop(l2, l1) /\ l2.left = l1.left
        BY <3>1, <3>2 DEF LoopType, SameLoop
    <3>4. ErasedLoop(l, d, ks) = l2
        BY <2>2 DEF ErasedLoop, l1, valid
    <3> HIDE DEF l2
    <3>5. OverEntries(l.kind)
        BY <1>2, <2>2, ApartFrom
    <3>6. l2.due = l.due \ ks /\ SameLoop(l2, l)
        BY <3>2, <3>3 DEF SameLoop
    <3>7. EntryLoopInv(l2, ents)
        BY <1>2, <2>2, <3>5, <3>6 DEF LoopInv, EntryLoopInv, SameLoop, Without
    <3> QED
        BY <1>2, <2>2, <3>2, <3>3, <3>4, <3>5, <3>6, <3>7, ApartFrom
        DEF LoopInv, Over, SameLoop, ItemLoop, Without
  <2>3. CASE l.of # d
    <3>1. ErasedLoop(l, d, ks) = l
        BY <2>3 DEF ErasedLoop
    <3>2. OverEntries(l.kind) => EntryLoopInv(l, ents)
        BY <1>2, <2>3, ApartFrom DEF LoopInv, EntryLoopInv, Without
    <3> QED
        BY <1>2, <3>1, <3>2 DEF LoopInv, Over, Without
  <2> QED
      BY <2>2, <2>3
<1>3. \A n \in DOMAIN loops : LoopInv(f[n], items, ents) /\ f[n].left = loops[n].left
    BY <1>2 DEF AllGood
<1>4. f = [n \in DOMAIN loops |-> f[n]] /\ loops \in Seq(LoopType)
    BY DEF AllGood
<1> HIDE DEF f
<1> QED
    BY <1>1, <1>3, <1>4, EachGood

--------------------------------------------------------------------------------
(***************************************************************************)
(* Statements of script code preserve the invariant.                       *)
(***************************************************************************)
Statuses == {"ok", "bad_index", "empty", "thrown", "no_text"}

\* Statements begin loops, and end none.
NoneEnds == ContainersInv' /\ Len(loops') >= Len(loops)

LEMMA StepDone ==
    ASSUME Data', AllGood(loops, items, entries)', Len(loops') <= MaxLoops,
           Len(loops') >= Len(loops), status' \in Statuses
    PROVE  NoneEnds
BY DEF NoneEnds, ContainersInv, LoopsInv, StatusInv, OnlyDisturbedFails, Statuses

\* Before a statement.
LEMMA ActingGood ==
    ASSUME ContainersInv, Acting
    PROVE  /\ AllGood(loops, items, entries) /\ Data /\ status = "ok" /\ Len(loops) <= MaxLoops
           /\ loops # <<>> => loops[Len(loops)].left > 0
           /\ AllGood(Spent(loops), items, entries) /\ Len(Spent(loops)) = Len(loops)
           /\ Len(loops) \in Nat /\ Len(Spent(loops)) >= Len(loops)
<1>1. loops # <<>> => loops[Len(loops)].left > 0
    BY DEF Acting, Inner
<1>2. AllGood(loops, items, entries)
    BY DEF ContainersInv, LoopsInv
<1>3. AllGood(Spent(loops), items, entries) /\ Len(Spent(loops)) = Len(loops)
    BY <1>1, <1>2, SpentGood
<1>4. Len(loops) \in Nat
    BY <1>2, LenProperties DEF AllGood
<1> QED
    BY <1>1, <1>2, <1>3, <1>4 DEF ContainersInv, LoopsInv, Acting

\* A statement that changes the loops in the way of ls.
LEMMA ChangedGood ==
    ASSUME ContainersInv, Acting, NEW ls, NEW its, NEW ents,
           AllGood(ls, its, ents), Len(ls) = Len(loops),
           \A n \in DOMAIN loops : ls[n].left = loops[n].left
    PROVE  /\ AllGood(Spent(ls), its, ents) /\ Len(Spent(ls)) <= MaxLoops
           /\ Len(Spent(ls)) >= Len(loops)
<1>1. /\ loops \in Seq(LoopType) /\ Len(loops) <= MaxLoops /\ Len(loops) \in Nat
      /\ loops # <<>> => loops[Len(loops)].left > 0
    BY ActingGood DEF AllGood
<1>2. ls \in Seq(LoopType)
    BY DEF AllGood
<1>3. ls # <<>> => ls[Len(ls)].left > 0
    BY <1>1, <1>2, EmptySeq, LenProperties
<1> QED
    BY <1>1, <1>3, SpentGood

LEMMA ValueOfPuts ==
    ASSUME NEW c \in Arrays \cup Dictionaries, NEW v \in Puts[c]
    PROVE  v \in Value
BY PutsAssumption

LEMMA PushKeeps ==
    ASSUME ContainersInv, NEW a \in DOMAIN items, NEW v \in Puts[a], Push(a, v)
    PROVE  NoneEnds
<1>1. Acting /\ Data /\ AllGood(loops, items, entries) /\ status = "ok"
    BY ActingGood DEF Push
<1>2. a \in Arrays /\ items[a] \in Seq(Value) /\ v \in Value /\ Len(items[a]) < MaxLen[a]
    BY <1>1, ValueOfPuts DEF Data, ItemsType, Push
<1>3. items' = [items EXCEPT ![a] = Append(@, v)] /\ UNCHANGED <<entries, status>>
    BY DEF Push
<1>4. PICK moved \in BOOLEAN : loops' = Spent(Grown(a, moved))
    BY DEF Push
<1>5. Append(items[a], v) \in Seq(Value) /\ Len(Append(items[a], v)) = Len(items[a]) + 1
    BY <1>2, AppendProperties
<1>6. /\ DOMAIN items' = DOMAIN items /\ items'[a] = Append(items[a], v)
      /\ \A b \in DOMAIN items : b # a => items'[b] = items[b]
    BY <1>3
<1>7. Len(items[a]) \in Nat /\ MaxLen[a] \in Nat
    BY <1>2, BoundsAssumption, LenProperties
<1>8. Data'
    BY <1>1, <1>2, <1>3, <1>5, <1>6, <1>7 DEF Data, ItemsType, EntriesType
<1>9. AllGood(loops, items, entries)' /\ Len(loops') <= MaxLoops
      /\ Len(loops') >= Len(loops)
    BY <1>1, <1>3, <1>4, <1>5, <1>6, GrownGood, ChangedGood
<1> QED
    BY <1>1, <1>3, <1>8, <1>9, StepDone DEF Statuses

LEMMA SetItemKeeps ==
    ASSUME ContainersInv, NEW a \in DOMAIN items, NEW i, NEW v \in Puts[a], SetItem(a, i, v)
    PROVE  NoneEnds
<1>1. Acting /\ Data /\ AllGood(Spent(loops), items, entries) /\ Len(Spent(loops)) <= MaxLoops
      /\ Len(Spent(loops)) >= Len(loops)
      /\ status = "ok"
    BY ActingGood DEF SetItem
<1>2. a \in Arrays /\ items[a] \in Seq(Value) /\ v \in Value /\ i \in 1..Len(items[a])
    BY <1>1, ValueOfPuts DEF Data, ItemsType, SetItem
<1> DEFINE q == [items[a] EXCEPT ![i] = v]
<1>3. items' = [items EXCEPT ![a] = q] /\ loops' = Spent(loops) /\ UNCHANGED <<entries, status>>
    BY DEF SetItem
<1>4. q \in Seq(Value) /\ Len(q) = Len(items[a])
    BY <1>2, ExceptSeq
<1> HIDE DEF q
<1>5. /\ DOMAIN items' = DOMAIN items /\ items'[a] = q
      /\ \A b \in DOMAIN items : b # a => items'[b] = items[b]
    BY <1>3
<1>6. Data'
    BY <1>1, <1>3, <1>4, <1>5 DEF Data, ItemsType, EntriesType
<1>7. SameSizes(items, items') /\ NoFewerKeys(entries, entries')
    BY <1>3, <1>4, <1>5 DEF SameSizes, NoFewerKeys
<1>8. AllGood(Spent(loops), items', entries')
    BY <1>1, <1>7, UndisturbedGood
<1> QED
    BY <1>1, <1>3, <1>6, <1>8, StepDone DEF Statuses

LEMMA ClearKeeps ==
    ASSUME ContainersInv, NEW a \in DOMAIN items, Clear(a)
    PROVE  NoneEnds
<1>1. Acting /\ Data /\ AllGood(loops, items, entries) /\ status = "ok"
    BY ActingGood DEF Clear
<1>2. /\ items' = [items EXCEPT ![a] = <<>>] /\ loops' = Spent(Lost(loops, a))
      /\ UNCHANGED <<entries, status>>
    BY DEF Clear
<1>3. /\ DOMAIN items' = DOMAIN items /\ items'[a] = <<>>
      /\ \A b \in DOMAIN items : b # a => items'[b] = items[b]
    BY <1>2
<1>4. <<>> \in Seq(Value) /\ Len(<<>>) = 0 /\ MaxLen[a] \in Nat
    BY <1>1, BoundsAssumption, EmptySeq DEF Data, ItemsType
<1>5. Data'
    BY <1>1, <1>2, <1>3, <1>4 DEF Data, ItemsType, EntriesType
<1>6. AllGood(Spent(Lost(loops, a)), items', entries') /\ Len(loops') <= MaxLoops
      /\ Len(loops') >= Len(loops)
    BY <1>1, <1>2, <1>3, LostGood, ChangedGood
<1> QED
    BY <1>1, <1>2, <1>5, <1>6, StepDone DEF Statuses

LEMMA NewArrayKeeps ==
    ASSUME ContainersInv, NEW b, NEW q \in Seq(Value), NewArray(b, q)
    PROVE  NoneEnds
<1>1. Acting /\ Data /\ AllGood(Spent(loops), items, entries) /\ Len(Spent(loops)) <= MaxLoops
      /\ Len(Spent(loops)) >= Len(loops)
      /\ status = "ok"
    BY ActingGood DEF NewArray
<1>2. /\ b \in Arrays \ DOMAIN items /\ Len(q) <= MaxLen[b]
      /\ items' = [a \in DOMAIN items \cup {b} |-> IF a = b THEN q ELSE items[a]]
      /\ loops' = Spent(loops) /\ UNCHANGED <<entries, status>>
    BY DEF NewArray
<1>3. Data'
    BY <1>1, <1>2 DEF Data, ItemsType, EntriesType
<1>4. SameSizes(items, items') /\ NoFewerKeys(entries, entries')
    BY <1>2 DEF SameSizes, NoFewerKeys
<1>5. AllGood(Spent(loops), items', entries')
    BY <1>1, <1>4, UndisturbedGood
<1> QED
    BY <1>1, <1>2, <1>3, <1>5, StepDone DEF Statuses

LEMMA ReversedType ==
    ASSUME NEW q \in Seq(Value)
    PROVE  Reversed(q) \in Seq(Value)
<1>1. Len(q) \in Nat /\ \A i \in 1..Len(q) : Len(q) + 1 - i \in 1..Len(q)
    BY LenProperties
<1>2. Reversed(q) \in [1..Len(q) -> Value]
    BY <1>1, ElementOfSeq DEF Reversed
<1> QED
    BY <1>1, <1>2, SeqDef

\* SetEntry and GetEntry: an entry is written or made.
LEMMA PutKeeps ==
    ASSUME ContainersInv, Acting, NEW d \in DOMAIN entries, NEW k \in Keys, NEW v \in Value,
           entries' = [entries EXCEPT ![d] = Put(k, v, @)], loops' = Spent(loops),
           UNCHANGED <<items, status>>
    PROVE  NoneEnds
<1>1. Data /\ AllGood(Spent(loops), items, entries) /\ Len(Spent(loops)) <= MaxLoops
      /\ Len(Spent(loops)) >= Len(loops)
      /\ status = "ok"
    BY ActingGood
<1> DEFINE p == Put(k, v, entries[d])
<1>2. p \in [DOMAIN p -> Value] /\ DOMAIN p = DOMAIN entries[d] \cup {k}
    BY <1>1 DEF Put, Data, EntriesType
<1> HIDE DEF p
<1>3. /\ DOMAIN entries' = DOMAIN entries /\ entries'[d] = p
      /\ \A e \in DOMAIN entries : e # d => entries'[e] = entries[e]
    BY DEF p
<1>4. Data'
    BY <1>1, <1>2, <1>3 DEF Data, ItemsType, EntriesType
<1>5. SameSizes(items, items') /\ NoFewerKeys(entries, entries')
    BY <1>2, <1>3 DEF SameSizes, NoFewerKeys
<1>6. AllGood(Spent(loops), items', entries')
    BY <1>1, <1>5, UndisturbedGood
<1> QED
    BY <1>1, <1>4, <1>6, StepDone DEF Statuses

LEMMA EraseKeeps ==
    ASSUME ContainersInv, NEW d \in DOMAIN entries, NEW ks, EraseEntries(d, ks)
    PROVE  NoneEnds
<1>1. Acting /\ Data /\ AllGood(loops, items, entries) /\ status = "ok"
    BY ActingGood DEF EraseEntries
<1> DEFINE p == [k \in DOMAIN entries[d] \ ks |-> entries[d][k]]
<1>2. /\ entries' = [entries EXCEPT ![d] = p] /\ loops' = Spent(Erased(d, ks))
      /\ UNCHANGED <<items, status>>
    BY DEF EraseEntries
<1>3. p \in [DOMAIN p -> Value] /\ DOMAIN p = DOMAIN entries[d] \ ks
    BY <1>1 DEF Data, EntriesType
<1> HIDE DEF p
<1>4. /\ DOMAIN entries' = DOMAIN entries /\ entries'[d] = p
      /\ \A e \in DOMAIN entries : e # d => entries'[e] = entries[e]
    BY <1>2
<1>5. Data'
    BY <1>1, <1>2, <1>3, <1>4 DEF Data, ItemsType, EntriesType
<1>6. Without(d, ks, entries')
    BY <1>3, <1>4 DEF Without
<1>7. /\ AllGood(Erased(d, ks), items, entries') /\ Len(Erased(d, ks)) = Len(loops)
      /\ \A n \in DOMAIN loops : Erased(d, ks)[n].left = loops[n].left
    BY <1>1, <1>6, ErasedGood
<1>8. AllGood(Spent(Erased(d, ks)), items', entries') /\ Len(loops') <= MaxLoops
      /\ Len(loops') >= Len(loops)
    BY <1>1, <1>2, <1>7, ChangedGood
<1> QED
    BY <1>1, <1>2, <1>5, <1>8, StepDone DEF Statuses

--------------------------------------------------------------------------------
(***************************************************************************)
(* Loops begin.                                                            *)
(***************************************************************************)
LEMMA BeginKeeps ==
    ASSUME ContainersInv, Acting, NEW kind, Room(kind), NEW l, Arriving(l, items, entries),
           Begin(l), UNCHANGED <<items, entries>>
    PROVE  NoneEnds
<1>1. /\ AllGood(loops, items, entries) /\ Data /\ status = "ok" /\ Len(loops) <= MaxLoops
      /\ AllGood(Spent(loops), items, entries) /\ Len(Spent(loops)) < MaxLoops
      /\ Len(loops) \in Nat /\ Len(Spent(loops)) = Len(loops)
    BY ActingGood DEF Room
<1>2. Visit(Spent(loops), l, items)
    BY DEF Begin
<1>3. \/ /\ AllGood(loops', items, entries) /\ Len(loops') <= MaxLoops /\ status' = status
         /\ Len(loops') = Len(loops) + 1
      \/ loops' = loops /\ status' \in {"thrown", "no_text"}
    BY <1>1, <1>2, VisitGood
<1>4. Data'
    BY <1>1 DEF Data, ItemsType, EntriesType
<1> QED
    BY <1>1, <1>3, <1>4, StepDone DEF Statuses

\* A status of its own, and nothing else.
LEMMA StopsKeeps ==
    ASSUME ContainersInv, status' \in Statuses, UNCHANGED <<items, entries, loops>>
    PROVE  NoneEnds
<1>1. Data' /\ AllGood(loops, items, entries)' /\ Len(loops') <= MaxLoops
      /\ Len(loops) \in Nat
    BY LenProperties DEF ContainersInv, Data, ItemsType, EntriesType, LoopsInv, AllGood
<1> QED
    BY <1>1, StepDone

Kinds == {"foreach", "text", "join", "equal", "remove", "entries", "entry_texts"}

\* What a new loop may answer.
LEMMA TrueAnswer == {TRUE} \in (SUBSET BOOLEAN) \ {{}}
OBVIOUS

\* foreach, to_string and join of an array with items.
LEMMA ItemLoopArrives ==
    ASSUME Data, NEW kind \in {"foreach", "text", "join"}, NEW a \in DOMAIN items,
           items[a] # <<>>
    PROVE  Arriving(Loop(kind, a, None, 1, 0, 1..Len(items[a])), items, entries)
<1> DEFINE l == Loop(kind, a, None, 1, 0, 1..Len(items[a]))
<1>1. Len(items[a]) \in Nat \ {0} /\ a \in Arrays
    BY EmptySeq DEF Data, ItemsType
<1>2. /\ l \in LoopType /\ l.kind = kind /\ l.of = a /\ l.at = 1 /\ l.hurt = FALSE
      /\ l.due = 1..Len(items[a])
  <2>1. /\ kind \in Kinds /\ a \in Arrays \cup Dictionaries /\ 1 \in Nat \ {0} /\ 0 \in Nat
        /\ None \in Arrays \cup Value \cup {None} /\ 1..Len(items[a]) \in SUBSET Nat
      BY <1>1 DEF Kinds
  <2> QED
      BY <2>1, TrueAnswer DEF Loop, LoopType, Kinds
<1> HIDE DEF l
<1> QED
    BY <1>1, <1>2 DEF Arriving, Over, OverEntries, l

\* foreach and to_string of a dictionary with entries.
LEMMA EntryLoopArrives ==
    ASSUME Data, NEW kind \in {"entries", "entry_texts"}, NEW d \in DOMAIN entries,
           DOMAIN entries[d] # {}
    PROVE  Arriving(Loop(kind, d, None, Lowest(DOMAIN entries[d]), 0, DOMAIN entries[d]),
                    items, entries)
<1> DEFINE l == Loop(kind, d, None, Lowest(DOMAIN entries[d]), 0, DOMAIN entries[d])
<1>1. DOMAIN entries[d] \subseteq Nat \ {0} /\ d \in Dictionaries
    BY KeysAssumption DEF Data, EntriesType
<1>2. /\ Lowest(DOMAIN entries[d]) \in DOMAIN entries[d]
      /\ \A k \in DOMAIN entries[d] : Lowest(DOMAIN entries[d]) <= k
    BY <1>1, LowestIs
<1>3. Lowest(DOMAIN entries[d]) \in Nat \ {0}
    BY <1>1, <1>2
<1>4. /\ l \in LoopType /\ l.kind = kind /\ l.of = d /\ l.at = Lowest(DOMAIN entries[d])
      /\ l.due = DOMAIN entries[d]
  <2>1. /\ kind \in Kinds /\ d \in Arrays \cup Dictionaries /\ 0 \in Nat
        /\ None \in Arrays \cup Value \cup {None} /\ DOMAIN entries[d] \in SUBSET Nat
      BY <1>1 DEF Kinds
  <2> QED
      BY <1>3, <2>1, TrueAnswer DEF Loop, LoopType, Kinds
<1> HIDE DEF l
<1>5. l.due \subseteq {k \in DOMAIN entries[l.of] : k >= l.at}
    BY <1>1, <1>2, <1>3, <1>4
<1> QED
    BY <1>4, <1>5 DEF Arriving, Over, OverEntries, ItemLoop, l

LEMMA ForEachKeeps ==
    ASSUME ContainersInv, NEW a \in DOMAIN items, ForEach(a)
    PROVE  NoneEnds
<1>1. CASE items[a] = <<>>
    BY <1>1, StopsKeeps DEF ForEach, Statuses
<1>2. CASE items[a] # <<>>
  <2>1. Data BY DEF ContainersInv
  <2> QED
      BY <1>2, <2>1, ItemLoopArrives, BeginKeeps DEF ForEach
<1> QED
    BY <1>1, <1>2

LEMMA ForEachEntryKeeps ==
    ASSUME ContainersInv, NEW d \in DOMAIN entries, ForEachEntry(d)
    PROVE  NoneEnds
<1>1. CASE DOMAIN entries[d] = {}
    BY <1>1, StopsKeeps DEF ForEachEntry, Statuses
<1>2. CASE DOMAIN entries[d] # {}
  <2>1. Data BY DEF ContainersInv
  <2> QED
      BY <1>2, <2>1, EntryLoopArrives, BeginKeeps DEF ForEachEntry
<1> QED
    BY <1>1, <1>2

LEMMA TextKeeps ==
    ASSUME ContainersInv, NEW kind \in {"text", "join"}, NEW a \in DOMAIN items, Text(kind, a)
    PROVE  NoneEnds
<1>1. Data BY DEF ContainersInv
<1> QED
    BY <1>1, ItemLoopArrives, BeginKeeps DEF Text

LEMMA TextOfEntriesKeeps ==
    ASSUME ContainersInv, NEW d \in DOMAIN entries, TextOfEntries(d)
    PROVE  NoneEnds
<1>1. Data BY DEF ContainersInv
<1> QED
    BY <1>1, EntryLoopArrives, BeginKeeps DEF TextOfEntries

LEMMA EqualKeeps ==
    ASSUME ContainersInv, NEW a \in DOMAIN items, NEW b \in DOMAIN items, Equal(a, b)
    PROVE  NoneEnds
<1> DEFINE l == Loop("equal", a, b, 1, 0, {})
<1>1. Data BY DEF ContainersInv
<1>2. /\ l \in LoopType /\ l.kind = "equal" /\ l.of = a /\ l.with = b /\ l.due = {}
  <2>1. /\ "equal" \in Kinds /\ a \in Arrays \cup Dictionaries /\ 1 \in Nat \ {0} /\ 0 \in Nat
        /\ b \in Arrays \cup Value \cup {None} /\ {} \in SUBSET Nat
      BY <1>1 DEF Kinds, Data, ItemsType
  <2> QED
      BY <2>1, TrueAnswer DEF Loop, LoopType, Kinds
<1>3. /\ Acting /\ Room("equal") /\ Begin(l) /\ UNCHANGED <<items, entries>>
      /\ Len(items[a]) = Len(items[b])
    BY DEF Equal
<1> HIDE DEF l
<1>4. Len(items[a]) \in Nat
    BY <1>1, LenProperties DEF Data, ItemsType
<1>5. Arriving(l, items, entries)
    BY <1>2, <1>3, <1>4 DEF Arriving, Over, OverEntries, ItemLoop, EqualInv
<1> QED
    BY <1>3, <1>5, BeginKeeps

LEMMA RemoveKeeps ==
    ASSUME ContainersInv, NEW a \in DOMAIN items, NEW v \in Puts[a], Remove(a, v)
    PROVE  NoneEnds
<1> DEFINE l == Loop("remove", a, v, 1, Len(items[a]), {})
<1>1. Data BY DEF ContainersInv
<1>2. /\ Acting /\ Room("remove") /\ Begin(l) /\ UNCHANGED <<items, entries>>
      /\ items[a] # <<>>
    BY DEF Remove
<1>3. Len(items[a]) \in Nat \ {0} /\ a \in Arrays
    BY <1>1, <1>2, EmptySeq DEF Data, ItemsType
<1>4. v \in Value
    BY <1>3, ValueOfPuts
<1>5. /\ l \in LoopType /\ l.kind = "remove" /\ l.of = a /\ l.due = {} /\ l.at = 1
      /\ l.kept = 0 /\ l.end = Len(items[a])
  <2>1. /\ "remove" \in Kinds /\ a \in Arrays \cup Dictionaries /\ 1 \in Nat \ {0}
        /\ Len(items[a]) \in Nat /\ v \in Arrays \cup Value \cup {None} /\ {} \in SUBSET Nat
      BY <1>3, <1>4 DEF Kinds
  <2> QED
      BY <2>1, TrueAnswer DEF Loop, LoopType, Kinds
<1> HIDE DEF l
<1>6. Arriving(l, items, entries)
    BY <1>3, <1>5 DEF Arriving, Over, OverEntries, ItemLoop, RemoveInv
<1> QED
    BY <1>2, <1>6, BeginKeeps

LEMMA StatementKeeps ==
    ASSUME ContainersInv, Statement
    PROVE  NoneEnds
<1> USE DEF ContainersInv
<1>1. \A a \in DOMAIN items : items[a] \in Seq(Value)
    BY DEF Data, ItemsType
<1>2. Default \in Value
    BY ValuesAssumption DEF Value
<1>3. \A d \in DOMAIN entries, k \in Keys : \A v \in Puts[d] : SetEntry(d, k, v) => NoneEnds
  <2>1. \A d \in DOMAIN entries : \A v \in Puts[d] : v \in Value
      BY ValueOfPuts DEF Data, EntriesType
  <2> QED
      BY <2>1, PutKeeps DEF SetEntry
<1>4. \A d \in DOMAIN entries, k \in Keys : GetEntry(d, k) => NoneEnds
    BY <1>2, PutKeeps DEF GetEntry
<1>5. \A a \in DOMAIN items, b \in Arrays : NewArray(b, Reversed(items[a])) => NoneEnds
    BY <1>1, ReversedType, NewArrayKeeps
<1>6. \A a, c \in DOMAIN items, b \in Arrays :
        NewArray(b, items[a] \o items[c]) => NoneEnds
    BY <1>1, ConcatProperties, NewArrayKeeps
<1>7. \A a \in DOMAIN items : BadIndex(a) => NoneEnds
    BY StopsKeeps DEF BadIndex, Statuses
<1> QED
    BY <1>3, <1>4, <1>5, <1>6, <1>7, ClearKeeps, ForEachKeeps, PushKeeps, RemoveKeeps,
       SetItemKeeps, TextKeeps, EqualKeeps, ForEachEntryKeeps, TextOfEntriesKeeps, EraseKeeps
    DEF Statement

--------------------------------------------------------------------------------
(***************************************************************************)
(* Loops go on, and those that end owe nothing.                            *)
(***************************************************************************)
NoneMissedStep == ContainersInv' /\ (Len(loops') < Len(loops) => Inner.due = {})

LEMMA NoneEndsMissesNone ==
    ASSUME ContainersInv, NoneEnds
    PROVE  NoneMissedStep
<1>1. Len(loops) \in Nat /\ Len(loops') \in Nat
    BY LenProperties DEF NoneEnds, ContainersInv, LoopsInv, AllGood
<1> QED
    BY <1>1 DEF NoneEnds, NoneMissedStep

\* The innermost loop and those below it.
LEMMA GoingGood ==
    ASSUME ContainersInv, NEW kinds, Going(kinds)
    PROVE  /\ Data /\ AllGood(loops, items, entries) /\ Len(loops) <= MaxLoops /\ status = "ok"
           /\ AllGood(Outer, items, entries) /\ Len(Outer) = Len(loops) - 1
           /\ Len(loops) \in Nat \ {0} /\ MaxLoops \in Nat
           /\ LoopInv(Inner, items, entries) /\ Inner \in LoopType /\ Inner.kind \in kinds
           /\ Inner.at \in Nat \ {0} /\ Inner.hurt \in BOOLEAN /\ Inner.end \in Nat
           /\ Inner.kept \in Nat
           /\ \A a \in DOMAIN items : items[a] \in Seq(Value) /\ Len(items[a]) \in Nat
<1>1. AllGood(loops, items, entries) /\ loops # <<>> /\ Data /\ Len(loops) <= MaxLoops
    BY DEF Going, ContainersInv, LoopsInv
<1>2. /\ AllGood(Outer, items, entries) /\ Len(Outer) = Len(loops) - 1
      /\ Len(loops) \in Nat \ {0} /\ LoopInv(Inner, items, entries)
    BY <1>1, OuterGood DEF Outer, Inner
<1>3. Inner \in LoopType
    BY <1>2 DEF LoopInv
<1>4. /\ Inner.at \in Nat \ {0} /\ Inner.hurt \in BOOLEAN /\ Inner.end \in Nat
      /\ Inner.kept \in Nat
    BY <1>3 DEF LoopType
<1>5. \A a \in DOMAIN items : items[a] \in Seq(Value) /\ Len(items[a]) \in Nat
    BY <1>1, LenProperties DEF Data, ItemsType
<1> QED
    BY <1>1, <1>2, <1>3, <1>4, <1>5, BoundsAssumption DEF Going

LEMMA FailKeeps ==
    ASSUME ContainersInv, Fail, ~Inner.valid \/ Inner.hurt
    PROVE  NoneMissedStep
<1>1. status' = "invalid" /\ UNCHANGED <<items, entries, loops>>
    BY DEF Fail
<1>2. Inner' = Inner
    BY <1>1 DEF Inner
<1>3. Data' /\ LoopsInv'
    BY <1>1 DEF ContainersInv, Data, ItemsType, EntriesType, LoopsInv
<1>4. StatusInv'
    BY <1>1, <1>2 DEF StatusInv, OnlyDisturbedFails
<1>5. Len(loops') = Len(loops) /\ Len(loops) \in Nat
    BY <1>1, LenProperties DEF ContainersInv, LoopsInv, AllGood
<1> QED
    BY <1>3, <1>4, <1>5 DEF NoneMissedStep, ContainersInv

LEMMA FinishKeeps ==
    ASSUME ContainersInv, NEW kinds, Going(kinds), Finish, UNCHANGED <<items, entries>>,
           Inner.due = {}
    PROVE  NoneMissedStep
<1>1. /\ Data /\ AllGood(Outer, items, entries) /\ Len(Outer) = Len(loops) - 1
      /\ Len(loops) \in Nat \ {0} /\ Len(loops) <= MaxLoops /\ MaxLoops \in Nat /\ status = "ok"
    BY GoingGood
<1>2. loops' = Outer /\ status' = "ok"
    BY <1>1 DEF Finish
<1>3. Data' /\ LoopsInv'
    BY <1>1, <1>2 DEF Data, ItemsType, EntriesType, LoopsInv
<1> QED
    BY <1>2, <1>3 DEF NoneMissedStep, ContainersInv, StatusInv, OnlyDisturbedFails

\* The innermost loop comes to its next item; remove has written in the array.
LEMMA MoveKeeps ==
    ASSUME ContainersInv, NEW kinds, Going(kinds), NEW l, NEW arrays, MoveTo(l, arrays),
           Arriving(l, items', entries'), Data', SameSizes(items, items'), UNCHANGED entries
    PROVE  NoneMissedStep
<1>1. /\ AllGood(loops, items, entries) /\ AllGood(Outer, items, entries)
      /\ Len(Outer) = Len(loops) - 1 /\ Len(loops) \in Nat \ {0} /\ Len(loops) <= MaxLoops
      /\ MaxLoops \in Nat /\ status = "ok"
    BY GoingGood
<1>2. NoFewerKeys(entries, entries')
    BY DEF NoFewerKeys
<1>3. AllGood(loops, items', entries') /\ AllGood(Outer, items', entries')
    BY <1>1, <1>2, UndisturbedGood
<1>4. Visit(Outer, l, arrays) /\ Len(Outer) < MaxLoops
    BY <1>1 DEF MoveTo
<1>5. \/ /\ AllGood(loops', items', entries') /\ Len(loops') = Len(Outer) + 1 /\ status' = status
      \/ loops' = loops /\ status' \in {"thrown", "no_text"}
    BY <1>3, <1>4, VisitGood
<1>6. /\ AllGood(loops, items, entries)' /\ Len(loops') = Len(loops)
      /\ status' \in {"ok", "thrown", "no_text"}
    BY <1>1, <1>3, <1>5
<1> QED
    BY <1>1, <1>6 DEF NoneMissedStep, ContainersInv, LoopsInv, StatusInv, OnlyDisturbedFails

\* The loop at another position.
At(l, at) == [l EXCEPT !.at = at]

LEMMA AtFields ==
    ASSUME NEW l \in LoopType, NEW at \in Nat \ {0}
    PROVE  /\ At(l, at) \in LoopType /\ At(l, at).at = at
           /\ At(l, at).kind = l.kind /\ At(l, at).of = l.of /\ At(l, at).with = l.with
           /\ At(l, at).kept = l.kept /\ At(l, at).end = l.end /\ At(l, at).hurt = l.hurt
           /\ At(l, at).due = l.due
BY DEF At, LoopType

LEMMA SameData ==
    ASSUME Data, UNCHANGED <<items, entries>>
    PROVE  Data' /\ SameSizes(items, items')
BY DEF Data, ItemsType, EntriesType, SameSizes

\* The next item of an array that the loop has not come to the end of.
LEMMA NextItemArrives ==
    ASSUME ContainersInv, NEW kinds, Going(kinds), ItemLoop(Inner),
           Inner.at < Len(items[Inner.of])
    PROVE  Arriving(At(Inner, Inner.at + 1), items, entries)
<1> DEFINE l == At(Inner, Inner.at + 1)
<1>1. /\ LoopInv(Inner, items, entries) /\ Inner \in LoopType /\ Data
      /\ Inner.at \in Nat \ {0} /\ Inner.hurt \in BOOLEAN
    BY GoingGood
<1>2. /\ l \in LoopType /\ l.at = Inner.at + 1 /\ l.kind = Inner.kind /\ l.of = Inner.of
      /\ l.hurt = Inner.hurt /\ l.due = Inner.due
  <2> DEFINE next == Inner.at + 1
  <2>1. next \in Nat \ {0}
      BY <1>1
  <2> HIDE DEF next
  <2>2. /\ At(Inner, next) \in LoopType /\ At(Inner, next).at = next
        /\ At(Inner, next).kind = Inner.kind /\ At(Inner, next).of = Inner.of
        /\ At(Inner, next).hurt = Inner.hurt /\ At(Inner, next).due = Inner.due
      BY <1>1, <2>1, AtFields
  <2> QED
      BY <2>2 DEF next
<1> HIDE DEF l
<1>3. /\ ~OverEntries(Inner.kind) /\ Inner.kind # "equal" /\ Inner.kind # "remove"
      /\ Inner.of \in DOMAIN items /\ ~OverEntries(l.kind)
    BY <1>1, <1>2, ApartFrom
<1>4. Len(items[Inner.of]) \in Nat
    BY <1>3, GoingGood
<1>5. IF l.hurt THEN l.due = {}
      ELSE l.at <= Len(items[l.of]) /\ l.due \subseteq l.at..Len(items[l.of])
  <2>1. ItemLoopInv(Inner, items)
      BY <1>1 DEF LoopInv
  <2>2. CASE Inner.hurt
      BY <1>2, <2>1, <2>2 DEF ItemLoopInv
  <2>3. CASE ~Inner.hurt
    <3>1. Inner.due \subseteq (Inner.at + 1)..Len(items[Inner.of])
        BY <2>1, <2>3 DEF ItemLoopInv
    <3> QED
        BY <1>1, <1>2, <1>4, <2>3, <3>1
  <2> QED
      BY <1>1, <2>2, <2>3
<1>6. Over(l, items, entries)
    BY <1>2, <1>3 DEF Over
<1>7. /\ l.kind = "equal" => EqualInv(l, items)
      /\ l.kind = "remove" => RemoveInv(l, items)
      /\ OverEntries(l.kind) => l.due \subseteq {k \in DOMAIN entries[l.of] : k >= l.at}
    BY <1>2, <1>3
<1> QED
    BY <1>2, <1>5, <1>6, <1>7 DEF Arriving, l

LEMMA NextItemKeeps ==
    ASSUME ContainersInv, NextItem
    PROVE  NoneMissedStep
<1> DEFINE K == {"foreach", "text"}
<1>1. Going(K) /\ ItemLoop(Inner)
    BY DEF NextItem, Going, ItemLoop
<1>2. /\ LoopInv(Inner, items, entries) /\ Inner.at \in Nat \ {0} /\ Inner.hurt \in BOOLEAN
      /\ Data /\ ItemLoopInv(Inner, items)
    BY <1>1, GoingGood DEF LoopInv
<1>3. Len(items[Inner.of]) \in Nat
    BY <1>1, <1>2, GoingGood, ApartFrom
<1> HIDE DEF K
<1>4. CASE ~Inner.valid \/ Inner.at > Len(items[Inner.of])
  <2>1. Fail
      BY <1>4 DEF NextItem
  <2>2. ~Inner.valid \/ Inner.hurt
      BY <1>2, <1>3, <1>4 DEF ItemLoopInv
  <2> QED
      BY <2>1, <2>2, FailKeeps
<1>5. CASE Inner.valid /\ ~(Inner.at > Len(items[Inner.of])) /\ Inner.at = Len(items[Inner.of])
  <2>1. Finish /\ UNCHANGED <<items, entries>>
      BY <1>5 DEF NextItem
  <2>2. Inner.due = {}
      BY <1>2, <1>3, <1>5 DEF ItemLoopInv
  <2> QED
      BY <1>1, <2>1, <2>2, FinishKeeps
<1>6. CASE Inner.valid /\ ~(Inner.at > Len(items[Inner.of])) /\ Inner.at # Len(items[Inner.of])
  <2>1. MoveTo(At(Inner, Inner.at + 1), items) /\ UNCHANGED <<items, entries>>
      BY <1>6 DEF NextItem, At
  <2>2. Arriving(At(Inner, Inner.at + 1), items', entries')
      BY <1>1, <1>2, <1>3, <1>6, <2>1, NextItemArrives
  <2> QED
      BY <1>1, <1>2, <2>1, <2>2, MoveKeeps, SameData
<1> QED
    BY <1>4, <1>5, <1>6

LEMMA NextJoinedKeeps ==
    ASSUME ContainersInv, NextJoined
    PROVE  NoneMissedStep
<1> DEFINE K == {"join"}
<1>1. Going(K) /\ ItemLoop(Inner)
    BY DEF NextJoined, Going, ItemLoop
<1>2. /\ LoopInv(Inner, items, entries) /\ Inner.at \in Nat \ {0} /\ Inner.hurt \in BOOLEAN
      /\ Data /\ ItemLoopInv(Inner, items)
    BY <1>1, GoingGood DEF LoopInv
<1>3. Len(items[Inner.of]) \in Nat /\ UNCHANGED <<items, entries>>
    BY <1>1, <1>2, GoingGood, ApartFrom DEF NextJoined
<1> HIDE DEF K
<1>4. CASE Inner.at >= Len(items[Inner.of])
  <2>1. Finish
      BY <1>4 DEF NextJoined
  <2>2. Inner.due = {}
      BY <1>2, <1>3, <1>4 DEF ItemLoopInv
  <2> QED
      BY <1>1, <1>3, <2>1, <2>2, FinishKeeps
<1>5. CASE ~(Inner.at >= Len(items[Inner.of]))
  <2>1. MoveTo(At(Inner, Inner.at + 1), items)
      BY <1>5 DEF NextJoined, At
  <2>2. Arriving(At(Inner, Inner.at + 1), items', entries')
      BY <1>1, <1>2, <1>3, <1>5, NextItemArrives
  <2> QED
      BY <1>1, <1>2, <1>3, <2>1, <2>2, MoveKeeps, SameData
<1> QED
    BY <1>4, <1>5

LEMMA NextEntryKeeps ==
    ASSUME ContainersInv, NextEntry
    PROVE  NoneMissedStep
<1> DEFINE K == {"entries", "entry_texts"}
           later == {k \in DOMAIN entries[Inner.of] : k > Inner.at}
<1>1. Going(K) /\ OverEntries(Inner.kind)
    BY DEF NextEntry, Going, OverEntries
<1>2. /\ LoopInv(Inner, items, entries) /\ Inner \in LoopType /\ Inner.at \in Nat \ {0} /\ Data
      /\ Inner.due \subseteq later
    BY <1>1, GoingGood DEF LoopInv, EntryLoopInv
<1>3. CASE ~Inner.valid
    BY <1>3, FailKeeps DEF NextEntry
<1>4. CASE Inner.valid /\ later = {}
  <2>1. Finish /\ UNCHANGED <<items, entries>>
      BY <1>4 DEF NextEntry
  <2> HIDE DEF K
  <2>2. Inner.due = {}
      BY <1>2, <1>4
  <2> QED
      BY <1>1, <2>1, <2>2, FinishKeeps
<1>5. CASE Inner.valid /\ later # {}
  <2> DEFINE next == Lowest(later)
             l == At(Inner, next)
  <2>1. MoveTo(l, items) /\ UNCHANGED <<items, entries>>
      BY <1>5 DEF NextEntry, At
  <2>2. Inner.of \in DOMAIN entries /\ later \subseteq Nat \ {0}
      BY <1>1, <1>2, KeysAssumption, ApartFrom DEF Data, EntriesType
  <2>3. next \in later /\ \A k \in later : next <= k
    <3> HIDE DEF later
    <3> QED
        BY <1>5, <2>2, LowestIs
  <2>4. next \in Nat \ {0}
      BY <2>2, <2>3
  <2> HIDE DEF next
  <2>5. /\ l \in LoopType /\ l.at = next /\ l.kind = Inner.kind /\ l.of = Inner.of
        /\ l.due = Inner.due
      BY <1>2, <2>4, AtFields
  <2> HIDE DEF l, K
  <2>6. l.due \subseteq {k \in DOMAIN entries[l.of] : k >= l.at}
      BY <1>2, <2>2, <2>3, <2>4, <2>5
  <2>7. Arriving(l, items', entries')
      BY <1>1, <2>1, <2>2, <2>5, <2>6 DEF Arriving, Over, OverEntries, ItemLoop
  <2> QED
      BY <1>1, <1>2, <2>1, <2>7, MoveKeeps, SameData
<1> QED
    BY <1>3, <1>4, <1>5

LEMMA NextComparedKeeps ==
    ASSUME ContainersInv, NextCompared
    PROVE  NoneMissedStep
<1> DEFINE K == {"equal"}
<1>1. Going(K) /\ Inner.kind = "equal"
    BY DEF NextCompared, Going
<1>2. /\ LoopInv(Inner, items, entries) /\ Inner \in LoopType /\ Inner.at \in Nat \ {0} /\ Data
      /\ EqualInv(Inner, items) /\ Inner.hurt \in BOOLEAN
    BY <1>1, GoingGood DEF LoopInv
<1>3. Inner.of \in DOMAIN items /\ Inner.with \in DOMAIN items
    BY <1>1, <1>2, ApartFrom DEF EqualInv
<1>4. Len(items[Inner.of]) \in Nat /\ Len(items[Inner.with]) \in Nat
    BY <1>1, <1>3, GoingGood
<1>5. PICK same \in Inner.answers :
         IF ~same \/ Inner.at >= Len(items[Inner.of])
         THEN Finish /\ UNCHANGED <<items, entries>>
         ELSE IF Inner.at >= Len(items[Inner.with]) THEN Fail
         ELSE /\ MoveTo([Inner EXCEPT !.at = @ + 1], items)
              /\ UNCHANGED <<items, entries>>
    BY DEF NextCompared
<1> HIDE DEF K
<1>6. CASE ~same \/ Inner.at >= Len(items[Inner.of])
  <2>1. Finish /\ UNCHANGED <<items, entries>> /\ Inner.due = {}
      BY <1>2, <1>5, <1>6 DEF EqualInv
  <2> QED
      BY <1>1, <2>1, FinishKeeps
<1>7. CASE /\ ~(~same \/ Inner.at >= Len(items[Inner.of]))
           /\ Inner.at >= Len(items[Inner.with])
  <2>1. Fail
      BY <1>5, <1>7
  <2>2. Inner.hurt
      BY <1>2, <1>4, <1>7 DEF EqualInv
  <2> QED
      BY <2>1, <2>2, FailKeeps
<1>8. CASE /\ ~(~same \/ Inner.at >= Len(items[Inner.of]))
           /\ ~(Inner.at >= Len(items[Inner.with]))
  <2> DEFINE next == Inner.at + 1
             l == At(Inner, next)
  <2>1. MoveTo(l, items) /\ UNCHANGED <<items, entries>>
      BY <1>5, <1>8 DEF At
  <2>2. next \in Nat \ {0}
      BY <1>2
  <2> HIDE DEF next
  <2>3. /\ l \in LoopType /\ l.kind = "equal" /\ l.of = Inner.of /\ l.with = Inner.with
        /\ l.hurt = Inner.hurt /\ l.due = Inner.due
      BY <1>1, <1>2, <2>2, AtFields
  <2> HIDE DEF l
  <2>4. EqualInv(l, items)
      BY <1>2, <2>3 DEF EqualInv
  <2>5. Arriving(l, items', entries')
      BY <1>3, <2>1, <2>3, <2>4 DEF Arriving, Over, OverEntries, ItemLoop
  <2> QED
      BY <1>1, <1>2, <2>1, <2>5, MoveKeeps, SameData
<1> QED
    BY <1>6, <1>7, <1>8

\* What std::remove has kept, and what erase leaves of the rest.
LEMMA RestType ==
    ASSUME NEW q \in Seq(Value), NEW kept \in Nat, NEW last \in Nat, kept <= last, last <= Len(q)
    PROVE  /\ SubSeq(q, 1, kept) \o SubSeq(q, last + 1, Len(q)) \in Seq(Value)
           /\ Len(SubSeq(q, 1, kept) \o SubSeq(q, last + 1, Len(q))) = kept + (Len(q) - last)
<1>1. Len(q) \in Nat /\ \A i \in 1..Len(q) : q[i] \in Value
    BY LenProperties, ElementOfSeq
<1>2. SubSeq(q, 1, kept) \in Seq(Value) /\ Len(SubSeq(q, 1, kept)) = kept
  <2>1. 1 \in Int /\ kept \in Int /\ \A i \in 1..kept : q[i] \in Value
      BY <1>1
  <2>2. /\ SubSeq(q, 1, kept) \in Seq(Value)
        /\ Len(SubSeq(q, 1, kept)) = IF 1 <= kept THEN kept - 1 + 1 ELSE 0
      BY <2>1, SubSeqProperties
  <2>3. (IF 1 <= kept THEN kept - 1 + 1 ELSE 0) = kept
      OBVIOUS
  <2> QED
      BY <2>2, <2>3
<1>3. /\ SubSeq(q, last + 1, Len(q)) \in Seq(Value)
      /\ Len(SubSeq(q, last + 1, Len(q))) = Len(q) - last
  <2> DEFINE from == last + 1
             to == Len(q)
  <2>1. from \in Int /\ to \in Int /\ \A i \in from..to : q[i] \in Value
      BY <1>1
  <2>2. (IF from <= to THEN to - from + 1 ELSE 0) = to - last
      BY <1>1
  <2> HIDE DEF from, to
  <2>3. /\ SubSeq(q, from, to) \in Seq(Value)
        /\ Len(SubSeq(q, from, to)) = IF from <= to THEN to - from + 1 ELSE 0
      BY <2>1, SubSeqProperties
  <2> QED
      BY <2>2, <2>3 DEF from, to
<1> QED
    BY <1>1, <1>2, <1>3, ConcatProperties

LEMMA NextRemovedKeeps ==
    ASSUME ContainersInv, NextRemoved
    PROVE  NoneMissedStep
<1> DEFINE K == {"remove"}
           a == Inner.of
           q == items[a]
<1>1. Going(K) /\ Inner.kind = "remove"
    BY DEF NextRemoved, Going
<1>2. /\ LoopInv(Inner, items, entries) /\ Inner \in LoopType /\ Inner.at \in Nat \ {0} /\ Data
      /\ RemoveInv(Inner, items) /\ Inner.hurt \in BOOLEAN /\ Inner.end \in Nat
      /\ Inner.kept \in Nat /\ AllGood(Outer, items, entries) /\ Len(Outer) = Len(loops) - 1
      /\ Len(loops) \in Nat \ {0} /\ Len(loops) <= MaxLoops /\ MaxLoops \in Nat /\ status = "ok"
    BY <1>1, GoingGood DEF LoopInv
<1>3. a \in DOMAIN items
    BY <1>1, <1>2, ApartFrom
<1>4. q \in Seq(Value) /\ Len(q) \in Nat /\ Len(q) <= MaxLen[a] /\ MaxLen[a] \in Nat
    BY <1>1, <1>2, <1>3, GoingGood, BoundsAssumption DEF Data, ItemsType
<1> DEFINE Kept(same) == IF same THEN Inner.kept ELSE Inner.kept + 1
           Moved(same) == IF same THEN q ELSE [q EXCEPT ![Kept(same)] = q[Inner.at]]
           Rest(same, last) == SubSeq(Moved(same), 1, Kept(same))
                               \o SubSeq(Moved(same), last + 1, Len(q))
<1>5. PICK same \in Inner.answers, last \in {Inner.end, Len(q)} :
        IF ~Inner.valid \/ Inner.end > Len(q) THEN Fail
        ELSE /\ UNCHANGED entries
             /\ IF Inner.at = Inner.end
                THEN /\ items' = [items EXCEPT ![a] = Rest(same, last)]
                     /\ loops' = IF Len(Rest(same, last)) < Len(q) THEN Lost(Outer, a) ELSE Outer
                     /\ UNCHANGED status
                ELSE /\ items' = [items EXCEPT ![a] = Moved(same)]
                     /\ MoveTo([Inner EXCEPT !.at = @ + 1, !.kept = Kept(same)], items')
    BY DEF NextRemoved
<1>6. CASE ~Inner.valid \/ Inner.end > Len(q)
  <2>1. Fail
      BY <1>5, <1>6
  <2>2. ~Inner.valid \/ Inner.hurt
      BY <1>2, <1>4, <1>6 DEF RemoveInv
  <2> QED
      BY <2>1, <2>2, FailKeeps
<1>7. ASSUME Inner.valid, ~(Inner.end > Len(q))
      PROVE  NoneMissedStep
  <2> DEFINE kept == Kept(same)
             moved == Moved(same)
  <2>1. kept \in Nat /\ kept <= Inner.at /\ Inner.at <= Inner.end /\ Inner.end <= Len(q)
      BY <1>2, <1>4, <1>7 DEF RemoveInv
  <2>2. moved \in Seq(Value) /\ Len(moved) = Len(q)
    <3>1. CASE same
        BY <1>4, <3>1
    <3>2. CASE ~same
      <4>1. kept \in 1..Len(q) /\ Inner.at \in 1..Len(q)
          BY <1>2, <1>4, <2>1, <3>2
      <4> HIDE DEF kept
      <4>2. q[Inner.at] \in Value
          BY <1>4, <4>1, ElementOfSeq
      <4>3. moved = [q EXCEPT ![kept] = q[Inner.at]]
          BY <3>2 DEF kept
      <4> HIDE DEF moved, q
      <4> QED
          BY <1>4, <4>1, <4>2, <4>3, ExceptSeq
    <3> QED
        BY <3>1, <3>2
  <2>3. CASE Inner.at = Inner.end
    <3> DEFINE rest == Rest(same, last)
    <3>1. /\ UNCHANGED entries /\ items' = [items EXCEPT ![a] = rest] /\ UNCHANGED status
          /\ loops' = IF Len(rest) < Len(q) THEN Lost(Outer, a) ELSE Outer
        BY <1>5, <1>7, <2>3
    <3>2. last \in Nat /\ kept <= last /\ last <= Len(q)
        BY <1>2, <1>4, <2>1, <2>3
    <3>3. rest \in Seq(Value) /\ Len(rest) = kept + (Len(q) - last)
      <4>1. rest = SubSeq(moved, 1, kept) \o SubSeq(moved, last + 1, Len(moved))
          BY <2>2
      <4> HIDE DEF rest, moved, kept, q
      <4>2. last <= Len(moved)
          BY <2>2, <3>2
      <4>3. /\ SubSeq(moved, 1, kept) \o SubSeq(moved, last + 1, Len(moved)) \in Seq(Value)
            /\ Len(SubSeq(moved, 1, kept) \o SubSeq(moved, last + 1, Len(moved)))
                 = kept + (Len(moved) - last)
          BY <2>1, <2>2, <3>2, <4>2, RestType
      <4> QED
          BY <2>2, <4>1, <4>3
    <3> HIDE DEF rest, moved, kept
    <3>4. Len(rest) <= Len(q)
        BY <1>4, <2>1, <3>2, <3>3
    <3>5. /\ DOMAIN items' = DOMAIN items /\ items'[a] = rest
          /\ \A b \in DOMAIN items : b # a => items'[b] = items[b]
        BY <1>3, <3>1
    <3>6. Data'
        BY <1>2, <1>4, <3>1, <3>3, <3>4, <3>5 DEF Data, ItemsType, EntriesType
    <3>7. AllGood(loops', items', entries') /\ Len(loops') = Len(Outer)
      <4>1. CASE Len(rest) < Len(q)
        <5>1. AllGood(Lost(Outer, a), items', entries) /\ Len(Lost(Outer, a)) = Len(Outer)
            BY <1>2, <1>3, <3>5, LostGood
        <5> QED
            BY <3>1, <4>1, <5>1
      <4>2. CASE ~(Len(rest) < Len(q))
        <5>1. Len(rest) = Len(q)
            BY <1>4, <2>1, <3>2, <3>3, <3>4, <4>2
        <5>2. SameSizes(items, items') /\ NoFewerKeys(entries, entries')
            BY <3>1, <3>5, <5>1 DEF SameSizes, NoFewerKeys
        <5>3. loops' = Outer
            BY <3>1, <4>2
        <5>4. AllGood(Outer, items', entries')
            BY <1>2, <5>2, UndisturbedGood
        <5> QED
            BY <5>3, <5>4
      <4> QED
          BY <4>1, <4>2
    <3>8. Inner.due = {}
        BY <1>2 DEF RemoveInv
    <3> QED
        BY <1>2, <3>1, <3>6, <3>7, <3>8
        DEF NoneMissedStep, ContainersInv, LoopsInv, StatusInv, OnlyDisturbedFails
  <2>4. CASE Inner.at # Inner.end
    <3> DEFINE next == Inner.at + 1
               l1 == At(Inner, next)
               l2 == [l1 EXCEPT !.kept = kept]
    <3>1. UNCHANGED entries /\ items' = [items EXCEPT ![a] = moved] /\ MoveTo(l2, items')
        BY <1>5, <1>7, <2>4 DEF At
    <3>2. next \in Nat \ {0} /\ next <= Inner.end /\ kept < next
        BY <1>2, <1>4, <2>1, <2>4
    <3> HIDE DEF next, kept, moved
    <3>3. /\ l1 \in LoopType /\ l1.at = next /\ l1.kind = "remove" /\ l1.of = a
          /\ l1.end = Inner.end /\ l1.hurt = Inner.hurt /\ l1.due = Inner.due
        BY <1>1, <1>2, <3>2, AtFields
    <3> HIDE DEF l1
    <3>4. /\ l2 \in LoopType /\ l2.at = next /\ l2.kind = "remove" /\ l2.of = a
          /\ l2.end = Inner.end /\ l2.hurt = Inner.hurt /\ l2.due = Inner.due
          /\ l2.kept = kept
        BY <2>1, <3>3 DEF LoopType
    <3> HIDE DEF l2
    <3>5. /\ DOMAIN items' = DOMAIN items /\ items'[a] = moved
          /\ \A b \in DOMAIN items : b # a => items'[b] = items[b]
        BY <1>3, <3>1
    <3>6. Data'
        BY <1>2, <1>4, <2>2, <3>1, <3>5 DEF Data, ItemsType, EntriesType
    <3>7. SameSizes(items, items')
        BY <2>2, <3>5 DEF SameSizes
    <3>8. RemoveInv(l2, items')
        BY <1>2, <1>4, <2>1, <2>2, <3>2, <3>4, <3>5 DEF RemoveInv
    <3>9. Arriving(l2, items', entries')
        BY <1>3, <3>4, <3>5, <3>8 DEF Arriving, Over, OverEntries, ItemLoop
    <3> HIDE DEF K
    <3> QED
        BY <1>1, <3>1, <3>6, <3>7, <3>9, MoveKeeps
  <2> QED
      BY <2>3, <2>4
<1> QED
    BY <1>6, <1>7

--------------------------------------------------------------------------------
LEMMA InitGood ==
    ASSUME Init
    PROVE  ContainersInv
<1>1. PICK s \in Starts : items = s.items /\ entries = s.entries
    BY DEF Init
<1>2. Data
    BY <1>1, StartsAssumption DEF Data, ItemsType, EntriesType
<1>3. loops = <<>> /\ status = "ok"
    BY DEF Init
<1>4. AllGood(loops, items, entries) /\ Len(loops) <= MaxLoops
    BY <1>3, BoundsAssumption, EmptySeq DEF AllGood
<1> QED
    BY <1>2, <1>3, <1>4 DEF ContainersInv, LoopsInv, StatusInv, OnlyDisturbedFails

LEMMA StepGood ==
    ASSUME ContainersInv, Next
    PROVE  NoneMissedStep
<1>1. CASE Statement
  <2>1. NoneEnds
      BY <1>1, StatementKeeps
  <2> QED
      BY <2>1, NoneEndsMissesNone
<1>2. CASE Advance
    BY <1>2, NextItemKeeps, NextJoinedKeeps, NextEntryKeeps, NextComparedKeeps, NextRemovedKeeps
    DEF Advance
<1> QED
    BY <1>1, <1>2 DEF Next

LEMMA StutterGood ==
    ASSUME ContainersInv, UNCHANGED vars
    PROVE  ContainersInv'
<1>1. UNCHANGED <<items, entries, loops, status>> /\ Inner' = Inner
    BY DEF vars, Inner
<1>2. Data' /\ LoopsInv' /\ StatusInv'
    BY <1>1 DEF ContainersInv, Data, ItemsType, EntriesType, LoopsInv, StatusInv,
                OnlyDisturbedFails
<1> QED
    BY <1>2 DEF ContainersInv

LEMMA ContainersInvariant == Spec => []ContainersInv
<1>1. Init => ContainersInv
    BY InitGood
<1>2. ContainersInv /\ [Next]_vars => ContainersInv'
    BY StepGood, StutterGood DEF NoneMissedStep
<1> QED
    BY <1>1, <1>2, PTL DEF Spec

\* Arrays, dictionaries and loops are well typed in every state, for any programs,
\* containers and bounds, and every loop goes over a container that exists.
THEOREM ContainersTypes == Spec => []TypeOK
<1>1. ContainersInv => TypeOK
    BY InvGives
<1> QED
    BY <1>1, ContainersInvariant, PTL

\* A loop runs into undefined behaviour only if the script code inside it changed its own
\* container in one of the ways the property names: for any number of loops in each
\* other, over containers of any size.
THEOREM OnlyDisturbedLoopsFail == Spec => []OnlyDisturbedFails
<1>1. ContainersInv => OnlyDisturbedFails
    BY InvGives
<1> QED
    BY <1>1, ContainersInvariant, PTL

\* A loop that ends has had every item it owes.
THEOREM LoopsMissNothing == Spec => NoneMissed
<1>1. ContainersInv /\ [Next]_vars => [Len(loops') < Len(loops) => Inner.due = {}]_vars
    BY StepGood DEF NoneMissedStep
<1> QED
    BY <1>1, ContainersInvariant, PTL DEF Spec, NoneMissed
================================================================================
