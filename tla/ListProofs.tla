----------------------------- MODULE ListProofs -----------------------------
(***************************************************************************)
(* Proofs about windowed lists, for collections, pages, windows and        *)
(* heights of any size: what a list rests with (ListsHold).  A sum of      *)
(* sizes is a recursive function, about which the first lemmas are; then   *)
(* come lemmas about each operation of the controller, which say how the   *)
(* list after it relates to the one before, and the steps.                 *)
(***************************************************************************)
EXTENDS WindowedLists, TLAPS, SequenceTheorems, FiniteSetTheorems, WellFoundedInduction
-----------------------------------------------------------------------------
LEMMA LeastNumber ==
  ASSUME NEW T \in SUBSET Nat, T # {}
  PROVE  \E n \in T : \A m \in T : n <= m
<1> DEFINE R == OpToRel(<, Nat)
<1>1. IsWellFoundedOn(R, Nat)
  BY NatLessThanWellFounded
<1>2. \A m, n \in Nat : m < n => <<m, n>> \in R
  BY DEF OpToRel
<1> HIDE DEF R
<1>3. PICK n \in T : \A m \in T : ~(<<m, n>> \in R)
  BY <1>1, WFMin
<1>4. n \in Nat /\ \A m \in T : m \in Nat /\ ~(m < n)
  BY <1>2, <1>3
<1>5. \A m \in T : n <= m
  BY <1>4
<1> QED
  BY <1>5

\* f is what the steps of the first n nodes make of v.
Stepped(f, step, v, n) ==
  f = [i \in 0..n |-> f[i]] /\ f[0] = v /\ \A m \in 1..n : f[m] = step[m][f[m - 1]]

\* The steps can be taken node by node.
LEMMA StepsExist ==
  ASSUME NEW v, NEW step, NEW N \in Nat
  PROVE  \E f : Stepped(f, step, v, N)
PROOF
<1> DEFINE Works(f, n) ==
             f = [i \in 0..n |-> f[i]] /\ f[0] = v /\ \A m \in 1..n : f[m] = step[m][f[m - 1]]
           Bad == {n \in Nat : ~\E f : Works(f, n)}
<1>0. Bad \in SUBSET Nat
  OBVIOUS
<1>1. SUFFICES ASSUME Bad # {} PROVE FALSE
  <2>1. N \notin Bad
    BY <1>1
  <2>2. PICK f : Works(f, N)
    BY <2>1
  <2> QED
    BY <2>2 DEF Stepped
<1>2. PICK n \in Bad : \A m \in Bad : n <= m
  <2> HIDE DEF Bad
  <2> QED
    BY <1>0, <1>1, LeastNumber
<1>3. n # 0
  <2>1. Works([i \in 0..0 |-> v], 0)
    OBVIOUS
  <2> QED
    BY <1>2, <2>1
<1>4. n \in Nat /\ n - 1 \in Nat /\ n - 1 \notin Bad
  <2>1. n \in Nat
    OBVIOUS
  <2> HIDE DEF Bad
  <2> QED
    BY <1>0, <1>2, <1>3, <2>1
<1>5. PICK f : Works(f, n - 1)
  BY <1>4
<1> DEFINE g == [i \in 0..n |-> IF i < n THEN f[i] ELSE step[n][f[n - 1]]]
<1>6. \A i \in 0..(n - 1) : g[i] = f[i]
  BY <1>4
<1>7. n - 1 \in 0..(n - 1) /\ n \in 0..n /\ 0 \in 0..(n - 1)
  BY <1>4
<1>8. g[n] = step[n][g[n - 1]]
  <2>1. g[n - 1] = f[n - 1]
    BY <1>6, <1>7
  <2>2. g[n] = step[n][f[n - 1]]
    BY <1>4, <1>7
  <2> HIDE DEF g
  <2> QED
    BY <2>1, <2>2
<1>9. g = [i \in 0..n |-> g[i]]
  OBVIOUS
<1> HIDE DEF g
<1>10. ASSUME NEW m \in 1..n PROVE g[m] = step[m][g[m - 1]]
  <2>1. m = n \/ (m \in 1..(n - 1) /\ m \in 0..(n - 1) /\ m - 1 \in 0..(n - 1))
    BY <1>4
  <2>2. CASE m = n
    BY <1>8, <2>2
  <2>3. CASE m \in 1..(n - 1) /\ m \in 0..(n - 1) /\ m - 1 \in 0..(n - 1)
    BY <1>5, <1>6, <2>3
  <2> QED
    BY <2>1, <2>2, <2>3
<1>11. Works(g, n)
  BY <1>5, <1>6, <1>7, <1>9, <1>10
<1> QED
  BY <1>2, <1>11

-----------------------------------------------------------------------------
(* Sums of sizes. *)

\* The size of the first items is a sum.
LEMMA UpToFacts ==
  ASSUME NEW from \in Nat \ {0}, NEW to \in Nat, from <= to + 1, NEW sizes \in [from..to -> Int]
  PROVE  /\ UpTo(sizes, from, from - 1) = 0
         /\ \A i \in from..to : UpTo(sizes, from, i) = UpTo(sizes, from, i - 1) + sizes[i]
         /\ \A i \in (from - 1)..to : UpTo(sizes, from, i) \in Int
PROOF
<1> DEFINE N == to - from + 1
           D == (from - 1)..to
           upTo[k \in {from - 1} \cup DOMAIN sizes] ==
             IF k < from THEN 0 ELSE upTo[k - 1] + sizes[k]
           step == [n \in 1..N |-> [x \in Int |-> x + sizes[from - 1 + n]]]
<1>1. /\ N \in Nat /\ D = {from - 1} \cup DOMAIN sizes /\ from - 1 \in D
      /\ \A k \in D : k \in Int /\ k - (from - 1) \in 0..N /\ (k >= from => k - 1 \in D /\ k \in from..to)
  OBVIOUS
<1>2. \A k : UpTo(sizes, from, k) = upTo[k]
  BY DEF UpTo
<1>3. \A n \in 1..N : \A x \in Int : step[n][x] = x + sizes[from - 1 + n]
  OBVIOUS
<1> HIDE DEF step
<1>4. PICK g : g = [i \in 0..N |-> g[i]] /\ g[0] = 0 /\ \A n \in 1..N : g[n] = step[n][g[n - 1]]
  <2>1. \E g : Stepped(g, step, 0, N)
    <3> HIDE DEF N
    <3> QED
      BY <1>1, StepsExist
  <2> QED
    BY <2>1 DEF Stepped
<1> DEFINE Bad == {n \in 0..N : g[n] \notin Int}
<1>5. Bad = {}
  <2> SUFFICES ASSUME Bad # {} PROVE FALSE
    OBVIOUS
  <2>1. PICK n \in Bad : \A k \in Bad : n <= k
    <3>1. Bad \in SUBSET Nat
      BY <1>1
    <3> HIDE DEF Bad
    <3> QED
      BY <3>1, LeastNumber
  <2>2. n \in 0..N /\ g[n] \notin Int
    BY <2>1
  <2>3. n \in 1..N /\ n - 1 \in 0..N /\ from - 1 + n \in from..to
    BY <1>1, <1>4, <2>2
  <2>4. n - 1 \notin Bad
    <3> HIDE DEF Bad
    <3> QED
      BY <1>1, <2>1, <2>3
  <2>5. g[n - 1] \in Int
    BY <2>3, <2>4
  <2>6. g[n] = g[n - 1] + sizes[from - 1 + n] /\ sizes[from - 1 + n] \in Int
    BY <1>3, <1>4, <2>3, <2>5
  <2> QED
    BY <2>2, <2>5, <2>6
<1>6. \A n \in 0..N : g[n] \in Int
  BY <1>5
<1> HIDE DEF Bad
<1> DEFINE f == [k \in D |-> g[k - (from - 1)]]
<1>7. \A k \in D : f[k] = IF k < from THEN 0 ELSE f[k - 1] + sizes[k]
  <2> TAKE k \in D
  <2>1. CASE k < from
    <3>1. k - (from - 1) = 0
      BY <2>1
    <3> QED
      BY <1>4, <2>1, <3>1
  <2>2. CASE k >= from
    <3>1. /\ k - 1 \in D /\ k - (from - 1) \in 1..N /\ k - 1 - (from - 1) = k - (from - 1) - 1
          /\ from - 1 + (k - (from - 1)) = k /\ k - (from - 1) - 1 \in 0..N
      BY <2>2
    <3>2. f[k] = g[k - (from - 1)] /\ f[k - 1] = g[k - (from - 1) - 1]
      BY <3>1
    <3> HIDE DEF f, N
    <3>3. g[k - (from - 1)] = g[k - (from - 1) - 1] + sizes[k]
      BY <1>3, <1>4, <1>6, <3>1
    <3> QED
      BY <2>2, <3>2, <3>3
  <2> QED
    BY <1>1, <2>1, <2>2
<1>8. f = [k \in {from - 1} \cup DOMAIN sizes |-> IF k < from THEN 0 ELSE f[k - 1] + sizes[k]]
  BY <1>1, <1>7
<1>9. \A k \in D : f[k] \in Int
  BY <1>1, <1>6
<1> HIDE DEF f
<1>10. upTo = [k \in {from - 1} \cup DOMAIN sizes |-> IF k < from THEN 0 ELSE upTo[k - 1] + sizes[k]]
  BY <1>8
<1> HIDE DEF upTo
<1>11. \A k \in D : upTo[k] = IF k < from THEN 0 ELSE upTo[k - 1] + sizes[k]
  BY <1>1, <1>10
<1> DEFINE Off == {n \in 0..N : upTo[from - 1 + n] # f[from - 1 + n]}
<1>12. Off = {}
  <2> SUFFICES ASSUME Off # {} PROVE FALSE
    OBVIOUS
  <2>1. PICK n \in Off : \A k \in Off : n <= k
    <3>1. Off \in SUBSET Nat
      BY <1>1
    <3> HIDE DEF Off
    <3> QED
      BY <3>1, LeastNumber
  <2>2. n \in 0..N /\ upTo[from - 1 + n] # f[from - 1 + n]
    BY <2>1
  <2> DEFINE k == from - 1 + n
  <2>3. k \in D /\ (n # 0 => k >= from /\ k - 1 = from - 1 + (n - 1) /\ n - 1 \in 0..N)
        /\ (n = 0 => k < from)
    BY <2>2
  <2>4. CASE n = 0
    BY <1>7, <1>11, <2>2, <2>3, <2>4
  <2>5. CASE n # 0
    <3>1. n - 1 \notin Off
      <4>1. n \in Nat /\ ~(n <= n - 1)
        BY <2>2
      <4> HIDE DEF Off
      <4> QED
        BY <2>1, <4>1
    <3>2. upTo[k - 1] = f[k - 1]
      BY <2>3, <2>5, <3>1
    <3> HIDE DEF k
    <3>3. ~(k < from)
      BY <1>1, <2>3, <2>5
    <3>4. upTo[k] = f[k]
      BY <1>7, <1>11, <2>3, <3>2, <3>3
    <3> QED
      BY <2>2, <3>4 DEF k
  <2> QED
    BY <2>4, <2>5
<1>13. \A k \in D : upTo[k] = f[k]
  <2> TAKE k \in D
  <2>1. from - 1 + (k - (from - 1)) = k /\ k - (from - 1) \in 0..N
    BY <1>1
  <2> QED
    BY <1>12, <2>1
<1> HIDE DEF Off
<1>14. /\ upTo[from - 1] = 0 /\ \A i \in from..to : upTo[i] = upTo[i - 1] + sizes[i]
       /\ \A i \in D : upTo[i] \in Int
  <2>1. \A i \in from..to : i \in D /\ ~(i < from)
    OBVIOUS
  <2>2. from - 1 < from
    OBVIOUS
  <2> HIDE DEF D
  <2> QED
    BY <1>1, <1>9, <1>11, <1>13, <2>1, <2>2
<1> QED
  BY <1>2, <1>14 DEF D

\* Items that take room make sums grow.
LEMMA UpToGrows ==
  ASSUME NEW from \in Nat \ {0}, NEW to \in Nat, from <= to + 1,
         NEW sizes \in [from..to -> Nat \ {0}],
         NEW a \in (from - 1)..to, NEW b \in (from - 1)..to, a < b
  PROVE  UpTo(sizes, from, a) < UpTo(sizes, from, b)
PROOF
<1> DEFINE E(n) == UpTo(sizes, from, n)
           Bad == {n \in (a + 1)..to : ~(E(a) < E(n))}
<1>1. /\ \A i \in from..to : E(i) = E(i - 1) + sizes[i] /\ sizes[i] \in Nat \ {0}
      /\ \A i \in (from - 1)..to : E(i) \in Int
  <2>1. sizes \in [from..to -> Int]
    OBVIOUS
  <2> QED
    BY <2>1, UpToFacts
<1> HIDE DEF E
<1>2. Bad = {}
  <2> SUFFICES ASSUME Bad # {} PROVE FALSE
    OBVIOUS
  <2>1. PICK n \in Bad : \A k \in Bad : n <= k
    <3>1. Bad \in SUBSET Nat
      OBVIOUS
    <3> HIDE DEF Bad
    <3> QED
      BY <3>1, LeastNumber
  <2>2. n \in (a + 1)..to /\ ~(E(a) < E(n))
    BY <2>1
  <2>3. n \in from..to /\ n - 1 \in (from - 1)..to /\ (n - 1 = a \/ n - 1 \in (a + 1)..to)
    BY <2>2
  <2>4. n - 1 \notin Bad
    <3> HIDE DEF Bad
    <3> QED
      BY <2>1, <2>3
  <2>5. E(a) <= E(n - 1)
    BY <1>1, <2>3, <2>4
  <2> QED
    BY <1>1, <2>2, <2>3, <2>5
<1>3. b \in (a + 1)..to
  OBVIOUS
<1> QED
  BY <1>2, <1>3 DEF E

LEMMA MinPair == ASSUME NEW a \in Int, NEW b \in Int PROVE Min({a, b}) = IF a <= b THEN a ELSE b
PROOF
<1>1. PICK m \in {a, b} : \A n \in {a, b} : m <= n
  OBVIOUS
<1>2. Min({a, b}) \in {a, b} /\ \A n \in {a, b} : Min({a, b}) <= n
  BY <1>1 DEF Min
<1> QED
  BY <1>2

LEMMA MaxPair == ASSUME NEW a \in Int, NEW b \in Int PROVE Max({a, b}) = IF a <= b THEN b ELSE a
PROOF
<1>1. PICK m \in {a, b} : \A n \in {a, b} : m >= n
  OBVIOUS
<1>2. Max({a, b}) \in {a, b} /\ \A n \in {a, b} : Max({a, b}) >= n
  BY <1>1 DEF Max
<1> QED
  BY <1>2

LEMMA MinNumber == ASSUME NEW S \in SUBSET Nat, S # {} PROVE Min(S) \in S /\ \A n \in S : Min(S) <= n
PROOF
<1>1. PICK m \in S : \A n \in S : m <= n
  BY LeastNumber
<1> QED
  BY <1>1 DEF Min

\* The window has the items that reach into the part that is shown.
LEMMA WindowFacts ==
  ASSUME NEW v, v.from \in Nat \ {0}, v.to \in Nat, v.from <= v.to, NEW y \in Int,
         NEW sizes \in [Items(v) -> Nat \ {0}]
  PROVE  LET w == Window(v, sizes, y) IN
         /\ w.first \in Items(v) /\ w.last \in Items(v) /\ w.first <= w.last
         /\ w.total = UpTo(sizes, v.from, v.to) /\ w.total \in Nat \ {0}
         /\ y >= 0 /\ y < w.total =>
              \A i \in Items(v) : /\ UpTo(sizes, v.from, i) > y => w.first <= i
                                  /\ UpTo(sizes, v.from, i - 1) < y + ViewHeight => i <= w.last
PROOF
<1> DEFINE from == v.from
           to   == v.to
           end(i) == UpTo(sizes, v.from, i)
           total  == end(v.to)
           first  == Max({0, Min({y, total - 1})})
           beyond == Max({1, Min({Max({y + ViewHeight, first + 1}), total})})
           A == {i \in Items(v) : end(i) > first}
           B == {i \in Items(v) : end(i) >= beyond}
<1>1. Items(v) = from..to /\ to \in Items(v) /\ Items(v) \in SUBSET Nat /\ ViewHeight \in Nat \ {0}
  BY ListAssumption DEF Items
<1>2. sizes \in [from..to -> Nat \ {0}] /\ sizes \in [from..to -> Int]
  BY <1>1
<1>3. end(from - 1) = 0 /\ \A i \in (from - 1)..to : end(i) \in Int
  BY <1>2, UpToFacts
<1>4. \A a, b \in (from - 1)..to : a < b => end(a) < end(b)
  BY <1>2, UpToGrows
<1>5. total \in Nat \ {0} /\ \A i \in from..to : end(i) <= total
  <2>1. from - 1 \in (from - 1)..to /\ to \in (from - 1)..to /\ from - 1 < to
        /\ \A i \in from..to : i \in (from - 1)..to /\ (i = to \/ i < to)
    OBVIOUS
  <2> HIDE DEF end, from, to
  <2> QED
    BY <1>3, <1>4, <2>1 DEF to
<1> HIDE DEF end, total
<1>6. first = (IF y < 0 THEN 0 ELSE IF y < total THEN y ELSE total - 1)
  <2>1. Min({y, total - 1}) = IF y <= total - 1 THEN y ELSE total - 1
    BY <1>5, MinPair
  <2>2. Min({y, total - 1}) \in Int
    BY <1>5, <2>1
  <2>3. first = IF 0 <= Min({y, total - 1}) THEN Min({y, total - 1}) ELSE 0
    BY <2>2, MaxPair
  <2> QED
    BY <1>5, <2>1, <2>3
<1>7. first \in Nat /\ first < total
  BY <1>5, <1>6
<1> HIDE DEF first
<1>8. /\ beyond \in Nat /\ beyond <= total /\ first < beyond
      /\ first = y => beyond = y + ViewHeight \/ beyond = total
  <2> DEFINE far == Max({y + ViewHeight, first + 1})
             near == Min({far, total})
  <2>1. far = IF y + ViewHeight <= first + 1 THEN first + 1 ELSE y + ViewHeight
    BY <1>1, <1>7, MaxPair
  <2>2. far \in Int /\ far >= first + 1 /\ (first = y => far = y + ViewHeight)
    BY <1>1, <1>7, <2>1
  <2> HIDE DEF far
  <2>3. near = IF far <= total THEN far ELSE total
    BY <1>5, <2>2, MinPair
  <2>4. near \in Int /\ near >= first + 1
    BY <1>5, <1>7, <2>2, <2>3
  <2> HIDE DEF near
  <2>5. beyond = IF 1 <= near THEN near ELSE 1
    <3>1. beyond = Max({1, near})
      BY DEF near, far
    <3> HIDE DEF beyond
    <3> QED
      BY <1>7, <2>4, <3>1, MaxPair
  <2> QED
    BY <1>5, <1>7, <2>2, <2>3, <2>4, <2>5
<1> HIDE DEF beyond
<1>9. Window(v, sizes, y) = [first |-> Min(A), last |-> Min(B), total |-> total]
  BY DEF Window, first, beyond, total, end
<1>10. to \in A /\ to \in B /\ A \in SUBSET Nat /\ B \in SUBSET Nat
  BY <1>1, <1>5, <1>7, <1>8 DEF total
<1>11. Min(A) \in A /\ (\A i \in A : Min(A) <= i) /\ Min(B) \in B
  <2> HIDE DEF A, B
  <2> QED
    BY <1>10, MinNumber
<1>12. Min(A) \in Items(v) /\ Min(B) \in Items(v) /\ end(Min(B)) >= beyond /\ Min(A) <= Min(B)
  <2>1. Min(A) \in Items(v) /\ Min(B) \in Items(v) /\ end(Min(B)) >= beyond
    BY <1>11
  <2>2. end(Min(B)) \in Int /\ Min(B) \in (from - 1)..to
    BY <1>1, <1>3, <2>1
  <2>3. end(Min(B)) > first
    BY <1>7, <1>8, <2>1, <2>2
  <2>4. Min(B) \in A
    BY <2>1, <2>3
  <2> QED
    BY <1>11, <2>1, <2>4
<1>13. ASSUME y >= 0, y < total, NEW i \in Items(v)
       PROVE  /\ end(i) > y => Min(A) <= i
              /\ end(i - 1) < y + ViewHeight => i <= Min(B)
  <2>1. first = y
    BY <1>6, <1>13
  <2>2. end(i) > y => Min(A) <= i
    BY <1>11, <2>1
  <2>3. ASSUME end(i - 1) < y + ViewHeight, ~(i <= Min(B)) PROVE FALSE
    <3> DEFINE b == Min(B)
    <3>1. b \in from..to /\ end(b) >= beyond
      BY <1>1, <1>12
    <3> HIDE DEF b
    <3>2. i \in from..to /\ b < i
      BY <1>1, <1>13, <2>3, <3>1 DEF b
    <3> HIDE DEF from, to
    <3>3. /\ from \in Nat \ {0} /\ to \in Nat
      BY DEF from, to
    <3>4. /\ i - 1 \in (from - 1)..to /\ b \in (from - 1)..to /\ to \in (from - 1)..to
          /\ (b = i - 1 \/ b < i - 1) /\ i - 1 < to
      BY <3>1, <3>2, <3>3
    <3>5. end(b) <= end(i - 1) /\ end(i - 1) < end(to) /\ end(b) \in Int /\ end(i - 1) \in Int
      BY <1>3, <1>4, <3>4
    <3>6. end(to) = total
      BY DEF total, to
    <3> QED
      BY <1>1, <1>5, <1>8, <2>1, <2>3, <3>1, <3>5, <3>6
  <2> QED
    BY <2>2, <2>3
<1> HIDE DEF A, B
<1> QED
  BY <1>5, <1>9, <1>12, <1>13 DEF total, end
-----------------------------------------------------------------------------
(* Lists. *)

Partial(S) == UNION {[D -> S] : D \in SUBSET (1..Supply)}
Boundaries == {<<>>} \cup (Nat \X Nat)

Views ==
  [tall : [1..Supply -> Nat \ {0}], from : Nat \ {0}, to : Nat, busy : ListEdges \cup {"none"},
   connected : SUBSET (1..Supply), spaced : Partial(Nat \ {0}), known : Partial(Nat \ {0}),
   scroll : Nat, scrolled : BOOLEAN, frame : BOOLEAN, focus : Nat,
   pending : Partial(Int), stable : Partial(Int), lasting : Partial(Int), passes : 0..2,
   asked : [ListEdges -> Boundaries], tasks : Seq(ListEdges \X Boundaries)]

\* A list that has items, each of which is connected or has its room in a spacer.
Standing(v) ==
  /\ v \in Views /\ v.from <= v.to /\ v.to <= Supply
  /\ v.connected \subseteq Items(v) /\ DOMAIN v.spaced = Items(v) \ v.connected

SameItems(u, v) ==
  /\ u.tall = v.tall /\ u.from = v.from /\ u.to = v.to /\ u.busy = v.busy /\ u.focus = v.focus
SamePlaces(u, v) == u.connected = v.connected /\ u.spaced = v.spaced
SameAnchors(u, v) == u.pending = v.pending /\ u.stable = v.stable /\ u.lasting = v.lasting
SameQuestions(u, v) == u.asked = v.asked /\ u.tasks = v.tasks

LEMMA PartialFacts ==
  ASSUME NEW S, NEW f
  PROVE  f \in Partial(S) <=> DOMAIN f \subseteq 1..Supply /\ f \in [DOMAIN f -> S]
PROOF
<1>1. ASSUME f \in Partial(S) PROVE DOMAIN f \subseteq 1..Supply /\ f \in [DOMAIN f -> S]
  <2>1. PICK D \in SUBSET (1..Supply) : f \in [D -> S]
    BY <1>1 DEF Partial
  <2> QED
    BY <2>1
<1>2. ASSUME DOMAIN f \subseteq 1..Supply, f \in [DOMAIN f -> S] PROVE f \in Partial(S)
  BY <1>2 DEF Partial
<1> QED
  BY <1>1, <1>2

LEMMA NoAnchorFacts == ASSUME NEW S PROVE NoAnchor \in Partial(S) /\ DOMAIN NoAnchor = {}
PROOF
<1>1. NoAnchor \in [{} -> S] /\ DOMAIN NoAnchor = {}
  BY DEF NoAnchor
<1> QED
  BY <1>1, PartialFacts

LEMMA EmptyIsNoAnchor ==
  ASSUME NEW S, NEW f \in Partial(S), DOMAIN f = {}
  PROVE  f = NoAnchor
PROOF
<1>1. f \in [DOMAIN f -> S]
  BY PartialFacts
<1> QED
  BY <1>1 DEF NoAnchor

\* Each item takes room.
LEMMA BlocksFacts ==
  ASSUME NEW v, Standing(v)
  PROVE  /\ Items(v) = v.from..v.to /\ Items(v) \subseteq 1..Supply /\ Items(v) \in SUBSET Nat
         /\ Blocks(v) \in [Items(v) -> Nat \ {0}]
         /\ UpTo(Blocks(v), v.from, v.from - 1) = 0
         /\ \A i \in Items(v) : UpTo(Blocks(v), v.from, i) = UpTo(Blocks(v), v.from, i - 1) + Block(v, i)
         /\ \A i \in (v.from - 1)..v.to : UpTo(Blocks(v), v.from, i) \in Nat
         /\ \A i, j \in (v.from - 1)..v.to :
              i < j => UpTo(Blocks(v), v.from, i) < UpTo(Blocks(v), v.from, j)
         /\ \A i \in Items(v) : Top(v, i) \in Int
         /\ UpTo(Blocks(v), v.from, v.to) \in Nat \ {0}
         /\ Furthest(v) = (IF UpTo(Blocks(v), v.from, v.to) <= ViewHeight THEN 0
                           ELSE UpTo(Blocks(v), v.from, v.to) - ViewHeight)
         /\ Furthest(v) \in Nat /\ Furthest(v) < UpTo(Blocks(v), v.from, v.to)
PROOF
<1>1. /\ v \in Views /\ v.from \in Nat \ {0} /\ v.to \in Nat /\ v.from <= v.to /\ v.to <= Supply
      /\ v.from <= v.to + 1 /\ v.tall \in [1..Supply -> Nat \ {0}]
      /\ Supply \in Nat /\ ViewHeight \in Nat \ {0}
  BY ListAssumption DEF Standing, Views
<1>2. Items(v) = v.from..v.to /\ Items(v) \subseteq 1..Supply /\ Items(v) \in SUBSET Nat
  BY <1>1 DEF Items
<1>3. v.spaced \in [Items(v) \ v.connected -> Nat \ {0}]
  <2>1. v.spaced \in Partial(Nat \ {0}) /\ DOMAIN v.spaced = Items(v) \ v.connected
    BY <1>1 DEF Standing, Views
  <2> QED
    BY <2>1, PartialFacts
<1>4. \A i \in Items(v) : Block(v, i) \in Nat \ {0}
  BY <1>1, <1>2, <1>3 DEF Block
<1>5. /\ Blocks(v) \in [Items(v) -> Nat \ {0}] /\ Blocks(v) \in [v.from..v.to -> Nat \ {0}]
      /\ Blocks(v) \in [v.from..v.to -> Int] /\ \A i \in Items(v) : Blocks(v)[i] = Block(v, i)
  BY <1>2, <1>4 DEF Blocks
<1> DEFINE end(i) == UpTo(Blocks(v), v.from, i)
<1>6. /\ end(v.from - 1) = 0
      /\ \A i \in v.from..v.to : end(i) = end(i - 1) + Blocks(v)[i]
      /\ \A i \in (v.from - 1)..v.to : end(i) \in Int
  <2> DEFINE f == v.from
             t == v.to
             s == Blocks(v)
  <2>1. f \in Nat \ {0} /\ t \in Nat /\ f <= t + 1 /\ s \in [f..t -> Int]
    BY <1>1, <1>5
  <2> HIDE DEF f, t, s
  <2>2. /\ UpTo(s, f, f - 1) = 0
        /\ \A i \in f..t : UpTo(s, f, i) = UpTo(s, f, i - 1) + s[i]
        /\ \A i \in (f - 1)..t : UpTo(s, f, i) \in Int
    BY <2>1, UpToFacts
  <2> QED
    BY <2>2 DEF f, t, s
<1>7. \A a, b \in (v.from - 1)..v.to : a < b => end(a) < end(b)
  <2> DEFINE f == v.from
             t == v.to
             s == Blocks(v)
  <2>1. f \in Nat \ {0} /\ t \in Nat /\ f <= t + 1 /\ s \in [f..t -> Nat \ {0}]
    BY <1>1, <1>5
  <2> HIDE DEF f, t, s
  <2>2. \A a, b \in (f - 1)..t : a < b => UpTo(s, f, a) < UpTo(s, f, b)
    BY <2>1, UpToGrows
  <2> QED
    BY <2>2 DEF f, t, s
<1> HIDE DEF end
<1>8. \A i \in (v.from - 1)..v.to : end(i) \in Nat
  <2> TAKE i \in (v.from - 1)..v.to
  <2>1. v.from - 1 \in (v.from - 1)..v.to /\ (i = v.from - 1 \/ v.from - 1 < i)
    BY <1>1
  <2> QED
    BY <1>6, <1>7, <2>1
<1>9. end(v.to) \in Nat \ {0}
  <2>1. v.from - 1 \in (v.from - 1)..v.to /\ v.from - 1 < v.to /\ v.to \in (v.from - 1)..v.to
    BY <1>1
  <2> QED
    BY <1>6, <1>7, <1>8, <2>1
<1>10. Furthest(v) = IF end(v.to) <= ViewHeight THEN 0 ELSE end(v.to) - ViewHeight
  <2>1. end(v.to) - ViewHeight \in Int
    BY <1>1, <1>9
  <2>2. Furthest(v) = Max({0, end(v.to) - ViewHeight})
    BY DEF Furthest, end
  <2>3. Furthest(v) = IF 0 <= end(v.to) - ViewHeight THEN end(v.to) - ViewHeight ELSE 0
    BY <2>1, <2>2, MaxPair
  <2> QED
    BY <1>1, <1>9, <2>3
<1>11. \A i \in Items(v) : Top(v, i) \in Int
  <2> TAKE i \in Items(v)
  <2>1. i - 1 \in (v.from - 1)..v.to /\ v.scroll \in Nat
    BY <1>1, <1>2 DEF Views
  <2> QED
    BY <1>6, <2>1 DEF Top, end
<1> QED
  BY <1>1, <1>2, <1>5, <1>6, <1>7, <1>8, <1>9, <1>10, <1>11 DEF end

LEMMA SameBlocks ==
  ASSUME NEW u, NEW v, u.tall = v.tall, u.from = v.from, u.to = v.to, SamePlaces(u, v)
  PROVE  Items(u) = Items(v) /\ Blocks(u) = Blocks(v) /\ Furthest(u) = Furthest(v)
PROOF
<1>1. Items(u) = Items(v)
  BY DEF Items
<1>2. \A i : Block(u, i) = Block(v, i)
  BY DEF Block, SamePlaces
<1>3. Blocks(u) = Blocks(v)
  BY <1>1, <1>2 DEF Blocks
<1> QED
  BY <1>1, <1>3 DEF Furthest

\* u is v, which the browser moved to y, as far as the list goes.
IsScrolledTo(u, v, y) ==
         /\ Standing(u) /\ SameItems(u, v) /\ SamePlaces(u, v) /\ u.known = v.known
         /\ SameAnchors(u, v) /\ SameQuestions(u, v) /\ u.passes = v.passes /\ u.frame = v.frame
         /\ u.scroll = (IF y < 0 THEN 0 ELSE IF y <= Furthest(v) THEN y ELSE Furthest(v))
         /\ u.scroll \in 0..Furthest(v)
         /\ (u.scrolled <=> v.scrolled \/ u.scroll # v.scroll)
         /\ Blocks(u) = Blocks(v) /\ Furthest(u) = Furthest(v) /\ Items(u) = Items(v)

LEMMA ScrolledFacts ==
  ASSUME NEW v, Standing(v), NEW y \in Int
  PROVE  IsScrolledTo(ScrolledTo(v, y), v, y)
PROOF
<1> SUFFICES ASSUME NEW u, u = ScrolledTo(v, y) PROVE IsScrolledTo(u, v, y)
  OBVIOUS
<1> DEFINE to == Max({0, Min({y, Furthest(v)})})
<1>1. v \in Views /\ Furthest(v) \in Nat
  BY BlocksFacts DEF Standing
<1>2. to = (IF y < 0 THEN 0 ELSE IF y <= Furthest(v) THEN y ELSE Furthest(v)) /\ to \in 0..Furthest(v)
  <2>1. Min({y, Furthest(v)}) = IF y <= Furthest(v) THEN y ELSE Furthest(v)
    BY <1>1, MinPair
  <2>2. to = IF 0 <= Min({y, Furthest(v)}) THEN Min({y, Furthest(v)}) ELSE 0
    BY <1>1, <2>1, MaxPair
  <2> QED
    BY <1>1, <2>1, <2>2
<1>3. u = [v EXCEPT !.scroll = to, !.scrolled = @ \/ to # v.scroll]
  BY DEF ScrolledTo
<1> HIDE DEF to
<1> DEFINE scrolled == v.scrolled \/ to # v.scroll
<1>4. /\ u \in Views /\ u.scroll = to /\ (u.scrolled <=> v.scrolled \/ to # v.scroll)
      /\ SameItems(u, v) /\ SamePlaces(u, v) /\ u.known = v.known
      /\ SameAnchors(u, v) /\ SameQuestions(u, v) /\ u.passes = v.passes /\ u.frame = v.frame
  <2>1. to \in Nat /\ scrolled \in BOOLEAN
    BY <1>1, <1>2
  <2>2. u = [v EXCEPT !.scroll = to, !.scrolled = scrolled]
    BY <1>1, <1>3 DEF Views
  <2> HIDE DEF scrolled
  <2>3. /\ u \in Views /\ u.scroll = to /\ u.scrolled = scrolled
        /\ SameItems(u, v) /\ SamePlaces(u, v) /\ u.known = v.known
        /\ SameAnchors(u, v) /\ SameQuestions(u, v) /\ u.passes = v.passes /\ u.frame = v.frame
    BY <1>1, <2>1, <2>2 DEF Views, SameItems, SamePlaces, SameAnchors, SameQuestions
  <2> QED
    BY <2>3 DEF scrolled
<1>5. Items(u) = Items(v) /\ Blocks(u) = Blocks(v) /\ Furthest(u) = Furthest(v)
  BY <1>4, SameBlocks DEF SameItems
<1>6. Standing(u)
  BY <1>4, <1>5 DEF Standing, SameItems, SamePlaces
<1> QED
  BY <1>2, <1>4, <1>5, <1>6 DEF IsScrolledTo

LEMMA CapturedFacts ==
  ASSUME NEW v, Standing(v)
  PROVE  /\ Captured(v) \in Partial(Int) /\ DOMAIN Captured(v) = InView(v) \cap v.connected
         /\ \A i \in DOMAIN Captured(v) : Captured(v)[i] = Top(v, i)
PROOF
<1>1. InView(v) \subseteq Items(v) /\ Items(v) \subseteq 1..Supply /\ \A i \in Items(v) : Top(v, i) \in Int
  BY BlocksFacts DEF InView
<1>2. Captured(v) = [i \in InView(v) \cap v.connected |-> Top(v, i)]
  BY DEF Captured
<1>3. Captured(v) \in [InView(v) \cap v.connected -> Int]
  BY <1>1, <1>2
<1> QED
  BY <1>1, <1>2, <1>3, PartialFacts

LEMMA OrElseFacts ==
  ASSUME NEW f \in Partial(Int), NEW g \in Partial(Int)
  PROVE  /\ OrElse(f, g) \in Partial(Int)
         /\ OrElse(f, g) = IF DOMAIN f = {} THEN g ELSE f
BY EmptyIsNoAnchor, NoAnchorFacts DEF OrElse

\* u is v, where the items ids were measured.
IsMeasured(u, v, ids) ==
         /\ Standing(u) /\ SameItems(u, v) /\ SamePlaces(u, v) /\ SameQuestions(u, v)
         /\ u.stable = v.stable /\ u.lasting = v.lasting /\ u.passes = v.passes
         /\ u.scroll = v.scroll /\ u.scrolled = v.scrolled /\ u.frame = v.frame
         /\ DOMAIN u.known = DOMAIN v.known \cup ids
         /\ \A i \in ids : u.known[i] = v.tall[i]
         /\ \A i \in DOMAIN v.known \ ids : u.known[i] = v.known[i]
         /\ u.pending = v.pending \/ u.pending = OrElse(v.pending, v.stable)
         /\ Blocks(u) = Blocks(v) /\ Furthest(u) = Furthest(v) /\ Items(u) = Items(v)

LEMMA MeasuredFacts ==
  ASSUME NEW v, Standing(v), NEW ids \in SUBSET Items(v)
  PROVE  IsMeasured(Measured(v, ids), v, ids)
PROOF
<1> SUFFICES ASSUME NEW u, u = Measured(v, ids) PROVE IsMeasured(u, v, ids)
  OBVIOUS
<1> DEFINE known == [i \in DOMAIN v.known \cup ids |-> IF i \in ids THEN v.tall[i] ELSE v.known[i]]
<1>1. /\ v \in Views /\ Items(v) \subseteq 1..Supply /\ ids \subseteq 1..Supply
      /\ v.tall \in [1..Supply -> Nat \ {0}] /\ v.known \in Partial(Nat \ {0})
      /\ v.pending \in Partial(Int) /\ v.stable \in Partial(Int)
  BY BlocksFacts DEF Standing, Views
<1>2. /\ known \in Partial(Nat \ {0}) /\ DOMAIN known = DOMAIN v.known \cup ids
      /\ \A i \in ids : known[i] = v.tall[i] /\ \A j \in DOMAIN v.known \ ids : known[j] = v.known[j]
  <2>1. v.known \in [DOMAIN v.known -> Nat \ {0}] /\ DOMAIN v.known \subseteq 1..Supply
    BY <1>1, PartialFacts
  <2>2. known \in [DOMAIN v.known \cup ids -> Nat \ {0}]
    BY <1>1, <2>1
  <2>3. DOMAIN known = DOMAIN v.known \cup ids /\ DOMAIN known \subseteq 1..Supply
    BY <1>1, <2>1
  <2>4. known \in Partial(Nat \ {0})
    BY <2>2, <2>3, PartialFacts
  <2> QED
    BY <2>3, <2>4
<1>3. u = [v EXCEPT !.known = known, !.pending = IF known = v.known THEN @ ELSE OrElse(@, v.stable)]
  BY DEF Measured
<1>4. \A i \in DOMAIN v.known \ ids : known[i] = v.known[i]
  OBVIOUS
<1>5. \A i \in ids : known[i] = v.tall[i]
  OBVIOUS
<1> HIDE DEF known
<1>6. OrElse(v.pending, v.stable) \in Partial(Int)
  BY <1>1, OrElseFacts
<1>7. /\ u \in Views /\ u.known = known /\ SameItems(u, v) /\ SamePlaces(u, v) /\ SameQuestions(u, v)
      /\ u.stable = v.stable /\ u.lasting = v.lasting /\ u.passes = v.passes
      /\ u.scroll = v.scroll /\ u.scrolled = v.scrolled /\ u.frame = v.frame
      /\ (u.pending = v.pending \/ u.pending = OrElse(v.pending, v.stable))
  BY <1>1, <1>2, <1>3, <1>6 DEF Views, SameItems, SamePlaces, SameQuestions
<1>8. Items(u) = Items(v) /\ Blocks(u) = Blocks(v) /\ Furthest(u) = Furthest(v)
  BY <1>7, SameBlocks DEF SameItems
<1>9. Standing(u)
  BY <1>7, <1>8 DEF Standing, SameItems, SamePlaces
<1> QED
  BY <1>2, <1>4, <1>5, <1>7, <1>8, <1>9 DEF IsMeasured

\* The first item of an anchor.
Anchors(anchor, m) == m \in DOMAIN anchor /\ \A i \in DOMAIN anchor : m <= i

AtEnds(u) == u.scroll \in {0, Furthest(u)}

\* u is v, where the anchor was put in its place.
IsRestored(u, v) ==
         /\ Standing(u) /\ SameItems(u, v) /\ SamePlaces(u, v) /\ u.known = v.known
         /\ SameQuestions(u, v) /\ u.pending = NoAnchor /\ u.stable = v.stable
         /\ u.lasting = v.lasting /\ u.passes = v.passes
         /\ u.scroll \in 0..Furthest(v)
         /\ (u.scrolled <=> v.scrolled \/ u.scroll # v.scroll)
         /\ u.scroll # v.scroll => u.frame
         /\ v.frame => u.frame
         /\ \A m \in v.connected : Anchors(v.pending, m) =>
              IF Top(v, m) = v.pending[m] THEN u.scroll = v.scroll /\ u.frame = v.frame
              ELSE u.scroll # v.scroll \/ AtEnds(v)

LEMMA RestoredFacts ==
  ASSUME NEW v, Standing(v), v.scroll \in 0..Furthest(v)
  PROVE  IsRestored(Restored(v), v)
PROOF
<1> SUFFICES ASSUME NEW u, u = Restored(v) PROVE IsRestored(u, v)
  OBVIOUS
<1> DEFINE there == DOMAIN v.pending \cap v.connected
           first == Min(there)
           delta == Top(v, first) - v.pending[first]
           done  == [v EXCEPT !.pending = NoAnchor]
           s == ScrolledTo(done, v.scroll + delta)
<1>1. u = IF there = {} THEN done ELSE IF delta = 0 THEN done ELSE [s EXCEPT !.frame = TRUE]
  BY DEF Restored
<1>2. /\ v \in Views /\ v.connected \subseteq Items(v) /\ Items(v) \in SUBSET Nat
      /\ Furthest(v) \in Nat /\ v.scroll \in Nat /\ v.pending \in [DOMAIN v.pending -> Int]
      /\ \A i \in Items(v) : Top(v, i) \in Int
  <2>1. v.pending \in Partial(Int) /\ v.scroll \in Nat
    BY DEF Standing, Views
  <2> QED
    BY <2>1, BlocksFacts, PartialFacts DEF Standing
<1>3. /\ done \in Views /\ SameItems(done, v) /\ SamePlaces(done, v) /\ done.known = v.known
      /\ SameQuestions(done, v) /\ done.pending = NoAnchor /\ done.stable = v.stable
      /\ done.lasting = v.lasting /\ done.passes = v.passes /\ done.scroll = v.scroll
      /\ done.scrolled = v.scrolled /\ done.frame = v.frame
  <2>1. NoAnchor \in Partial(Int)
    BY NoAnchorFacts
  <2> QED
    BY <1>2, <2>1 DEF Views, SameItems, SamePlaces, SameQuestions
<1> HIDE DEF done
<1>4. Items(done) = Items(v) /\ Blocks(done) = Blocks(v) /\ Furthest(done) = Furthest(v)
  BY <1>3, SameBlocks DEF SameItems
<1>5. Standing(done)
  BY <1>3, <1>4 DEF Standing, SameItems, SamePlaces
<1>6. \A m \in v.connected : Anchors(v.pending, m) => there # {} /\ first = m
  <2> TAKE m \in v.connected
  <2> HAVE Anchors(v.pending, m)
  <2>1. m \in there /\ \A i \in there : m <= i
    BY DEF Anchors
  <2>2. there \in SUBSET Nat
    BY <1>2
  <2> HIDE DEF there
  <2>3. Min(there) \in there /\ \A n \in there : Min(there) <= n
    BY <2>1, <2>2, MinNumber
  <2>4. Min(there) \in Nat /\ m \in Nat /\ m <= Min(there) /\ Min(there) <= m
    BY <2>1, <2>2, <2>3
  <2> QED
    BY <2>1, <2>4
<1>7. CASE there = {} \/ delta = 0
  <2>1. u = done
    BY <1>1, <1>7
  <2>2. ASSUME NEW m \in v.connected, Anchors(v.pending, m) PROVE Top(v, m) = v.pending[m]
    <3>1. delta = 0 /\ first = m
      BY <1>6, <1>7, <2>2
    <3>2. Top(v, m) \in Int /\ v.pending[m] \in Int
      BY <1>2, <2>2 DEF Anchors
    <3> HIDE DEF first
    <3> QED
      BY <3>1, <3>2
  <2>3. \A m \in v.connected : Anchors(v.pending, m) =>
              IF Top(v, m) = v.pending[m] THEN u.scroll = v.scroll /\ u.frame = v.frame
              ELSE u.scroll # v.scroll \/ AtEnds(v)
    BY <1>3, <2>1, <2>2
  <2>4. v.scrolled \in BOOLEAN
    BY <1>2 DEF Views
  <2> QED
    BY <1>3, <1>5, <2>1, <2>3, <2>4 DEF IsRestored
<1>8. CASE ~(there = {} \/ delta = 0)
  <2>1. u = [s EXCEPT !.frame = TRUE]
    BY <1>1, <1>8
  <2>2. first \in v.connected /\ first \in DOMAIN v.pending
    <3>1. there \in SUBSET Nat /\ there # {}
      BY <1>2, <1>8
    <3>2. first \in there
      <4> HIDE DEF there
      <4> QED
        BY <3>1, MinNumber
    <3> QED
      BY <3>2
  <2>3. delta \in Int /\ v.scroll + delta \in Int /\ v.scroll + delta # v.scroll
    <3>1. Top(v, first) \in Int /\ v.pending[first] \in Int
      BY <1>2, <2>2
    <3> HIDE DEF first
    <3> QED
      BY <1>2, <1>8, <3>1
  <2> DEFINE y == v.scroll + delta
  <2>4. y \in Int /\ y # v.scroll /\ s = ScrolledTo(done, y)
    BY <2>3
  <2> HIDE DEF y, s
  <2>5. /\ Standing(s) /\ SameItems(s, done) /\ SamePlaces(s, done) /\ s.known = done.known
        /\ SameAnchors(s, done) /\ SameQuestions(s, done) /\ s.passes = done.passes
        /\ s.scroll = (IF y < 0 THEN 0 ELSE IF y <= Furthest(done) THEN y ELSE Furthest(done))
        /\ s.scroll \in 0..Furthest(done)
        /\ (s.scrolled <=> done.scrolled \/ s.scroll # done.scroll)
        /\ Blocks(s) = Blocks(done) /\ Furthest(s) = Furthest(done) /\ Items(s) = Items(done)
    <3>1. IsScrolledTo(s, done, y)
      BY <1>5, <2>4, ScrolledFacts
    <3> QED
      BY <3>1 DEF IsScrolledTo
  <2>6. s \in Views
    BY <2>5 DEF Standing
  <2>7. /\ u \in Views /\ SameItems(u, s) /\ SamePlaces(u, s) /\ u.known = s.known
        /\ SameAnchors(u, s) /\ SameQuestions(u, s) /\ u.passes = s.passes
        /\ u.scroll = s.scroll /\ u.scrolled = s.scrolled /\ u.frame = TRUE
    BY <2>1, <2>6 DEF Views, SameItems, SamePlaces, SameAnchors, SameQuestions
  <2>8. Items(u) = Items(s)
    BY <2>7 DEF SameItems, Items
  <2>9. Standing(u)
    BY <2>5, <2>7, <2>8 DEF Standing, SameItems, SamePlaces
  <2>10. SameItems(u, v) /\ SamePlaces(u, v) /\ u.known = v.known /\ SameQuestions(u, v)
         /\ u.pending = NoAnchor /\ u.stable = v.stable /\ u.lasting = v.lasting /\ u.passes = v.passes
    BY <1>3, <2>5, <2>7 DEF SameItems, SamePlaces, SameQuestions, SameAnchors
  <2>11. u.scroll # v.scroll \/ AtEnds(v)
    BY <1>2, <1>3, <1>4, <2>4, <2>5, <2>7 DEF AtEnds
  <2>12. ASSUME NEW m \in v.connected, Anchors(v.pending, m) PROVE Top(v, m) # v.pending[m]
    <3>1. first = m
      BY <1>6, <2>12
    <3>2. Top(v, m) \in Int /\ v.pending[m] \in Int
      BY <1>2, <2>12 DEF Anchors
    <3> HIDE DEF first
    <3> QED
      BY <1>8, <3>1, <3>2
  <2>13. u.scroll \in 0..Furthest(v) /\ (u.scrolled <=> v.scrolled \/ u.scroll # v.scroll) /\ u.frame
    BY <1>3, <1>4, <2>5, <2>7
  <2> QED
    BY <2>9, <2>10, <2>11, <2>12, <2>13 DEF IsRestored
<1> QED
  BY <1>7, <1>8

\* u is v after the placement of its items.
IsSettled(u, v) ==
  /\ Standing(u) /\ SameItems(u, v) /\ SamePlaces(u, v) /\ u.known = v.known
  /\ SameQuestions(u, v)
  /\ Items(u) = Items(v) /\ Blocks(u) = Blocks(v) /\ Furthest(u) = Furthest(v)
  /\ u.scroll \in 0..Furthest(v)
  /\ v.scrolled => u.scrolled
  /\ u.scroll # v.scroll => u.scrolled
  /\ u.passes = (IF v.passes = 0 THEN 0 ELSE v.passes - 1)
  /\ u.lasting = (IF v.passes = 1 THEN NoAnchor ELSE v.lasting)
  /\ u.pending = (IF u.passes = 0 THEN NoAnchor ELSE v.lasting)
  /\ u.passes > 0 => u.frame
  /\ u.stable = Captured(u)
  /\ ~u.scrolled => \A m \in v.connected : Anchors(v.pending, m) =>
       IF Top(u, m) = v.pending[m] THEN u.passes = 0 => u.frame = v.frame
       ELSE AtEnds(u)

LEMMA SameTops ==
  ASSUME NEW u, NEW v, Blocks(u) = Blocks(v), u.from = v.from, u.to = v.to, u.scroll = v.scroll,
         u.connected = v.connected
  PROVE  /\ \A i : Top(u, i) = Top(v, i)
         /\ Captured(u) = Captured(v)
         /\ InView(u) = InView(v)
PROOF
<1>1. \A i : Top(u, i) = Top(v, i)
  BY DEF Top
<1>2. Items(u) = Items(v)
  BY DEF Items
<1>3. \A i \in Items(v) : Block(u, i) = Block(v, i)
  <2>1. \A i \in Items(v) : Blocks(u)[i] = Block(u, i) /\ Blocks(v)[i] = Block(v, i)
    BY <1>2 DEF Blocks
  <2> QED
    BY <2>1
<1>4. InView(u) = InView(v)
  BY <1>1, <1>2, <1>3 DEF InView
<1> QED
  BY <1>1, <1>4 DEF Captured

\* What continues a settlement of the viewport touches nothing else.
LEMMA PassesFacts ==
  ASSUME NEW s \in Views
  PROVE  LET u == PassesOn(s) IN
         /\ u \in Views /\ SameItems(u, s) /\ SamePlaces(u, s) /\ u.known = s.known
         /\ SameQuestions(u, s) /\ u.stable = s.stable
         /\ u.scroll = s.scroll /\ u.scrolled = s.scrolled
         /\ u.passes = (IF s.passes = 0 THEN 0 ELSE s.passes - 1)
         /\ u.lasting = (IF s.passes = 1 THEN NoAnchor ELSE s.lasting)
         /\ u.pending = (IF u.passes = 0 THEN s.pending ELSE s.lasting)
         /\ (u.passes = 0 => u.frame = s.frame)
         /\ (u.passes > 0 => u.frame)
PROOF
<1> DEFINE u == PassesOn(s)
<1>1. s.passes \in 0..2 /\ s.lasting \in Partial(Int) /\ NoAnchor \in Partial(Int)
      /\ s.frame \in BOOLEAN
  BY NoAnchorFacts DEF Views
<1>2. CASE s.passes = 0
  <2>1. u = s
    BY <1>2 DEF PassesOn
  <2> HIDE DEF u
  <2>2. SameItems(u, s) /\ SamePlaces(u, s) /\ SameQuestions(u, s)
    BY <2>1 DEF SameItems, SamePlaces, SameQuestions
  <2>3. u.passes = 0 /\ ~(u.passes > 0) /\ s.passes # 1
    BY <1>2, <2>1
  <2> QED
    BY <1>2, <2>1, <2>2, <2>3 DEF u
<1>3. CASE s.passes = 1
  <2>1. u = [s EXCEPT !.passes = 0, !.lasting = NoAnchor]
    BY <1>3 DEF PassesOn
  <2> HIDE DEF u
  <2>2. u.passes = 0 /\ u.lasting = NoAnchor /\ u.pending = s.pending /\ u.frame = s.frame
        /\ u.scroll = s.scroll /\ u.scrolled = s.scrolled /\ u.stable = s.stable /\ u.known = s.known
    BY <2>1 DEF Views
  <2>3. SameItems(u, s) /\ SamePlaces(u, s) /\ SameQuestions(u, s)
    BY <2>1 DEF Views, SameItems, SamePlaces, SameQuestions
  <2>4. u \in Views
    <3>1. 0 \in 0..2
      OBVIOUS
    <3> QED
      BY <1>1, <2>1, <3>1 DEF Views
  <2>5. ~(u.passes > 0) /\ s.passes # 0 /\ s.passes - 1 = 0
    BY <1>3, <2>2
  <2> QED
    BY <1>3, <2>2, <2>3, <2>4, <2>5 DEF u
<1>4. CASE s.passes = 2
  <2>1. u = [s EXCEPT !.passes = 1, !.pending = s.lasting, !.frame = TRUE]
    <3>1. s.passes - 1 = 1 /\ s.passes # 0 /\ s.passes # 1
      BY <1>4
    <3>2. u = [s EXCEPT !.passes = s.passes - 1, !.pending = s.lasting, !.frame = TRUE]
      BY <3>1 DEF PassesOn
    <3> QED
      BY <3>1, <3>2
  <2> HIDE DEF u
  <2>2. u.passes = 1 /\ u.lasting = s.lasting /\ u.pending = s.lasting /\ u.frame
        /\ u.scroll = s.scroll /\ u.scrolled = s.scrolled /\ u.stable = s.stable /\ u.known = s.known
    BY <2>1 DEF Views
  <2>3. SameItems(u, s) /\ SamePlaces(u, s) /\ SameQuestions(u, s)
    BY <2>1 DEF Views, SameItems, SamePlaces, SameQuestions
  <2>4. u \in Views
    <3>1. 1 \in 0..2 /\ TRUE \in BOOLEAN
      OBVIOUS
    <3> QED
      BY <1>1, <2>1, <3>1 DEF Views
  <2>5. u.passes # 0 /\ s.passes # 0 /\ s.passes - 1 = 1 /\ s.passes # 1
    BY <1>4, <2>2
  <2> QED
    BY <1>4, <2>2, <2>3, <2>4, <2>5 DEF u
<1> QED
  BY <1>1, <1>2, <1>3, <1>4

LEMMA SettledFacts ==
  ASSUME NEW v, Standing(v)
  PROVE  IsSettled(AfterPlacing(v), v)
PROOF
<1> DEFINE c == Clamped(v)
           r == Restored(c)
           s == [r EXCEPT !.stable = Captured(r)]
           u == PassesOn(s)
<1>1. AfterPlacing(v) = u
  BY DEF AfterPlacing
<1>2. v \in Views /\ v.scroll \in Nat /\ v.scroll \in Int /\ v.passes \in 0..2 /\ v.lasting \in Partial(Int)
  BY DEF Standing, Views
<1>3. IsScrolledTo(c, v, v.scroll)
  BY <1>2, ScrolledFacts DEF Clamped
<1> HIDE DEF c
<1>4. Standing(c) /\ c.scroll \in 0..Furthest(c)
  BY <1>3 DEF IsScrolledTo
<1>5. IsRestored(r, c)
  BY <1>4, RestoredFacts
<1> HIDE DEF r
<1>6. Standing(r) /\ r \in Views
  BY <1>5 DEF IsRestored, Standing
<1>7. Captured(r) \in Partial(Int)
  BY <1>6, CapturedFacts
<1>8. /\ s \in Views /\ SameItems(s, r) /\ SamePlaces(s, r) /\ s.known = r.known
      /\ SameQuestions(s, r) /\ s.pending = r.pending /\ s.stable = Captured(r)
      /\ s.lasting = r.lasting /\ s.passes = r.passes
      /\ s.scroll = r.scroll /\ s.scrolled = r.scrolled /\ s.frame = r.frame
  BY <1>6, <1>7 DEF Views, SameItems, SamePlaces, SameQuestions
<1> HIDE DEF s
<1>9. /\ s.passes \in 0..2 /\ s.lasting \in Partial(Int) /\ NoAnchor \in Partial(Int)
  BY <1>8, NoAnchorFacts DEF Views
<1>10. /\ u \in Views /\ SameItems(u, s) /\ SamePlaces(u, s) /\ u.known = s.known
       /\ SameQuestions(u, s) /\ u.stable = s.stable
       /\ u.scroll = s.scroll /\ u.scrolled = s.scrolled
       /\ u.passes = (IF s.passes = 0 THEN 0 ELSE s.passes - 1)
       /\ u.lasting = (IF s.passes = 1 THEN NoAnchor ELSE s.lasting)
       /\ u.pending = (IF u.passes = 0 THEN s.pending ELSE s.lasting)
       /\ (u.passes = 0 => u.frame = s.frame)
       /\ (u.passes > 0 => u.frame)
  BY <1>8, <1>9, PassesFacts
<1> HIDE DEF u
<1>11. SameItems(u, v) /\ SamePlaces(u, v) /\ u.known = v.known /\ SameQuestions(u, v)
  BY <1>3, <1>5, <1>8, <1>10 DEF IsScrolledTo, IsRestored, SameItems, SamePlaces, SameQuestions
<1>12. Items(u) = Items(v) /\ Blocks(u) = Blocks(v) /\ Furthest(u) = Furthest(v)
  BY <1>11, SameBlocks DEF SameItems
<1>13. Standing(u)
  BY <1>2, <1>10, <1>11, <1>12 DEF Standing, SameItems, SamePlaces
<1>14. SameItems(u, r) /\ SamePlaces(u, r) /\ u.scroll = r.scroll /\ SameItems(c, v) /\ SamePlaces(c, v)
       /\ SameItems(r, c) /\ SamePlaces(r, c)
  BY <1>3, <1>5, <1>8, <1>10 DEF IsScrolledTo, IsRestored, SameItems, SamePlaces
<1>15. Blocks(u) = Blocks(r) /\ Furthest(u) = Furthest(r) /\ Furthest(u) = Furthest(c)
       /\ Blocks(u) = Blocks(c) /\ Furthest(c) = Furthest(v)
  <2>1. Blocks(u) = Blocks(r) /\ Furthest(u) = Furthest(r)
    BY <1>14, SameBlocks DEF SameItems
  <2>2. Blocks(r) = Blocks(c) /\ Furthest(r) = Furthest(c)
    BY <1>14, SameBlocks DEF SameItems
  <2>3. Furthest(c) = Furthest(v)
    BY <1>14, SameBlocks DEF SameItems
  <2> QED
    BY <2>1, <2>2, <2>3
<1>16. Captured(u) = Captured(r) /\ \A i : Top(u, i) = Top(r, i)
  BY <1>14, <1>15, SameTops DEF SameItems, SamePlaces
<1>17. u.stable = Captured(u)
  BY <1>8, <1>10, <1>16
<1>18. c.passes = v.passes /\ c.lasting = v.lasting /\ c.pending = v.pending /\ c.frame = v.frame
       /\ c.connected = v.connected
       /\ r.passes = v.passes /\ r.lasting = v.lasting /\ r.pending = NoAnchor
  BY <1>3, <1>5 DEF IsScrolledTo, IsRestored, SameAnchors, SamePlaces
<1>19. /\ (c.scrolled <=> v.scrolled \/ c.scroll # v.scroll)
       /\ (r.scrolled <=> c.scrolled \/ r.scroll # c.scroll)
       /\ (u.scrolled <=> r.scrolled)
       /\ u.scroll = r.scroll /\ r.scroll \in 0..Furthest(v)
  BY <1>3, <1>5, <1>8, <1>10, <1>15 DEF IsScrolledTo, IsRestored
<1>20. ASSUME ~u.scrolled, NEW m \in v.connected, Anchors(v.pending, m)
       PROVE  IF Top(u, m) = v.pending[m] THEN u.passes = 0 => u.frame = v.frame
              ELSE AtEnds(u)
  <2>1. r.scroll = c.scroll /\ u.scroll = c.scroll
    BY <1>19, <1>20
  <2>2. Top(u, m) = Top(c, m)
    BY <1>14, <1>15, <2>1, SameTops DEF SameItems, SamePlaces
  <2>3. IF Top(c, m) = c.pending[m] THEN r.frame = c.frame ELSE AtEnds(c)
    BY <1>5, <1>18, <1>20, <2>1 DEF IsRestored
  <2>4. AtEnds(c) <=> AtEnds(u)
    BY <1>15, <2>1 DEF AtEnds
  <2>5. u.passes = 0 => u.frame = r.frame
    BY <1>8, <1>10
  <2>6. CASE Top(u, m) = v.pending[m]
    BY <1>18, <2>2, <2>3, <2>5, <2>6
  <2>7. CASE Top(u, m) # v.pending[m]
    BY <1>18, <2>2, <2>3, <2>4, <2>7
  <2> QED
    BY <2>6, <2>7
<1>21. /\ u.passes = (IF v.passes = 0 THEN 0 ELSE v.passes - 1)
       /\ u.lasting = (IF v.passes = 1 THEN NoAnchor ELSE v.lasting)
       /\ u.pending = (IF u.passes = 0 THEN NoAnchor ELSE v.lasting)
       /\ u.passes > 0 => u.frame
  BY <1>2, <1>8, <1>10, <1>18
<1>22. u.scroll \in 0..Furthest(v) /\ (v.scrolled => u.scrolled) /\ (u.scroll # v.scroll => u.scrolled)
  BY <1>19
<1> QED
  BY <1>1, <1>11, <1>12, <1>13, <1>17, <1>20, <1>21, <1>22 DEF IsSettled

LEMMA TokenFacts ==
  ASSUME NEW v \in Views, NEW e \in ListEdges
  PROVE  Token(v, e) \in Boundaries
PROOF
<1>1. v.from \in Nat \ {0} /\ v.to \in Nat /\ v.from - 1 \in Nat
  BY DEF Views
<1>2. (IF Counted THEN v.from - 1 ELSE 0) \in Nat
  BY <1>1
<1>3. \A a \in Nat, b \in Nat : <<a, b>> \in Boundaries
  BY DEF Boundaries
<1>4. <<>> \in Boundaries
  BY DEF Boundaries
<1> DEFINE offset == IF Counted THEN v.from - 1 ELSE 0
<1>5. <<v.from, offset>> \in Boundaries /\ <<v.to, offset>> \in Boundaries
  <2> HIDE DEF offset
  <2> QED
    BY <1>1, <1>2, <1>3 DEF offset
<1>6. Token(v, e) \in {<<>>, <<v.from, offset>>, <<v.to, offset>>}
  BY DEF Token
<1> HIDE DEF offset
<1> QED
  BY <1>4, <1>5, <1>6

LEMMA SameTokens ==
  ASSUME NEW u, NEW v, u.from = v.from, u.to = v.to
  PROVE  /\ \A e : Token(u, e) = Token(v, e)
         /\ \A w, e : InReach(u, w, e) = InReach(v, w, e)
BY DEF Token, InReach

\* What was asked before still is, and what is asked now is a task.
Questions(u, v) ==
  /\ DOMAIN v.tasks \subseteq DOMAIN u.tasks
  /\ \A j \in DOMAIN v.tasks : u.tasks[j] = v.tasks[j]
  /\ \A e \in ListEdges :
       \/ u.asked[e] = v.asked[e]
       \/ /\ u.asked[e] = Token(v, e)
          /\ \E j \in DOMAIN u.tasks : u.tasks[j] = <<e, Token(v, e)>>

\* u is v, where edges were asked for.
Asking(u, v) ==
  /\ u \in Views /\ SameItems(u, v) /\ SamePlaces(u, v) /\ u.known = v.known
  /\ SameAnchors(u, v) /\ u.passes = v.passes /\ u.frame = v.frame
  /\ u.scroll = v.scroll /\ u.scrolled = v.scrolled
  /\ Questions(u, v)

LoadAnswered(u, v, w, e) ==
  InReach(v, w, e) /\ v.busy # e /\ Token(v, e) # <<>> => u.asked[e] = Token(v, e)

LEMMA AsksOne ==
  ASSUME NEW v \in Views, NEW w, NEW e \in ListEdges
  PROVE  LET u == Asks(v, w, e) IN
         /\ Asking(u, v) /\ LoadAnswered(u, v, w, e)
         /\ \A d \in ListEdges \ {e} : u.asked[d] = v.asked[d]
PROOF
<1> DEFINE u == Asks(v, w, e)
           t == Token(v, e)
<1>1. t \in Boundaries /\ v.asked \in [ListEdges -> Boundaries] /\ v.tasks \in Seq(ListEdges \X Boundaries)
  BY TokenFacts DEF Views
<1>2. CASE InReach(v, w, e) /\ v.busy # e /\ t # <<>> /\ t # v.asked[e]
  <2> DEFINE asked == [v.asked EXCEPT ![e] = t]
             tasks == Append(v.tasks, <<e, t>>)
  <2>1. u = [v EXCEPT !.asked[e] = t, !.tasks = Append(@, <<e, t>>)]
    BY <1>2 DEF Asks
  <2>2. u = [v EXCEPT !.asked = asked, !.tasks = tasks]
    BY <2>1 DEF Views
  <2> HIDE DEF u, t
  <2>3. asked \in [ListEdges -> Boundaries] /\ asked[e] = t /\ \A d \in ListEdges \ {e} : asked[d] = v.asked[d]
    BY <1>1
  <2>4. <<e, t>> \in ListEdges \X Boundaries
    BY <1>1
  <2>5. /\ tasks \in Seq(ListEdges \X Boundaries) /\ DOMAIN v.tasks \subseteq DOMAIN tasks
        /\ \A j \in DOMAIN v.tasks : tasks[j] = v.tasks[j]
        /\ \E j \in DOMAIN tasks : tasks[j] = <<e, t>>
    <3> DEFINE q == <<e, t>>
               Q == ListEdges \X Boundaries
    <3>1. q \in Q /\ v.tasks \in Seq(Q) /\ tasks = Append(v.tasks, q)
      BY <1>1, <2>4
    <3> HIDE DEF q, Q, tasks
    <3>2. /\ tasks \in Seq(Q) /\ Len(tasks) = Len(v.tasks) + 1 /\ tasks[Len(v.tasks) + 1] = q
          /\ \A j \in 1..Len(v.tasks) : tasks[j] = v.tasks[j]
          /\ Len(v.tasks) \in Nat /\ DOMAIN v.tasks = 1..Len(v.tasks) /\ DOMAIN tasks = 1..Len(tasks)
      BY <3>1
    <3>3. Len(v.tasks) + 1 \in DOMAIN tasks /\ DOMAIN v.tasks \subseteq DOMAIN tasks
      BY <3>2
    <3>4. \E j \in DOMAIN tasks : tasks[j] = q
      BY <3>2, <3>3
    <3> QED
      BY <3>2, <3>3, <3>4 DEF q, Q
  <2> HIDE DEF asked, tasks
  <2>6. /\ u \in Views /\ u.asked = asked /\ u.tasks = tasks /\ SameItems(u, v) /\ SamePlaces(u, v)
        /\ u.known = v.known /\ SameAnchors(u, v) /\ u.passes = v.passes /\ u.frame = v.frame
        /\ u.scroll = v.scroll /\ u.scrolled = v.scrolled
    BY <2>2, <2>3, <2>5 DEF Views, SameItems, SamePlaces, SameAnchors
  <2>7. Questions(u, v)
    BY <2>3, <2>5, <2>6 DEF Questions, t
  <2>8. LoadAnswered(u, v, w, e)
    BY <2>3, <2>6 DEF LoadAnswered, t
  <2> QED
    BY <2>3, <2>6, <2>7, <2>8 DEF Asking, u
<1>3. CASE ~(InReach(v, w, e) /\ v.busy # e /\ t # <<>> /\ t # v.asked[e])
  <2>1. u = v
    BY <1>3 DEF Asks
  <2>2. LoadAnswered(u, v, w, e)
    BY <1>3, <2>1 DEF LoadAnswered
  <2> HIDE DEF u
  <2> QED
    BY <2>1, <2>2 DEF Asking, Questions, SameItems, SamePlaces, SameAnchors, u
<1> QED
  BY <1>2, <1>3

LEMMA AsksFacts ==
  ASSUME NEW v \in Views, NEW w
  PROVE  LET u == Asks(Asks(v, w, "start"), w, "end") IN
         Asking(u, v) /\ \A e \in ListEdges : LoadAnswered(u, v, w, e)
PROOF
<1> DEFINE s == Asks(v, w, "start")
           u == Asks(s, w, "end")
<1>0. "start" \in ListEdges /\ "end" \in ListEdges /\ "start" # "end"
      /\ \A e \in ListEdges : e = "start" \/ e = "end"
  BY DEF ListEdges
<1>1. Asking(s, v) /\ LoadAnswered(s, v, w, "start") /\ \A d \in ListEdges \ {"start"} : s.asked[d] = v.asked[d]
  BY <1>0, AsksOne
<1> HIDE DEF s
<1>2. s \in Views
  BY <1>1 DEF Asking
<1>3. Asking(u, s) /\ LoadAnswered(u, s, w, "end") /\ \A d \in ListEdges \ {"end"} : u.asked[d] = s.asked[d]
  BY <1>0, <1>2, AsksOne
<1> HIDE DEF u
<1>4. /\ \A e : Token(s, e) = Token(v, e)
      /\ \A x, e : InReach(s, x, e) = InReach(v, x, e)
  BY <1>1, SameTokens DEF Asking, SameItems
<1>5. s.busy = v.busy
  BY <1>1 DEF Asking, SameItems
<1>6. LoadAnswered(u, v, w, "start") /\ LoadAnswered(u, v, w, "end")
  BY <1>0, <1>1, <1>3, <1>4, <1>5 DEF LoadAnswered
<1>7. Questions(u, v)
  <2>1. DOMAIN v.tasks \subseteq DOMAIN u.tasks /\ \A j \in DOMAIN v.tasks : u.tasks[j] = v.tasks[j]
    BY <1>1, <1>3 DEF Asking, Questions
  <2>2. ASSUME NEW e \in ListEdges
        PROVE  \/ u.asked[e] = v.asked[e]
               \/ /\ u.asked[e] = Token(v, e)
                  /\ \E j \in DOMAIN u.tasks : u.tasks[j] = <<e, Token(v, e)>>
    <3>1. CASE u.asked[e] = s.asked[e]
      <4>1. CASE s.asked[e] = v.asked[e]
        BY <3>1, <4>1
      <4>2. CASE s.asked[e] # v.asked[e]
        <5>1. s.asked[e] = Token(v, e) /\ \E j \in DOMAIN s.tasks : s.tasks[j] = <<e, Token(v, e)>>
          BY <1>1, <4>2 DEF Asking, Questions
        <5>2. DOMAIN s.tasks \subseteq DOMAIN u.tasks /\ \A j \in DOMAIN s.tasks : u.tasks[j] = s.tasks[j]
          BY <1>3 DEF Asking, Questions
        <5> QED
          BY <3>1, <5>1, <5>2
      <4> QED
        BY <4>1, <4>2
    <3>2. CASE u.asked[e] # s.asked[e]
      BY <1>3, <1>4, <3>2 DEF Asking, Questions
    <3> QED
      BY <3>1, <3>2
  <2> QED
    BY <2>1, <2>2 DEF Questions
<1>8. Asking(u, v)
  BY <1>1, <1>3, <1>7 DEF Asking, SameItems, SamePlaces, SameAnchors
<1> QED
  BY <1>0, <1>6, <1>8 DEF u, s

\* Sizes are those that are known, or the estimate.
LEMMA SizesFacts ==
  ASSUME NEW v \in Views
  PROVE  /\ Sizes(v) \in [Items(v) -> Nat \ {0}]
         /\ \A i \in Items(v) : Sizes(v)[i] = IF i \in DOMAIN v.known THEN v.known[i] ELSE Estimate
PROOF
<1>1. v.known \in [DOMAIN v.known -> Nat \ {0}]
  <2>1. v.known \in Partial(Nat \ {0})
    BY DEF Views
  <2> QED
    BY <2>1, PartialFacts
<1>2. Estimate \in Nat \ {0}
  BY ListAssumption
<1> QED
  BY <1>1, <1>2 DEF Sizes

LEMMA SameSizes ==
  ASSUME NEW u, NEW v, u.from = v.from, u.to = v.to, u.known = v.known
  PROVE  Sizes(u) = Sizes(v)
BY DEF Sizes, Items

LEMMA SameWindow ==
  ASSUME NEW u, NEW v, u.from = v.from, u.to = v.to, NEW s, NEW y
  PROVE  Window(u, s, y) = Window(v, s, y)
PROOF
<1>1. Items(u) = Items(v)
  BY DEF Items
<1> QED
  BY <1>1 DEF Window

\* What is realized: the window, and the pins with their neighbours.
LEMMA RealizedFacts ==
  ASSUME NEW v \in Views, NEW w, w.first \in Items(v), w.last \in Nat
  PROVE  /\ Realized(v, w) \subseteq Items(v)
         /\ ((w.first - Overscan)..(w.last + Overscan)) \cap Items(v) \subseteq Realized(v, w)
         /\ v.focus \in Items(v) => Near(v.focus, 1) \cap Items(v) \subseteq Realized(v, w)
         /\ \A m \in Items(v) : Anchors(v.pending, m) => m \in Realized(v, w)
PROOF
<1> DEFINE anchors == DOMAIN v.pending \cap Items(v)
           pins    == ({v.focus} \cap Items(v)) \cup (IF anchors = {} THEN {} ELSE {Min(anchors)})
           shown   == (w.first - Overscan)..(w.last + Overscan)
<1>1. Realized(v, w) = Items(v) \cap (shown \cup UNION {Near(i, 1) : i \in pins})
  BY DEF Realized
<1>2. ASSUME v.focus \in Items(v) PROVE Near(v.focus, 1) \cap Items(v) \subseteq Realized(v, w)
  <2>1. v.focus \in pins
    BY <1>2
  <2> HIDE DEF pins, shown
  <2> QED
    BY <1>1, <2>1
<1>3. ASSUME NEW m \in Items(v), Anchors(v.pending, m) PROVE m \in Realized(v, w)
  <2>1. m \in anchors /\ anchors \in SUBSET Nat /\ \A i \in anchors : m <= i
    BY <1>3 DEF Anchors, Items, Views
  <2>2. Min(anchors) = m
    <3> HIDE DEF anchors
    <3>1. Min(anchors) \in anchors /\ \A n \in anchors : Min(anchors) <= n
      BY <2>1, MinNumber
    <3>2. Min(anchors) \in Nat /\ m \in Nat /\ m <= Min(anchors) /\ Min(anchors) <= m
      BY <2>1, <3>1
    <3> QED
      BY <3>2
  <2>3. m \in pins
    BY <2>1, <2>2
  <2>4. m \in Near(m, 1)
    BY <2>1 DEF Near
  <2> HIDE DEF pins, shown
  <2> QED
    BY <1>1, <1>3, <2>3, <2>4
<1>4. shown \cap Items(v) \subseteq Realized(v, w) /\ Realized(v, w) \subseteq Items(v)
  <2> HIDE DEF pins, shown
  <2> QED
    BY <1>1
<1> QED
  BY <1>2, <1>3, <1>4

\* The window of the list is connected, and what is near the focus.
Shows(v) ==
  LET w == Window(v, Sizes(v), v.scroll) IN
  /\ ((w.first - Overscan)..(w.last + Overscan)) \cap Items(v) \subseteq v.connected
  /\ v.scroll < w.total => \A e \in ListEdges : LoadAnswered(v, v, w, e)

\* What is known is so, and spacers take the room that is known or estimated.
TellsSizes(v) ==
  /\ DOMAIN v.known \subseteq Items(v)
  /\ \A i \in DOMAIN v.known : i \in Items(v) \ v.connected => v.known[i] = v.tall[i]
  /\ \A i \in Items(v) \ v.connected : v.spaced[i] = Sizes(v)[i]

\* u is v after a layout.
IsLaid(u, v) ==
  /\ Standing(u) /\ SameItems(u, v) /\ u.connected # {}
  /\ u.scroll \in 0..Furthest(u)
  /\ TellsSizes(u) /\ \A i \in DOMAIN u.known : u.known[i] = u.tall[i]
  /\ u.focus \in Items(u) => Near(u.focus, 1) \cap Items(u) \subseteq u.connected
  /\ v.scrolled => u.scrolled
  /\ ~u.scrolled => Shows(u)
  /\ Questions(u, v)
  /\ u.passes = (IF v.passes = 0 THEN 0 ELSE v.passes - 1)
  /\ u.lasting = (IF v.passes = 1 THEN NoAnchor ELSE v.lasting)
  /\ u.pending = (IF u.passes = 0 THEN NoAnchor ELSE v.lasting)
  /\ u.passes > 0 => u.frame
  /\ u.stable = Captured(u)
  /\ \A m \in Items(v) : Anchors(v.pending, m) =>
       /\ m \in u.connected
       /\ ~u.scrolled => IF Top(u, m) = v.pending[m] THEN u.passes = 0 => u.frame = v.frame
                         ELSE AtEnds(u)

LEMMA LaidFacts ==
  ASSUME NEW v, Standing(v), DOMAIN v.known \subseteq Items(v), NEW found,
         \A i \in DOMAIN v.known \ found : v.known[i] = v.tall[i]
  PROVE  IsLaid(Laid(v, found), v)
PROOF
<1> DEFINE small  == v.to - v.from < SmallList
           all    == Placed(v, Items(v), NoAnchor)
           whole  == Measured(all, Items(v))
           few    == Measured(v, found \cap Items(v))
           base   == IF small THEN whole ELSE few
           sizes  == Sizes(base)
           w      == Window(v, sizes, v.scroll)
           placed == IF small THEN whole
                     ELSE Placed(few, Realized(few, w), sizes)
           done   == AfterPlacing(placed)
           u      == IF done.scroll >= w.total THEN done
                     ELSE Asks(Asks(done, w, "start"), w, "end")
<1>1. Laid(v, found) = u
  BY DEF Laid
<1>2. /\ v \in Views /\ Items(v) \in SUBSET Nat /\ Items(v) \subseteq 1..Supply /\ v.scroll \in Nat
      /\ v.from \in Nat \ {0} /\ v.to \in Nat /\ v.from <= v.to /\ v.to <= Supply
      /\ v.connected \subseteq Items(v)
      /\ Overscan \in Nat \ {0}
  BY BlocksFacts, ListAssumption DEF Standing, Views
\* the two ways to measure
<1>3. /\ Standing(all) /\ SameItems(all, v) /\ all.known = v.known /\ SameAnchors(all, v)
      /\ SameQuestions(all, v) /\ all.passes = v.passes /\ all.frame = v.frame /\ all.scroll = v.scroll
      /\ all.scrolled = v.scrolled /\ all.connected = Items(v) /\ Items(all) = Items(v)
  <2>1. [i \in Items(v) \ Items(v) |-> NoAnchor[i]] = NoAnchor
    BY DEF NoAnchor
  <2>2. all = [v EXCEPT !.connected = Items(v), !.spaced = NoAnchor]
    BY <2>1 DEF Placed
  <2>3. NoAnchor \in Partial(Nat \ {0}) /\ DOMAIN NoAnchor = {}
    BY NoAnchorFacts
  <2> HIDE DEF all
  <2>4. /\ all \in Views /\ SameItems(all, v) /\ all.known = v.known /\ SameAnchors(all, v)
        /\ SameQuestions(all, v) /\ all.passes = v.passes /\ all.frame = v.frame /\ all.scroll = v.scroll
        /\ all.scrolled = v.scrolled /\ all.connected = Items(v) /\ all.spaced = NoAnchor
    BY <1>2, <2>2, <2>3 DEF Views, SameItems, SameAnchors, SameQuestions
  <2>5. Items(all) = Items(v)
    BY <2>4 DEF SameItems, Items
  <2>6. Standing(all)
    BY <1>2, <2>3, <2>4, <2>5 DEF Standing, SameItems
  <2> QED
    BY <2>4, <2>5, <2>6
<1> HIDE DEF all
<1>4. IsMeasured(whole, all, Items(v))
  BY <1>3, MeasuredFacts
<1>5. IsMeasured(few, v, found \cap Items(v))
  BY MeasuredFacts
<1> HIDE DEF whole, few
<1>6. /\ Standing(base) /\ SameItems(base, v) /\ Items(base) = Items(v) /\ SameQuestions(base, v)
      /\ base.passes = v.passes /\ base.lasting = v.lasting
      /\ base.frame = v.frame /\ base.scroll = v.scroll /\ base.scrolled = v.scrolled
      /\ (base.pending = v.pending \/ base.pending = OrElse(v.pending, v.stable))
      /\ DOMAIN base.known \subseteq Items(v)
      /\ \A i \in DOMAIN base.known : base.known[i] = base.tall[i]
  <2>1. CASE small
    <3>1. base = whole
      BY <2>1
    <3>2. /\ Standing(whole) /\ SameItems(whole, v) /\ Items(whole) = Items(v) /\ SameQuestions(whole, v)
          /\ whole.passes = v.passes /\ whole.lasting = v.lasting
          /\ whole.frame = v.frame /\ whole.scroll = v.scroll /\ whole.scrolled = v.scrolled
          /\ (whole.pending = v.pending \/ whole.pending = OrElse(v.pending, v.stable))
      BY <1>3, <1>4 DEF IsMeasured, SameItems, SameQuestions, SameAnchors
    <3>3. DOMAIN whole.known = DOMAIN v.known \cup Items(v) /\ \A i \in Items(v) : whole.known[i] = v.tall[i]
      BY <1>3, <1>4 DEF IsMeasured, SameItems
    <3>4. whole.tall = v.tall
      BY <3>2 DEF SameItems
    <3> HIDE DEF small, base
    <3> QED
      BY <3>1, <3>2, <3>3, <3>4
  <2>2. CASE ~small
    <3>1. base = few
      BY <2>2
    <3>2. /\ Standing(few) /\ SameItems(few, v) /\ Items(few) = Items(v) /\ SameQuestions(few, v)
          /\ few.passes = v.passes /\ few.lasting = v.lasting
          /\ few.frame = v.frame /\ few.scroll = v.scroll /\ few.scrolled = v.scrolled
          /\ (few.pending = v.pending \/ few.pending = OrElse(v.pending, v.stable))
      BY <1>5 DEF IsMeasured
    <3>3. /\ DOMAIN few.known = DOMAIN v.known \cup (found \cap Items(v))
          /\ \A i \in found \cap Items(v) : few.known[i] = v.tall[i]
          /\ \A i \in DOMAIN v.known \ (found \cap Items(v)) : few.known[i] = v.known[i]
      BY <1>5 DEF IsMeasured
    <3>4. few.tall = v.tall
      BY <3>2 DEF SameItems
    <3>5. \A i \in DOMAIN few.known : few.known[i] = few.tall[i]
      BY <3>3, <3>4
    <3> HIDE DEF small, base
    <3> QED
      BY <3>1, <3>2, <3>3, <3>5
  <2> QED
    BY <2>1, <2>2
<1>7. base \in Views /\ base.from = v.from /\ base.to = v.to
  BY <1>6 DEF Standing, SameItems
<1> HIDE DEF base
<1>8. /\ sizes \in [Items(v) -> Nat \ {0}]
      /\ \A i \in Items(v) : sizes[i] = IF i \in DOMAIN base.known THEN base.known[i] ELSE Estimate
  BY <1>6, <1>7, SizesFacts
<1> HIDE DEF sizes
<1>9. w.first \in Items(v) /\ w.last \in Items(v) /\ w.first <= w.last
  <2>1. v.scroll \in Int
    BY <1>2
  <2> QED
    BY <1>2, <1>8, <2>1, WindowFacts
<1> HIDE DEF w
\* the placement
<1>10. /\ Standing(placed) /\ SameItems(placed, v) /\ Items(placed) = Items(v) /\ SameQuestions(placed, v)
       /\ placed.passes = v.passes /\ placed.lasting = v.lasting /\ placed.known = base.known
       /\ placed.frame = v.frame /\ placed.scroll = v.scroll /\ placed.scrolled = v.scrolled
       /\ placed.pending = base.pending
       /\ ((w.first - Overscan)..(w.last + Overscan)) \cap Items(v) \subseteq placed.connected
       /\ v.focus \in Items(v) => Near(v.focus, 1) \cap Items(v) \subseteq placed.connected
       /\ \A m \in Items(v) : Anchors(base.pending, m) => m \in placed.connected
       /\ \A i \in Items(v) \ placed.connected : placed.spaced[i] = sizes[i]
  <2>1. CASE small
    <3>1. base = whole /\ placed = base
      BY <2>1 DEF base
    <3>2. placed.connected = Items(v)
      BY <1>3, <1>4, <3>1 DEF IsMeasured, SamePlaces
    <3> HIDE DEF placed, small
    <3> QED
      BY <1>6, <3>1, <3>2
  <2>2. CASE ~small
    <3> DEFINE R == Realized(few, w)
               spaced == [i \in Items(v) \ R |-> sizes[i]]
    <3>1. base = few /\ placed = [few EXCEPT !.connected = R, !.spaced = [i \in Items(few) \ R |-> sizes[i]]]
      BY <2>2 DEF base, Placed
    <3>2. Items(few) = Items(v) /\ few \in Views
      BY <1>6, <1>7, <3>1
    <3>3. placed = [few EXCEPT !.connected = R, !.spaced = spaced]
      BY <3>1, <3>2
    <3>4. w.last \in Nat
      BY <1>2, <1>9
    <3>5. /\ R \subseteq Items(v)
          /\ ((w.first - Overscan)..(w.last + Overscan)) \cap Items(v) \subseteq R
          /\ few.focus \in Items(v) => Near(few.focus, 1) \cap Items(v) \subseteq R
          /\ \A m \in Items(v) : Anchors(few.pending, m) => m \in R
      BY <1>9, <3>2, <3>4, RealizedFacts
    <3> HIDE DEF R
    <3>6. /\ spaced \in Partial(Nat \ {0}) /\ DOMAIN spaced = Items(v) \ R
          /\ \A i \in Items(v) \ R : spaced[i] = sizes[i]
      <4>1. spaced \in [Items(v) \ R -> Nat \ {0}]
        BY <1>8
      <4> QED
        BY <1>2, <4>1, PartialFacts
    <3> HIDE DEF spaced, placed, small
    <3>7. /\ placed \in Views /\ placed.connected = R /\ placed.spaced = spaced
          /\ SameItems(placed, few) /\ SameQuestions(placed, few)
          /\ placed.passes = few.passes /\ placed.lasting = few.lasting /\ placed.known = few.known
          /\ placed.frame = few.frame /\ placed.scroll = few.scroll /\ placed.scrolled = few.scrolled
          /\ placed.pending = few.pending
      <4>1. R \subseteq 1..Supply
        BY <1>2, <3>5
      <4> QED
        BY <3>2, <3>3, <3>6, <4>1 DEF Views, SameItems, SameQuestions
    <3>8. SameItems(placed, v) /\ SameQuestions(placed, v)
      BY <1>6, <3>1, <3>7 DEF SameItems, SameQuestions
    <3>9. Items(placed) = Items(v)
      BY <3>8 DEF SameItems, Items
    <3>10. Standing(placed)
      BY <1>2, <3>5, <3>6, <3>7, <3>8, <3>9 DEF Standing, SameItems
    <3>11. few.focus = v.focus
      BY <1>6, <3>1 DEF SameItems
    <3> QED
      BY <1>6, <3>1, <3>5, <3>6, <3>7, <3>8, <3>9, <3>10, <3>11
  <2> QED
    BY <2>1, <2>2
<1> HIDE DEF placed, small
<1>11. IsSettled(done, placed)
  BY <1>10, SettledFacts
<1> HIDE DEF done
<1>12. done \in Views
  BY <1>11 DEF IsSettled, Standing
<1>13. /\ Asking(u, done)
       /\ done.scroll < w.total => \A e \in ListEdges : LoadAnswered(u, done, w, e)
  <2>1. CASE done.scroll >= w.total
    <3>1. u = done /\ ~(done.scroll < w.total)
      <4>1. w.total \in Nat /\ done.scroll \in Nat
        <5>1. v.scroll \in Int
          BY <1>2
        <5>2. w.total \in Nat \ {0}
          BY <1>2, <1>8, <5>1, WindowFacts DEF w
        <5> QED
          BY <1>12, <5>2 DEF Views
      <4> QED
        BY <2>1, <4>1
    <3> HIDE DEF u
    <3> QED
      BY <1>12, <3>1 DEF Asking, Questions, SameItems, SamePlaces, SameAnchors
  <2>2. CASE ~(done.scroll >= w.total)
    BY <1>12, <2>2, AsksFacts
  <2> QED
    BY <2>1, <2>2
<1> HIDE DEF u
<1>14. /\ SameItems(u, done) /\ SamePlaces(u, done) /\ u.known = base.known /\ SameAnchors(u, done)
       /\ u.passes = done.passes /\ u.frame = done.frame /\ u.scroll = done.scroll
       /\ u.scrolled = done.scrolled /\ u \in Views
       /\ SameItems(done, v) /\ SameItems(u, v) /\ SamePlaces(u, placed)
       /\ SameQuestions(done, v)
  BY <1>10, <1>11, <1>13 DEF Asking, IsSettled, SameItems, SamePlaces, SameQuestions
<1>15. Items(u) = Items(v) /\ Blocks(u) = Blocks(done) /\ Furthest(u) = Furthest(done)
  <2>1. Items(u) = Items(v)
    BY <1>14 DEF SameItems, Items
  <2> QED
    BY <1>14, <2>1, SameBlocks DEF SameItems
<1>16. Standing(u)
  BY <1>2, <1>10, <1>14, <1>15 DEF Standing, SameItems, SamePlaces
<1>17. (\A i : Top(u, i) = Top(done, i)) /\ Captured(u) = Captured(done)
  BY <1>14, <1>15, SameTops DEF SameItems, SamePlaces
<1>18. Sizes(u) = sizes
  <2>1. u.from = base.from /\ u.to = base.to /\ u.known = base.known
    BY <1>7, <1>14 DEF SameItems
  <2> QED
    BY <2>1, SameSizes DEF sizes
<1>19. u.connected = placed.connected /\ u.spaced = placed.spaced /\ u.focus = v.focus /\ u.tall = v.tall
       /\ base.tall = v.tall
  BY <1>6, <1>14 DEF SamePlaces, SameItems
<1>20. TellsSizes(u) /\ \A i \in DOMAIN u.known : u.known[i] = u.tall[i]
  BY <1>6, <1>10, <1>14, <1>15, <1>18, <1>19 DEF TellsSizes
<1>21. u.connected # {}
  <2>1. w.first \in (w.first - Overscan)..(w.last + Overscan)
    <3>1. w.first \in Nat /\ w.last \in Nat /\ w.first <= w.last
      BY <1>2, <1>9
    <3> QED
      BY <1>2, <3>1
  <2> QED
    BY <1>9, <1>10, <1>19, <2>1
<1>22. ASSUME ~u.scrolled PROVE Shows(u)
  <2>1. u.scroll = v.scroll
    BY <1>10, <1>11, <1>14, <1>22 DEF IsSettled
  <2>2. Window(u, Sizes(u), u.scroll) = w
    <3>1. u.from = v.from /\ u.to = v.to
      BY <1>14 DEF SameItems
    <3> QED
      BY <1>18, <2>1, <3>1, SameWindow DEF w
  <2>3. \A e : Token(u, e) = Token(done, e) /\ InReach(u, w, e) = InReach(done, w, e)
    BY <1>14, SameTokens DEF SameItems
  <2>4. u.busy = done.busy
    BY <1>14 DEF SameItems
  <2>5. u.scroll < w.total => \A e \in ListEdges : LoadAnswered(u, u, w, e)
    BY <1>13, <1>14, <2>3, <2>4 DEF LoadAnswered
  <2> QED
    BY <1>10, <1>15, <1>19, <2>2, <2>5 DEF Shows
<1>23. Questions(u, v)
  <2>1. \A e : Token(done, e) = Token(v, e)
    BY <1>14, SameTokens DEF SameItems
  <2> QED
    BY <1>13, <1>14, <2>1 DEF Asking, Questions, SameQuestions
<1>24. ASSUME NEW m \in Items(v), Anchors(v.pending, m)
       PROVE  /\ m \in u.connected
              /\ ~u.scrolled => IF Top(u, m) = v.pending[m] THEN u.passes = 0 => u.frame = v.frame
                                ELSE AtEnds(u)
  <2>1. base.pending = v.pending
    <3>1. DOMAIN v.pending # {} /\ v.pending \in Partial(Int) /\ v.stable \in Partial(Int)
      BY <1>2, <1>24 DEF Anchors, Views
    <3> QED
      BY <1>6, <3>1, OrElseFacts
  <2>2. m \in placed.connected /\ placed.pending = v.pending
    BY <1>10, <1>24, <2>1
  <2>3. ASSUME ~u.scrolled
        PROVE  IF Top(u, m) = v.pending[m] THEN u.passes = 0 => u.frame = v.frame ELSE AtEnds(u)
    <3>1. IF Top(done, m) = v.pending[m] THEN done.passes = 0 => done.frame = placed.frame
          ELSE AtEnds(done)
      BY <1>11, <1>14, <1>24, <2>2, <2>3 DEF IsSettled
    <3>2. AtEnds(done) <=> AtEnds(u)
      BY <1>14, <1>15 DEF AtEnds
    <3>3. Top(u, m) = Top(done, m)
      BY <1>17
    <3>4. CASE Top(u, m) = v.pending[m]
      BY <1>10, <1>14, <3>1, <3>3, <3>4
    <3>5. CASE Top(u, m) # v.pending[m]
      BY <3>1, <3>2, <3>3, <3>5
    <3> QED
      BY <3>4, <3>5
  <2> QED
    BY <1>19, <2>2, <2>3
<1>25. /\ u.scroll \in 0..Furthest(u) /\ (v.scrolled => u.scrolled)
       /\ u.passes = (IF v.passes = 0 THEN 0 ELSE v.passes - 1)
       /\ u.lasting = (IF v.passes = 1 THEN NoAnchor ELSE v.lasting)
       /\ u.pending = (IF u.passes = 0 THEN NoAnchor ELSE v.lasting)
       /\ (u.passes > 0 => u.frame)
       /\ u.stable = Captured(u)
  <2>1. /\ u.scroll \in 0..Furthest(u) /\ (v.scrolled => u.scrolled)
    BY <1>10, <1>11, <1>14, <1>15 DEF IsSettled
  <2>2. /\ u.passes = (IF v.passes = 0 THEN 0 ELSE v.passes - 1)
        /\ u.lasting = (IF v.passes = 1 THEN NoAnchor ELSE v.lasting)
        /\ u.pending = (IF u.passes = 0 THEN NoAnchor ELSE v.lasting)
    BY <1>10, <1>11, <1>14 DEF IsSettled, SameAnchors
  <2>3. (u.passes > 0 => u.frame) /\ u.stable = Captured(u)
    BY <1>11, <1>14, <1>17 DEF IsSettled, SameAnchors
  <2> QED
    BY <2>1, <2>2, <2>3
<1>26. u.focus \in Items(u) => Near(u.focus, 1) \cap Items(u) \subseteq u.connected
  BY <1>10, <1>15, <1>19
<1> QED
  BY <1>1, <1>14, <1>16, <1>20, <1>21, <1>22, <1>23, <1>24, <1>25, <1>26 DEF IsLaid

\* u is v, rendered with the items from..to and with an edge being loaded.
IsRendered(u, v, from, to, edge) ==
  \E c : /\ IsLaid(u, c)
         /\ c.tall = v.tall /\ c.from = from /\ c.to = to /\ c.busy = edge
         /\ c.focus = (IF v.focus \in from..to THEN v.focus ELSE NoItem)
         /\ c.pending = OrElse(v.pending, Captured(v)) /\ c.lasting = v.lasting
         /\ c.passes = v.passes /\ ~c.frame
         /\ SameQuestions(c, v) /\ (v.scrolled => c.scrolled)

LEMMA RenderedFacts ==
  ASSUME NEW v \in Views, Captured(v) \in Partial(Int), DOMAIN v.known \subseteq Items(v),
         NEW from \in 1..Supply, NEW to \in from..Supply, NEW edge \in ListEdges \cup {"none"}
  PROVE  IsRendered(Rendered(v, from, to, edge), v, from, to, edge)
PROOF
<1> DEFINE prepared == [v EXCEPT !.frame = FALSE, !.pending = OrElse(@, Captured(v))]
           synced   == [prepared EXCEPT !.from = from, !.to = to, !.busy = edge,
                                        !.connected = from..to, !.spaced = NoAnchor,
                                        !.focus = IF @ \in from..to THEN @ ELSE NoItem,
                                        !.known = Restrict(@, DOMAIN @ \cap (from..to))]
           c == Clamped(synced)
           pending == OrElse(v.pending, Captured(v))
           focus == IF v.focus \in from..to THEN v.focus ELSE NoItem
           known == Restrict(v.known, DOMAIN v.known \cap (from..to))
<1>1. Rendered(v, from, to, edge) = Laid(c, Items(v))
  BY DEF Rendered
<1>2. /\ Supply \in Nat /\ from \in Nat \ {0} /\ to \in Nat /\ from <= to /\ to <= Supply
      /\ from..to \subseteq 1..Supply
  BY ListAssumption
<1>3. pending \in Partial(Int) /\ focus \in Nat
  <2>1. v.pending \in Partial(Int) /\ v.focus \in Nat
    BY DEF Views
  <2> QED
    BY <2>1, OrElseFacts DEF NoItem
<1>4. /\ known \in Partial(Nat \ {0}) /\ DOMAIN known = DOMAIN v.known \cap (from..to)
  <2>1. v.known \in [DOMAIN v.known -> Nat \ {0}] /\ DOMAIN v.known \subseteq 1..Supply
    <3>1. v.known \in Partial(Nat \ {0})
      BY DEF Views
    <3> QED
      BY <3>1, PartialFacts
  <2>2. known = [i \in DOMAIN v.known \cap (from..to) |-> v.known[i]]
    BY DEF Restrict
  <2>3. known \in [DOMAIN v.known \cap (from..to) -> Nat \ {0}]
        /\ DOMAIN known = DOMAIN v.known \cap (from..to)
    BY <2>1, <2>2
  <2> HIDE DEF known
  <2>4. DOMAIN known \subseteq 1..Supply /\ known \in [DOMAIN known -> Nat \ {0}]
    BY <2>1, <2>3
  <2> QED
    BY <2>3, <2>4, PartialFacts
<1>5. prepared = [v EXCEPT !.frame = FALSE, !.pending = pending]
  OBVIOUS
<1> HIDE DEF pending
<1>6. prepared \in Views /\ prepared.focus = v.focus /\ prepared.known = v.known
  BY <1>3, <1>5 DEF Views
<1>7. synced = [prepared EXCEPT !.from = from, !.to = to, !.busy = edge, !.connected = from..to,
                                !.spaced = NoAnchor, !.focus = focus, !.known = known]
  BY <1>6 DEF Views
<1> HIDE DEF synced, focus, known
<1>8. NoAnchor \in Partial(Nat \ {0}) /\ DOMAIN NoAnchor = {}
  BY NoAnchorFacts
<1>9. synced \in Views
  BY <1>2, <1>3, <1>4, <1>6, <1>7, <1>8 DEF Views
<1>10. /\ synced.tall = v.tall /\ synced.from = from /\ synced.to = to /\ synced.busy = edge
       /\ synced.focus = focus /\ synced.connected = from..to /\ synced.spaced = NoAnchor
       /\ synced.known = known /\ synced.pending = pending /\ synced.lasting = v.lasting
       /\ synced.passes = v.passes /\ synced.frame = FALSE /\ SameQuestions(synced, v)
       /\ synced.scrolled = v.scrolled /\ synced.scroll = v.scroll
  BY <1>5, <1>6, <1>7 DEF Views, SameQuestions
<1> HIDE DEF prepared
<1>11. Standing(synced) /\ Items(synced) = from..to
  BY <1>2, <1>8, <1>9, <1>10 DEF Standing, Items
<1>12. IsScrolledTo(c, synced, synced.scroll)
  <2>1. synced.scroll \in Int
    BY <1>9 DEF Views
  <2> QED
    BY <1>11, <2>1, ScrolledFacts DEF Clamped
<1> HIDE DEF c
<1>13. /\ Standing(c) /\ c.tall = v.tall /\ c.from = from /\ c.to = to /\ c.busy = edge
       /\ c.focus = focus /\ c.known = known /\ c.pending = pending /\ c.lasting = v.lasting
       /\ c.passes = v.passes /\ ~c.frame /\ SameQuestions(c, v) /\ (v.scrolled => c.scrolled)
       /\ Items(c) = from..to
  BY <1>10, <1>11, <1>12 DEF IsScrolledTo, SameItems, SameAnchors, SameQuestions
<1>14. DOMAIN c.known \subseteq Items(c) /\ DOMAIN c.known \ Items(v) = {}
  BY <1>4, <1>13
<1>15. IsLaid(Laid(c, Items(v)), c)
  BY <1>13, <1>14, LaidFacts
<1> QED
  BY <1>1, <1>13, <1>15 DEF IsRendered, pending, focus

\* Once all that is connected is measured, the blocks have the sizes that the host counts with.
LEMMA MeasuredBlocks ==
  ASSUME NEW v, Standing(v), TellsSizes(v), v.connected \subseteq DOMAIN v.known,
         \A i \in v.connected : v.known[i] = v.tall[i]
  PROVE  Blocks(v) = Sizes(v)
PROOF
<1>1. \A i \in Items(v) : Block(v, i) = Sizes(v)[i]
  <2> TAKE i \in Items(v)
  <2>1. CASE i \in v.connected
    BY <2>1 DEF Block, Sizes
  <2>2. CASE i \notin v.connected
    BY <2>2 DEF Block, TellsSizes
  <2> QED
    BY <2>1, <2>2
<1>2. DOMAIN Sizes(v) = Items(v) /\ Sizes(v) = [i \in Items(v) |-> Sizes(v)[i]]
  BY DEF Sizes
<1> QED
  BY <1>1, <1>2 DEF Blocks

LEMMA TopFacts ==
  ASSUME NEW v, Standing(v)
  PROVE  /\ \A i, j \in Items(v) : i < j => Top(v, i) + Block(v, i) <= Top(v, j)
         /\ \A i \in Items(v) : /\ Top(v, i) \in Int /\ Block(v, i) \in Nat \ {0} /\ i \in Nat
                                /\ Top(v, i) = UpTo(Blocks(v), v.from, i - 1) - v.scroll
                                /\ Top(v, i) + Block(v, i) = UpTo(Blocks(v), v.from, i) - v.scroll
                                /\ UpTo(Blocks(v), v.from, i - 1) \in Nat
                                /\ UpTo(Blocks(v), v.from, i) \in Nat
PROOF
<1> DEFINE end(i) == UpTo(Blocks(v), v.from, i)
<1>1. /\ Items(v) = v.from..v.to /\ Items(v) \in SUBSET Nat
      /\ Blocks(v) \in [Items(v) -> Nat \ {0}]
      /\ \A i \in Items(v) : end(i) = end(i - 1) + Block(v, i)
      /\ \A i \in (v.from - 1)..v.to : end(i) \in Nat
      /\ \A i, j \in (v.from - 1)..v.to : i < j => end(i) < end(j)
      /\ \A i \in Items(v) : Top(v, i) = end(i - 1) - v.scroll /\ Top(v, i) \in Int
  BY BlocksFacts DEF Top
<1>2. v.from \in Nat \ {0} /\ v.to \in Nat /\ v.scroll \in Nat
  BY DEF Standing, Views
<1>3. \A i \in Items(v) : Block(v, i) \in Nat \ {0}
  BY <1>1 DEF Blocks
<1>4. \A i \in Items(v) : i \in (v.from - 1)..v.to /\ i - 1 \in (v.from - 1)..v.to
  BY <1>1, <1>2
<1> HIDE DEF end
<1>5. \A i \in Items(v) : Top(v, i) + Block(v, i) = end(i) - v.scroll /\ end(i) \in Nat /\ end(i - 1) \in Nat
  BY <1>1, <1>2, <1>3, <1>4
<1>6. ASSUME NEW i \in Items(v), NEW j \in Items(v), i < j PROVE Top(v, i) + Block(v, i) <= Top(v, j)
  <2>1. i = j - 1 \/ i < j - 1
    BY <1>1, <1>6
  <2>2. end(i) <= end(j - 1)
    BY <1>1, <1>4, <1>5, <2>1
  <2> QED
    BY <1>1, <1>2, <1>5, <2>2
<1> QED
  BY <1>1, <1>3, <1>5, <1>6 DEF end

\* What begins above the viewport and is in view comes first.
LEMMA FirstInView ==
  ASSUME NEW v, Standing(v), NEW m \in Items(v), Top(v, m) <= 0, NEW i \in InView(v)
  PROVE  m <= i
PROOF
<1>1. i \in Items(v) /\ Top(v, i) + Block(v, i) > 0
  BY DEF InView
<1> QED
  BY <1>1, TopFacts

\* Something is in view, and the first of it begins where the viewport does or before.
LEMMA FirstBegins ==
  ASSUME NEW v, Standing(v), v.scroll \in 0..Furthest(v)
  PROVE  Min(InView(v)) \in InView(v) /\ Top(v, Min(InView(v))) <= 0
         /\ \A i \in InView(v) : Min(InView(v)) <= i
PROOF
<1> DEFINE end(i) == UpTo(Blocks(v), v.from, i)
           A == {i \in Items(v) : end(i) > v.scroll}
<1>1. /\ Items(v) = v.from..v.to /\ Items(v) \in SUBSET Nat
      /\ end(v.from - 1) = 0 /\ Furthest(v) \in Nat /\ Furthest(v) < end(v.to) /\ end(v.to) \in Nat
      /\ \A i \in Items(v) : /\ Top(v, i) \in Int /\ Block(v, i) \in Nat \ {0} /\ i \in Nat
                             /\ Top(v, i) = end(i - 1) - v.scroll
                             /\ Top(v, i) + Block(v, i) = end(i) - v.scroll
                             /\ end(i - 1) \in Nat /\ end(i) \in Nat
      /\ \A i, j \in Items(v) : i < j => Top(v, i) + Block(v, i) <= Top(v, j)
  BY BlocksFacts, TopFacts
<1>2. v.from \in Nat \ {0} /\ v.to \in Nat /\ v.from <= v.to /\ v.scroll \in Nat /\ ViewHeight \in Nat \ {0}
  BY ListAssumption DEF Standing, Views
<1> HIDE DEF end
<1>3. v.to \in A /\ A \in SUBSET Nat
  BY <1>1, <1>2
<1>4. PICK j \in A : \A n \in A : j <= n
  <2> HIDE DEF A
  <2> QED
    BY <1>3, LeastNumber
<1>5. j \in Items(v) /\ end(j) > v.scroll
  BY <1>4
<1>6. end(j - 1) <= v.scroll
  <2>1. CASE j = v.from
    BY <1>1, <1>2, <2>1
  <2>2. CASE j # v.from
    <3>0. j \in v.from..v.to /\ Items(v) = v.from..v.to
      BY <1>1, <1>5
    <3>1. j - 1 \in Items(v) /\ ~(j <= j - 1)
      BY <1>2, <2>2, <3>0
    <3>2. j - 1 \notin A
      <4> HIDE DEF A
      <4> QED
        BY <1>4, <3>1
    <3>3. ~(end(j - 1) > v.scroll)
      BY <3>1, <3>2 DEF A
    <3>4. end(j - 1) \in Nat
      BY <1>1, <1>5
    <3> QED
      BY <1>2, <3>3, <3>4
  <2> QED
    BY <2>1, <2>2
<1> HIDE DEF A
<1>7. Top(v, j) <= 0 /\ j \in InView(v)
  BY <1>1, <1>2, <1>5, <1>6 DEF InView
<1>8. InView(v) \in SUBSET Nat /\ InView(v) # {} /\ InView(v) \subseteq Items(v)
  BY <1>1, <1>7 DEF InView
<1>9. Min(InView(v)) \in InView(v) /\ \A i \in InView(v) : Min(InView(v)) <= i
  BY <1>8, MinNumber
<1>10. Top(v, Min(InView(v))) <= 0
  <2> DEFINE m == Min(InView(v))
  <2>1. m \in Items(v) /\ m <= j /\ m \in Nat /\ j \in Nat
    BY <1>7, <1>8, <1>9
  <2> HIDE DEF m
  <2>2. m = j \/ m < j
    BY <2>1
  <2> QED
    BY <1>1, <1>5, <1>7, <2>1, <2>2 DEF m
<1> QED
  BY <1>9, <1>10
-----------------------------------------------------------------------------
(* The inductive invariant. *)

\* An anchor that keeps the item m first, at y.
AnchoredAt(anchor, m, y) == Anchors(anchor, m) /\ anchor[m] = y

\* where an item begins as the host counts
KnownTop(v, i) == UpTo(Sizes(v), v.from, i - 1) - v.scroll

\* The item m of the list is to be at y: a frame, a settlement of the viewport and
\* a measurement each have an anchor that says so.
Keeps(v, m, y) ==
  /\ m \in v.connected
  /\ ~v.scrolled =>
       /\ y <= 0
       /\ v.frame => AnchoredAt(v.pending, m, y)
       /\ v.passes > 0 => AnchoredAt(v.lasting, m, y)
       /\ ~v.frame =>
            /\ AnchoredAt(v.stable, m, y)
            /\ v.connected \subseteq DOMAIN v.known =>
                 KnownTop(v, m) = y /\ y + v.known[m] > 0

AnchorsAgree == \A m \in DOMAIN inPlace : DOMAIN inPlace = {m} /\ Keeps(view, m, inPlace[m])

\* A boundary that was asked for is being loaded, or will be, or is excused.
AskedOnce ==
  \A e \in ListEdges :
    Token(view, e) # <<>> /\ view.asked[e] = Token(view, e) =>
      \/ \E j \in DOMAIN view.tasks : view.tasks[j] = <<e, Token(view, e)>>
      \/ view.busy = e \/ excuse[e] # "none"

\* A list that waits for no frame is laid out.
LaidOut(v) ==
  ~v.frame /\ ~v.scrolled =>
    Shows(v) /\ (v.focus # NoItem => Near(v.focus, 1) \cap Items(v) \subseteq v.connected)

\* An anchor waits for a frame, and so does a settlement of the viewport.
Waiting(v) ==
  /\ v.passes = 0 => v.lasting = NoAnchor
  /\ v.passes > 0 => v.frame
  /\ v.pending # NoAnchor => v.frame

StandsWell(v) ==
  /\ Standing(v) /\ v.connected # {} /\ v.scroll \in 0..Furthest(v)
  /\ TellsSizes(v) /\ LaidOut(v) /\ Waiting(v)
  /\ v.focus # NoItem => v.focus \in v.connected

ListTyped ==
  /\ view.to - view.from < Retained /\ inPlace \in Partial(Int)
  /\ excuse \in [ListEdges -> {"none", "refused", "failed", "returned"}]

ListInv == StandsWell(view) /\ ListTyped /\ AnchorsAgree /\ AskedOnce

\* A layout makes the list stand well.
LEMMA LaidStands ==
  ASSUME NEW u, NEW c, IsLaid(u, c), c.focus \in Items(c) \cup {NoItem}, c.passes \in 0..2,
         c.passes = 0 => c.lasting = NoAnchor
  PROVE  StandsWell(u)
PROOF
<1>1. Standing(u) /\ u.connected # {} /\ u.scroll \in 0..Furthest(u) /\ TellsSizes(u)
  BY DEF IsLaid
<1>2. u.focus = c.focus /\ Items(u) = Items(c)
  BY DEF IsLaid, SameItems, Items
<1>3. u.focus # NoItem => Near(u.focus, 1) \cap Items(u) \subseteq u.connected /\ u.focus \in Items(u)
  BY <1>2 DEF IsLaid
<1>4. LaidOut(u)
  BY <1>3 DEF LaidOut, IsLaid
<1>5. Waiting(u)
  <2>1. /\ u.passes = (IF c.passes = 0 THEN 0 ELSE c.passes - 1)
        /\ u.lasting = (IF c.passes = 1 THEN NoAnchor ELSE c.lasting)
        /\ u.pending = (IF u.passes = 0 THEN NoAnchor ELSE c.lasting)
        /\ (u.passes > 0 => u.frame)
    BY DEF IsLaid
  <2>2. u.passes = 0 => u.lasting = NoAnchor
    BY <2>1
  <2>3. u.pending # NoAnchor => u.passes > 0
    BY <2>1
  <2> QED
    BY <2>1, <2>2, <2>3 DEF Waiting
<1>6. u.focus # NoItem => u.focus \in u.connected
  <2>1. ASSUME u.focus # NoItem PROVE u.focus \in Near(u.focus, 1)
    <3>1. u.focus \in Nat
      BY <1>1 DEF Standing, Views
    <3> QED
      BY <3>1 DEF Near
  <2> QED
    BY <1>3, <2>1
<1> QED
  BY <1>1, <1>4, <1>5, <1>6 DEF StandsWell

\* A layout keeps an item where the anchors have it.
LEMMA LaidKeeps ==
  ASSUME NEW u, NEW c, IsLaid(u, c), ~c.frame, c.passes \in 0..2,
         NEW m \in u.connected \cap InView(u), NEW y \in Int,
         ~u.scrolled => y <= 0 /\ AnchoredAt(c.pending, m, y)
                        /\ (c.passes > 0 => AnchoredAt(c.lasting, m, y)),
         AtBound(u) => Top(u, m) = y
  PROVE  Keeps(u, m, y)
PROOF
<1> SUFFICES ASSUME ~u.scrolled
             PROVE  /\ u.frame => AnchoredAt(u.pending, m, y)
                    /\ u.passes > 0 => AnchoredAt(u.lasting, m, y)
                    /\ ~u.frame => /\ AnchoredAt(u.stable, m, y)
                                   /\ u.connected \subseteq DOMAIN u.known =>
                                        KnownTop(u, m) = y /\ y + u.known[m] > 0
  BY DEF Keeps
<1>1. y <= 0 /\ AnchoredAt(c.pending, m, y) /\ (c.passes > 0 => AnchoredAt(c.lasting, m, y))
  OBVIOUS
<1>2. Standing(u) /\ u.connected \subseteq Items(u) /\ Items(u) = Items(c) /\ m \in Items(u)
  BY DEF IsLaid, SameItems, Items, Standing
<1>3. IF Top(u, m) = y THEN u.passes = 0 => u.frame = c.frame ELSE AtEnds(u)
  BY <1>1, <1>2 DEF IsLaid, AnchoredAt
<1>4. Top(u, m) = y /\ (u.passes = 0 => ~u.frame)
  BY <1>3 DEF AtEnds, AtBound
<1>5. ASSUME u.passes # 0
      PROVE  u.frame /\ AnchoredAt(u.pending, m, y) /\ AnchoredAt(u.lasting, m, y)
  <2>1. c.passes = 2 /\ u.passes = 1 /\ u.frame
    BY <1>5 DEF IsLaid
  <2> QED
    BY <1>1, <2>1 DEF IsLaid
<1>6. ASSUME ~u.frame
      PROVE  /\ AnchoredAt(u.stable, m, y)
             /\ u.connected \subseteq DOMAIN u.known => KnownTop(u, m) = y /\ y + u.known[m] > 0
  <2>1. u.stable = Captured(u) /\ DOMAIN Captured(u) = InView(u) \cap u.connected
        /\ \A i \in DOMAIN Captured(u) : Captured(u)[i] = Top(u, i)
    BY <1>2, CapturedFacts DEF IsLaid
  <2>2. \A i \in InView(u) : m <= i
    BY <1>1, <1>2, <1>4, FirstInView
  <2>3. AnchoredAt(u.stable, m, y)
    BY <1>4, <2>1, <2>2 DEF AnchoredAt, Anchors
  <2>4. ASSUME u.connected \subseteq DOMAIN u.known PROVE KnownTop(u, m) = y /\ y + u.known[m] > 0
    <3>1. \A i \in u.connected : u.known[i] = u.tall[i]
      BY <2>4 DEF IsLaid
    <3>2. Blocks(u) = Sizes(u)
      BY <1>2, <2>4, <3>1, MeasuredBlocks DEF IsLaid
    <3>3. KnownTop(u, m) = Top(u, m)
      BY <3>2 DEF KnownTop, Top
    <3>4. Block(u, m) = u.known[m]
      BY <3>1 DEF Block
    <3> QED
      BY <1>4, <3>3, <3>4 DEF InView
  <2> QED
    BY <2>3, <2>4
<1>7. u.passes \in Nat
  BY <1>2 DEF Standing, Views
<1> QED
  BY <1>4, <1>5, <1>6, <1>7

\* So does a step that ends with a layout, whatever the history then does.
LEMMA StaysAgree ==
  ASSUME NEW c, IsLaid(view', c), ~c.frame, c.passes \in 0..2, inPlace \in Partial(Int),
         NEW late, StaysUnless(late),
         \A m \in DOMAIN inPlace :
           /\ DOMAIN inPlace = {m}
           /\ ~late /\ ~view'.scrolled =>
                /\ inPlace[m] <= 0 /\ AnchoredAt(c.pending, m, inPlace[m])
                /\ c.passes > 0 => AnchoredAt(c.lasting, m, inPlace[m])
  PROVE  inPlace' \in Partial(Int) /\ AnchorsAgree'
PROOF
<1>1. CASE inPlace' = NoAnchor
  BY <1>1, NoAnchorFacts DEF AnchorsAgree
<1>2. CASE inPlace' # NoAnchor
  <2>1. /\ inPlace' = inPlace /\ ~late
        /\ DOMAIN inPlace \subseteq view'.connected \cap InView(view')
        /\ AtBound(view') => StillThere(inPlace, view')
    BY <1>2 DEF StaysUnless
  <2>2. ASSUME NEW m \in DOMAIN inPlace PROVE DOMAIN inPlace = {m} /\ Keeps(view', m, inPlace[m])
    <3>1. DOMAIN inPlace = {m} /\ m \in view'.connected \cap InView(view')
      BY <2>1
    <3>2. inPlace[m] \in Int
      <4>1. inPlace \in [DOMAIN inPlace -> Int]
        BY PartialFacts
      <4> QED
        BY <4>1
    <3>3. ASSUME AtBound(view') PROVE Top(view', m) = inPlace[m]
      <4>1. DOMAIN inPlace \cap view'.connected = {m}
        BY <3>1
      <4>2. m \in Nat
        <5>1. Standing(view') /\ m \in Items(view')
          BY <3>1 DEF IsLaid, Standing
        <5> QED
          BY <5>1, BlocksFacts
      <4>3. Min({m}) = m
        <5>1. Min({m}) \in {m}
          BY <4>2, MinNumber
        <5> QED
          BY <5>1
      <4> QED
        BY <2>1, <3>3, <4>1, <4>3 DEF StillThere
    <3>4. ~view'.scrolled => inPlace[m] <= 0 /\ AnchoredAt(c.pending, m, inPlace[m])
                             /\ (c.passes > 0 => AnchoredAt(c.lasting, m, inPlace[m]))
      BY <2>1
    <3> QED
      BY <3>1, <3>2, <3>3, <3>4, LaidKeeps
  <2> QED
    BY <2>1, <2>2 DEF AnchorsAgree
<1> QED
  BY <1>1, <1>2
-----------------------------------------------------------------------------
(* Steps. *)

\* v is w, but for its tasks.
ButTasks(v, w) ==
  /\ SameItems(v, w) /\ SamePlaces(v, w) /\ v.known = w.known /\ SameAnchors(v, w)
  /\ v.passes = w.passes /\ v.scroll = w.scroll /\ v.scrolled = w.scrolled /\ v.frame = w.frame
  /\ v.asked = w.asked

HasTask(v, task) == \E j \in DOMAIN v.tasks : v.tasks[j] = task

\* What is asked for in u was asked for in w, or is a task.
AsksLike(u, v, w) ==
  /\ \A task : HasTask(v, task) => HasTask(u, task)
  /\ \A e \in ListEdges :
       u.asked[e] = Token(u, e) => HasTask(u, <<e, Token(u, e)>>) \/ w.asked[e] = Token(u, e)

LEMMA QuestionsFacts ==
  ASSUME NEW u, NEW c, Questions(u, c), u.from = c.from, u.to = c.to,
         NEW v, c.tasks = v.tasks, NEW w, c.asked = w.asked
  PROVE  AsksLike(u, v, w)
PROOF
<1>1. \A e : Token(u, e) = Token(c, e)
  BY SameTokens
<1> QED
  BY <1>1 DEF Questions, AsksLike, HasTask

LEMMA ListConstants ==
  /\ Supply \in Nat \ {0} /\ LoadSize \in Nat \ {0} /\ Retained \in Nat \ {0}
  /\ LoadSize <= Supply /\ LoadSize <= Retained
PROOF
<1>1. /\ Supply \in Nat \ {0} /\ LoadSize \in Nat \ {0} /\ Retained \in Nat \ {0}
      /\ Supply % LoadSize = 0 /\ Retained % LoadSize = 0
  BY ListAssumption
<1>2. ASSUME NEW a \in Nat \ {0}, NEW b \in Nat \ {0}, a % b = 0 PROVE b <= a
  BY <1>2
<1> QED
  BY <1>1, <1>2

LEMMA ViewFacts ==
  ASSUME StandsWell(view)
  PROVE  /\ Standing(view) /\ view \in Views /\ view.from \in 1..Supply /\ view.to \in view.from..Supply
         /\ view.busy \in ListEdges \cup {"none"} /\ view.focus \in Items(view) \cup {NoItem}
         /\ view.passes \in 0..2 /\ view.scroll \in Nat /\ view.scroll \in 0..Furthest(view)
         /\ view.pending \in Partial(Int) /\ view.stable \in Partial(Int) /\ view.lasting \in Partial(Int)
         /\ view.connected \subseteq Items(view) /\ Items(view) \subseteq 1..Supply
         /\ Items(view) \in SUBSET Nat /\ Items(view) = view.from..view.to
         /\ TellsSizes(view) /\ LaidOut(view) /\ Waiting(view)
         /\ view.tasks \in Seq(ListEdges \X Boundaries) /\ view.asked \in [ListEdges -> Boundaries]
PROOF
<1>1. Standing(view) /\ view \in Views /\ TellsSizes(view) /\ LaidOut(view) /\ Waiting(view)
      /\ view.scroll \in 0..Furthest(view) /\ view.connected \subseteq Items(view)
  BY DEF StandsWell, Standing
<1>2. /\ Items(view) \subseteq 1..Supply /\ Items(view) \in SUBSET Nat /\ Items(view) = view.from..view.to
  BY <1>1, BlocksFacts
<1>3. view.from \in Nat \ {0} /\ view.to \in Nat /\ view.from <= view.to /\ view.to <= Supply /\ Supply \in Nat
  BY <1>1, ListAssumption DEF Standing, Views
<1>4. view.from \in 1..Supply /\ view.to \in view.from..Supply
  BY <1>3
<1>5. view.focus \in Items(view) \cup {NoItem}
  BY <1>1 DEF StandsWell
<1> QED
  BY <1>1, <1>2, <1>4, <1>5 DEF Views

\* Where the item that is to stay is in what a frame, or a render, starts from.
LEMMA KeptAnchor ==
  ASSUME ListInv, ~view.scrolled, NEW m \in DOMAIN inPlace
  PROVE  /\ inPlace[m] \in Int /\ inPlace[m] <= 0 /\ m \in view.connected
         /\ view.passes > 0 => AnchoredAt(view.lasting, m, inPlace[m])
         /\ view.frame => AnchoredAt(view.pending, m, inPlace[m])
         /\ ~view.frame => /\ view.pending = NoAnchor /\ view.passes = 0
                           /\ AnchoredAt(view.stable, m, inPlace[m])
         /\ ~(view.pending = NoAnchor /\ Unmeasured(view) # {}) =>
              AnchoredAt(OrElse(view.pending, Captured(view)), m, inPlace[m])
PROOF
<1>1. Keeps(view, m, inPlace[m])
  BY DEF ListInv, AnchorsAgree
<1>2. inPlace[m] \in Int
  <2>1. inPlace \in [DOMAIN inPlace -> Int]
    BY PartialFacts DEF ListInv, ListTyped
  <2> QED
    BY <2>1
<1>3. /\ Standing(view) /\ TellsSizes(view) /\ Waiting(view) /\ view.passes \in Nat
      /\ view.pending \in Partial(Int) /\ view.connected \subseteq Items(view)
  BY ViewFacts DEF ListInv
<1>4. Captured(view) \in Partial(Int) /\ DOMAIN Captured(view) = InView(view) \cap view.connected
      /\ \A i \in DOMAIN Captured(view) : Captured(view)[i] = Top(view, i)
  BY <1>3, CapturedFacts
<1>5. ~view.frame => view.pending = NoAnchor /\ view.passes = 0
  BY <1>3 DEF Waiting
<1>6. /\ inPlace[m] <= 0 /\ m \in view.connected
      /\ view.passes > 0 => AnchoredAt(view.lasting, m, inPlace[m])
      /\ view.frame => AnchoredAt(view.pending, m, inPlace[m])
      /\ ~view.frame => AnchoredAt(view.stable, m, inPlace[m])
  BY <1>1 DEF Keeps
<1>7. ASSUME ~(view.pending = NoAnchor /\ Unmeasured(view) # {})
      PROVE  AnchoredAt(OrElse(view.pending, Captured(view)), m, inPlace[m])
  <2>1. CASE view.frame
    <3>1. DOMAIN view.pending # {}
      BY <1>6, <2>1 DEF AnchoredAt, Anchors
    <3>2. OrElse(view.pending, Captured(view)) = view.pending
      BY <1>3, <1>4, <3>1, OrElseFacts
    <3> QED
      BY <1>6, <2>1, <3>2
  <2>2. CASE ~view.frame
    <3>1. view.pending = NoAnchor /\ OrElse(view.pending, Captured(view)) = Captured(view)
      BY <1>5, <2>2 DEF OrElse
    <3>2. Unmeasured(view) = {}
      BY <1>7, <3>1
    <3>3. view.connected \subseteq DOMAIN view.known /\ \A i \in view.connected : view.known[i] = view.tall[i]
      BY <3>2 DEF Unmeasured
    <3>4. KnownTop(view, m) = inPlace[m] /\ inPlace[m] + view.known[m] > 0
      BY <1>1, <2>2, <3>3 DEF Keeps
    <3>5. Blocks(view) = Sizes(view)
      BY <1>3, <3>3, MeasuredBlocks
    <3>6. Top(view, m) = inPlace[m] /\ Block(view, m) = view.known[m]
      BY <1>6, <3>3, <3>4, <3>5 DEF KnownTop, Top, Block
    <3>7. m \in Items(view) /\ ViewHeight \in Nat \ {0}
      BY <1>3, <1>6, ListAssumption
    <3>8. m \in InView(view)
      BY <1>2, <1>6, <3>4, <3>6, <3>7 DEF InView
    <3>9. \A i \in InView(view) : m <= i
      BY <1>3, <1>6, <3>6, <3>7, FirstInView
    <3> QED
      BY <1>4, <1>6, <3>1, <3>6, <3>8, <3>9 DEF AnchoredAt, Anchors
  <2> QED
    BY <2>1, <2>2
<1> QED
  BY <1>2, <1>5, <1>6, <1>7

LEMMA RenderedStep ==
  ASSUME ListInv, NEW v \in Views, ButTasks(v, view),
         NEW from \in 1..Supply, NEW to \in from..Supply, NEW edge \in ListEdges \cup {"none"},
         view' = Rendered(v, from, to, edge), StaysRendered
  PROVE  /\ StandsWell(view)' /\ (inPlace \in Partial(Int) /\ AnchorsAgree)'
         /\ view'.from = from /\ view'.to = to /\ view'.busy = edge
         /\ AsksLike(view', v, view)
PROOF
<1>1. /\ Standing(view) /\ view \in Views /\ TellsSizes(view) /\ Waiting(view) /\ view.passes \in 0..2
      /\ inPlace \in Partial(Int)
  BY ViewFacts DEF ListInv, ListTyped
<1>2. Items(v) = Items(view) /\ Blocks(v) = Blocks(view)
  BY SameBlocks DEF ButTasks, SameItems
<1>3. Captured(v) = Captured(view)
  BY <1>2, SameTops DEF ButTasks, SameItems, SamePlaces
<1>4. Captured(v) \in Partial(Int) /\ DOMAIN v.known \subseteq Items(v)
  BY <1>1, <1>2, <1>3, CapturedFacts DEF ButTasks, TellsSizes
<1>5. IsRendered(view', v, from, to, edge)
  BY <1>4, RenderedFacts
<1>6. PICK c :
         /\ IsLaid(view', c)
         /\ c.tall = v.tall /\ c.from = from /\ c.to = to /\ c.busy = edge
         /\ c.focus = (IF v.focus \in from..to THEN v.focus ELSE NoItem)
         /\ c.pending = OrElse(v.pending, Captured(v)) /\ c.lasting = v.lasting
         /\ c.passes = v.passes /\ ~c.frame
         /\ SameQuestions(c, v) /\ (v.scrolled => c.scrolled)
  BY <1>5 DEF IsRendered
<1>7. /\ c.pending = OrElse(view.pending, Captured(view)) /\ c.lasting = view.lasting
      /\ c.passes = view.passes /\ (view.scrolled => c.scrolled)
      /\ c.asked = view.asked /\ c.tasks = v.tasks
  BY <1>3, <1>6 DEF ButTasks, SameAnchors, SameQuestions
<1>8. c.focus \in Items(c) \cup {NoItem}
  BY <1>6 DEF Items
<1>9. c.passes = 0 => c.lasting = NoAnchor
  BY <1>1, <1>7 DEF Waiting
<1>10. StandsWell(view')
  BY <1>1, <1>6, <1>7, <1>8, <1>9, LaidStands
<1>11. view'.from = from /\ view'.to = to /\ view'.busy = edge
  BY <1>6 DEF IsLaid, SameItems
<1>12. AsksLike(view', v, view)
  <2>1. Questions(view', c) /\ view'.from = c.from /\ view'.to = c.to
    BY <1>6 DEF IsLaid, SameItems
  <2> QED
    BY <1>7, <2>1, QuestionsFacts
<1>13. (inPlace \in Partial(Int) /\ AnchorsAgree)'
  <2> DEFINE late == view.pending = NoAnchor /\ Unmeasured(view) # {}
  <2>1. StaysUnless(late)
    BY DEF StaysRendered
  <2>2. ASSUME NEW m \in DOMAIN inPlace
        PROVE  /\ DOMAIN inPlace = {m}
               /\ ~late /\ ~view'.scrolled =>
                    /\ inPlace[m] <= 0 /\ AnchoredAt(c.pending, m, inPlace[m])
                    /\ c.passes > 0 => AnchoredAt(c.lasting, m, inPlace[m])
    <3>1. DOMAIN inPlace = {m}
      BY DEF ListInv, AnchorsAgree
    <3>2. ASSUME ~late, ~view'.scrolled
          PROVE  /\ inPlace[m] <= 0 /\ AnchoredAt(c.pending, m, inPlace[m])
                 /\ c.passes > 0 => AnchoredAt(c.lasting, m, inPlace[m])
      <4>1. ~view.scrolled
        BY <1>6, <1>7, <3>2 DEF IsLaid
      <4> QED
        BY <1>7, <3>2, <4>1, KeptAnchor
    <3> QED
      BY <3>1, <3>2
  <2>3. c.passes \in 0..2
    BY <1>1, <1>7
  <2> HIDE DEF late
  <2>4. inPlace' \in Partial(Int) /\ AnchorsAgree'
    BY <1>1, <1>6, <2>1, <2>2, <2>3, StaysAgree
  <2> QED
    BY <2>4
<1> QED
  BY <1>10, <1>11, <1>12, <1>13

LEMMA ListStarts == ListInit => ListInv
PROOF
<1> SUFFICES ASSUME ListInit PROVE ListInv
  OBVIOUS
<1>1. PICK tall \in FirstHeights : view = Rendered(NoPage(tall), 1, LoadSize, "none")
  BY DEF ListInit
<1> DEFINE v == NoPage(tall)
<1>2. /\ tall \in [1..Supply -> Nat \ {0}] /\ LoadSize \in 1..Supply /\ 1 \in 1..Supply
      /\ LoadSize - 1 < Retained
  <2>1. tall \in [1..Supply -> ItemHeights] /\ ItemHeights \subseteq Nat \ {0}
    BY ListAssumption
  <2>2. tall \in [1..Supply -> Nat \ {0}]
    BY <2>1
  <2>3. LoadSize \in 1..Supply /\ 1 \in 1..Supply /\ LoadSize - 1 < Retained
    BY ListConstants
  <2> QED
    BY <2>2, <2>3
<1>3. /\ NoAnchor \in Partial(Int) /\ NoAnchor \in Partial(Nat \ {0}) /\ DOMAIN NoAnchor = {}
      /\ <<>> \in Seq(ListEdges \X Boundaries) /\ <<>> \in Boundaries
      /\ "none" \in ListEdges \cup {"none"} /\ {} \subseteq 1..Supply
  <2>1. <<>> \in Boundaries
    BY DEF Boundaries
  <2>2. <<>> \in Seq(ListEdges \X Boundaries)
    OBVIOUS
  <2> QED
    BY <2>1, <2>2, NoAnchorFacts
<1>4. [e \in ListEdges |-> <<>>] \in [ListEdges -> Boundaries]
  BY <1>3
<1> DEFINE none == [e \in ListEdges |-> <<>>]
<1>5. /\ v = [tall |-> tall, from |-> 1, to |-> 0, busy |-> "none", connected |-> {},
              spaced |-> NoAnchor, known |-> NoAnchor,
              scroll |-> 0, scrolled |-> FALSE, frame |-> FALSE, focus |-> NoItem,
              pending |-> NoAnchor, stable |-> NoAnchor, lasting |-> NoAnchor, passes |-> 0,
              asked |-> none, tasks |-> <<>>]
  BY DEF NoPage
<1>6. \A e \in ListEdges : none[e] = <<>>
  OBVIOUS
<1> HIDE DEF v, none
<1>7. v \in Views
  <2>1. 0 \in 0..2 /\ 0 \in Nat /\ 1 \in Nat \ {0} /\ none \in [ListEdges -> Boundaries]
    BY <1>4 DEF none
  <2> QED
    BY <1>2, <1>3, <1>5, <2>1 DEF Views, NoItem
<1>8. Captured(v) = NoAnchor
  <2>1. InView(v) \cap v.connected = {}
    BY <1>5
  <2> QED
    BY <2>1 DEF Captured, NoAnchor
<1>9. DOMAIN v.known \subseteq Items(v)
  BY <1>3, <1>5
<1>10. IsRendered(view, v, 1, LoadSize, "none")
  BY <1>1, <1>2, <1>3, <1>7, <1>8, <1>9, RenderedFacts DEF v
<1>11. PICK c :
         /\ IsLaid(view, c)
         /\ c.tall = v.tall /\ c.from = 1 /\ c.to = LoadSize /\ c.busy = "none"
         /\ c.focus = (IF v.focus \in 1..LoadSize THEN v.focus ELSE NoItem)
         /\ c.lasting = v.lasting /\ c.passes = v.passes
         /\ SameQuestions(c, v)
  BY <1>10 DEF IsRendered
<1>12. c.focus \in Items(c) \cup {NoItem} /\ c.passes = 0 /\ c.lasting = NoAnchor
       /\ c.asked = none /\ c.tasks = v.tasks
  BY <1>5, <1>11 DEF Items, SameQuestions
<1>13. StandsWell(view)
  <2>1. c.passes \in 0..2
    BY <1>12
  <2> QED
    BY <1>11, <1>12, <2>1, LaidStands
<1>14. view.from = 1 /\ view.to = LoadSize
  BY <1>11 DEF IsLaid, SameItems
<1>15. ListTyped
  <2>1. inPlace \in Partial(Int) /\ view.to - view.from < Retained
    BY <1>2, <1>3, <1>14 DEF ListInit
  <2>2. excuse \in [ListEdges -> {"none", "refused", "failed", "returned"}]
    BY DEF ListInit
  <2> QED
    BY <2>1, <2>2 DEF ListTyped
<1>16. AnchorsAgree
  BY <1>3 DEF AnchorsAgree, ListInit
<1>17. AskedOnce
  <2>1. AsksLike(view, v, c)
    BY <1>11, <1>12, QuestionsFacts DEF IsLaid, SameItems
  <2>2. \A e \in ListEdges : c.asked[e] = <<>>
    BY <1>6, <1>12
  <2> QED
    BY <2>1, <2>2 DEF AsksLike, HasTask, AskedOnce
<1> QED
  BY <1>13, <1>15, <1>16, <1>17 DEF ListInv

LEMMA SameShows ==
  ASSUME NEW u, NEW v, u.from = v.from, u.to = v.to, u.known = v.known, u.scroll = v.scroll,
         u.connected = v.connected, u.asked = v.asked, u.busy = v.busy, Shows(v)
  PROVE  Shows(u)
PROOF
<1>1. Sizes(u) = Sizes(v) /\ Items(u) = Items(v)
  BY SameSizes DEF Items
<1>2. Window(u, Sizes(u), u.scroll) = Window(v, Sizes(v), v.scroll)
  BY <1>1, SameWindow
<1>3. \A w, e : LoadAnswered(u, u, w, e) <=> LoadAnswered(v, v, w, e)
  BY SameTokens DEF LoadAnswered
<1> QED
  BY <1>1, <1>2, <1>3 DEF Shows

LEMMA SameTold ==
  ASSUME NEW u, NEW v, u.from = v.from, u.to = v.to, u.known = v.known, u.connected = v.connected,
         u.spaced = v.spaced, u.tall = v.tall, TellsSizes(v)
  PROVE  TellsSizes(u)
PROOF
<1>1. Sizes(u) = Sizes(v) /\ Items(u) = Items(v)
  BY SameSizes DEF Items
<1> QED
  BY <1>1 DEF TellsSizes

LEMMA ScrollEventKeeps == ListInv /\ ScrollEvent => ListInv'
PROOF
<1> SUFFICES ASSUME ListInv, ScrollEvent PROVE ListInv'
  OBVIOUS
<1>0. StandsWell(view)
  BY DEF ListInv
<1>1. /\ Standing(view) /\ view \in Views /\ view.scroll \in 0..Furthest(view)
      /\ TellsSizes(view) /\ view.connected \subseteq Items(view)
  BY <1>0, ViewFacts
<1>2. view' = [view EXCEPT !.scrolled = FALSE, !.frame = TRUE, !.pending = Captured(view),
                           !.lasting = NoAnchor, !.passes = 0]
      /\ inPlace' = Seen(view) /\ UNCHANGED excuse
  BY DEF ScrollEvent
<1>3. Captured(view) \in Partial(Int) /\ DOMAIN Captured(view) = InView(view) \cap view.connected
      /\ \A i \in DOMAIN Captured(view) : Captured(view)[i] = Top(view, i)
  BY <1>1, CapturedFacts
<1>4. /\ view' \in Views /\ SameItems(view', view) /\ SamePlaces(view', view)
      /\ view'.known = view.known /\ SameQuestions(view', view)
      /\ view'.scroll = view.scroll /\ view'.frame /\ view'.pending = Captured(view)
      /\ view'.lasting = NoAnchor /\ view'.passes = 0
  <2>1. 0 \in 0..2 /\ NoAnchor \in Partial(Int) /\ TRUE \in BOOLEAN /\ FALSE \in BOOLEAN
    BY NoAnchorFacts
  <2> QED
    BY <1>1, <1>2, <1>3, <2>1 DEF Views, SameItems, SamePlaces, SameQuestions
<1>5. Items(view') = Items(view) /\ Furthest(view') = Furthest(view)
  BY <1>4, SameBlocks DEF SameItems
<1>6. Standing(view')
  BY <1>1, <1>4, <1>5 DEF Standing, SameItems, SamePlaces
<1>7. StandsWell(view')
  <2>1. TellsSizes(view')
    BY <1>1, <1>4, SameTold DEF SameItems, SamePlaces
  <2>2. Waiting(view') /\ LaidOut(view')
    BY <1>4 DEF Waiting, LaidOut
  <2>3. view'.connected = view.connected /\ view'.focus = view.focus
    BY <1>4 DEF SamePlaces, SameItems
  <2> QED
    BY <1>0, <1>1, <1>4, <1>5, <1>6, <2>1, <2>2, <2>3 DEF StandsWell
<1> DEFINE m == Min(InView(view))
           D == {m} \cap DOMAIN Captured(view)
<1>8. m \in InView(view) /\ Top(view, m) <= 0 /\ \A i \in InView(view) : m <= i
  BY <1>1, FirstBegins
<1>9. inPlace' = [i \in D |-> Captured(view)[i]]
  BY <1>2 DEF Seen, Restrict
<1> HIDE DEF m
<1>10. DOMAIN inPlace' = D /\ D \subseteq {m} /\ D \subseteq DOMAIN Captured(view)
       /\ \A i \in D : inPlace'[i] = Top(view, i)
  BY <1>3, <1>9
<1>11. inPlace' \in Partial(Int)
  <2>1. Captured(view) \in [DOMAIN Captured(view) -> Int] /\ DOMAIN Captured(view) \subseteq 1..Supply
    BY <1>3, PartialFacts
  <2>2. inPlace' \in [D -> Int] /\ D \subseteq 1..Supply
    BY <1>9, <1>10, <2>1
  <2> QED
    BY <1>10, <2>2, PartialFacts
<1>12. AnchorsAgree'
  <2>1. ASSUME NEW i \in DOMAIN inPlace' PROVE DOMAIN inPlace' = {i} /\ Keeps(view', i, inPlace'[i])
    <3>1. i = m /\ DOMAIN inPlace' = {i} /\ i \in InView(view) /\ i \in view.connected
          /\ inPlace'[i] = Top(view, i)
      BY <1>3, <1>10
    <3>2. AnchoredAt(view'.pending, i, inPlace'[i])
      BY <1>3, <1>4, <1>8, <3>1 DEF AnchoredAt, Anchors
    <3>3. inPlace'[i] <= 0
      BY <1>8, <3>1
    <3>4. view'.connected = view.connected /\ ~(view'.passes > 0)
      BY <1>4 DEF SamePlaces
    <3> QED
      BY <1>4, <3>1, <3>2, <3>3, <3>4 DEF Keeps
  <2> QED
    BY <2>1 DEF AnchorsAgree
<1>13. AskedOnce'
  <2>1. \A e : Token(view', e) = Token(view, e)
    BY <1>4, SameTokens DEF SameItems
  <2>2. view'.busy = view.busy /\ view'.asked = view.asked /\ view'.tasks = view.tasks /\ excuse' = excuse
    BY <1>2, <1>4 DEF SameItems, SameQuestions
  <2>3. AskedOnce
    BY DEF ListInv
  <2> QED
    BY <2>1, <2>2, <2>3 DEF AskedOnce
<1>14. ListTyped'
  BY <1>2, <1>4, <1>11 DEF ListTyped, ListInv, SameItems
<1> QED
  BY <1>7, <1>12, <1>13, <1>14 DEF ListInv

LEMMA FrameKeeps == ListInv /\ FrameComes => ListInv'
PROOF
<1> SUFFICES ASSUME ListInv, FrameComes PROVE ListInv'
  OBVIOUS
<1> DEFINE c == [view EXCEPT !.frame = FALSE]
<1>0. StandsWell(view) /\ ListTyped
  BY DEF ListInv
<1>1. /\ Standing(view) /\ view \in Views /\ TellsSizes(view) /\ Waiting(view)
      /\ view.focus \in Items(view) \cup {NoItem} /\ view.passes \in 0..2
  BY <1>0, ViewFacts
<1>2. /\ TasksDone /\ view.frame /\ view' = Laid(c, view.connected) /\ StaysUnless(FALSE)
      /\ UNCHANGED excuse
  BY DEF FrameComes, StaysSeen
<1>3. /\ c \in Views /\ SameItems(c, view) /\ SamePlaces(c, view) /\ c.known = view.known
      /\ SameQuestions(c, view) /\ SameAnchors(c, view) /\ c.passes = view.passes
      /\ c.scroll = view.scroll /\ c.scrolled = view.scrolled /\ c.frame = FALSE
  BY <1>1 DEF Views, SameItems, SamePlaces, SameQuestions, SameAnchors
<1> HIDE DEF c
<1>4. Items(c) = Items(view)
  BY <1>3, SameBlocks DEF SameItems
<1>5. Standing(c)
  BY <1>1, <1>3, <1>4 DEF Standing, SameItems, SamePlaces
<1>6. DOMAIN c.known \subseteq Items(c) /\ \A i \in DOMAIN c.known \ view.connected : c.known[i] = c.tall[i]
  BY <1>1, <1>3, <1>4 DEF TellsSizes, SameItems
<1>7. IsLaid(view', c)
  BY <1>2, <1>5, <1>6, LaidFacts
<1>8. StandsWell(view')
  <2>1. c.focus \in Items(c) \cup {NoItem} /\ (c.passes = 0 => c.lasting = NoAnchor)
    BY <1>1, <1>3, <1>4 DEF SameItems, SameAnchors, Waiting
  <2>2. c.passes \in 0..2
    BY <1>1, <1>3
  <2> QED
    BY <1>7, <2>1, <2>2, LaidStands
<1>9. inPlace' \in Partial(Int) /\ AnchorsAgree'
  <2>1. ASSUME NEW m \in DOMAIN inPlace
        PROVE  /\ DOMAIN inPlace = {m}
               /\ ~FALSE /\ ~view'.scrolled =>
                    /\ inPlace[m] <= 0 /\ AnchoredAt(c.pending, m, inPlace[m])
                    /\ c.passes > 0 => AnchoredAt(c.lasting, m, inPlace[m])
    <3>1. DOMAIN inPlace = {m}
      BY DEF ListInv, AnchorsAgree
    <3>2. ASSUME ~view'.scrolled
          PROVE  /\ inPlace[m] <= 0 /\ AnchoredAt(c.pending, m, inPlace[m])
                 /\ c.passes > 0 => AnchoredAt(c.lasting, m, inPlace[m])
      <4>1. ~view.scrolled
        BY <1>3, <1>7, <3>2 DEF IsLaid
      <4> QED
        BY <1>2, <1>3, <4>1, KeptAnchor DEF SameAnchors
    <3> QED
      BY <3>1, <3>2
  <2>2. c.passes \in 0..2 /\ ~c.frame /\ inPlace \in Partial(Int)
    BY <1>0, <1>1, <1>3 DEF ListTyped
  <2> QED
    BY <1>2, <1>7, <2>1, <2>2, StaysAgree
<1>10. view'.from = view.from /\ view'.to = view.to /\ view'.busy = view.busy
  BY <1>3, <1>7 DEF IsLaid, SameItems
<1>11. AskedOnce'
  <2>1. AsksLike(view', c, view)
    BY <1>3, <1>7, QuestionsFacts DEF IsLaid, SameItems, SameQuestions
  <2>2. \A e : Token(view', e) = Token(view, e)
    BY <1>10, SameTokens
  <2>3. \A task : ~HasTask(view, task)
    BY <1>2 DEF TasksDone, HasTask
  <2> QED
    BY <1>2, <1>10, <2>1, <2>2, <2>3 DEF AskedOnce, ListInv, HasTask, AsksLike
<1>12. ListTyped'
  BY <1>0, <1>2, <1>9, <1>10 DEF ListTyped
<1> QED
  BY <1>8, <1>9, <1>11, <1>12 DEF ListInv

LEMMA RerenderKeeps == ListInv /\ Rerender => ListInv'
PROOF
<1> SUFFICES ASSUME ListInv, Rerender PROVE ListInv'
  OBVIOUS
<1>0. StandsWell(view) /\ ListTyped
  BY DEF ListInv
<1>1. view' = Rendered(view, view.from, view.to, view.busy) /\ StaysRendered /\ excuse' = excuse
  BY DEF Rerender
<1>2. /\ view \in Views /\ view.from \in 1..Supply /\ view.to \in view.from..Supply
      /\ view.busy \in ListEdges \cup {"none"}
  BY <1>0, ViewFacts
<1>3. ButTasks(view, view)
  BY DEF ButTasks, SameItems, SamePlaces, SameAnchors
<1>4. /\ StandsWell(view)' /\ (inPlace \in Partial(Int) /\ AnchorsAgree)'
      /\ view'.from = view.from /\ view'.to = view.to /\ view'.busy = view.busy
      /\ AsksLike(view', view, view)
  <2> DEFINE f == view.from
             t == view.to
             b == view.busy
  <2>1. f \in 1..Supply /\ t \in f..Supply /\ b \in ListEdges \cup {"none"} /\ view' = Rendered(view, f, t, b)
    BY <1>1, <1>2
  <2> HIDE DEF f, t, b
  <2>2. /\ StandsWell(view)' /\ (inPlace \in Partial(Int) /\ AnchorsAgree)'
        /\ view'.from = f /\ view'.to = t /\ view'.busy = b
        /\ AsksLike(view', view, view)
    BY <1>1, <1>2, <1>3, <2>1, RenderedStep
  <2> QED
    BY <2>2 DEF f, t, b
<1>5. \A e : Token(view', e) = Token(view, e)
  BY <1>4, SameTokens
<1>6. AskedOnce'
  BY <1>1, <1>4, <1>5 DEF AskedOnce, ListInv, HasTask, AsksLike
<1>7. ListTyped'
  BY <1>0, <1>1, <1>4 DEF ListTyped
<1> QED
  BY <1>4, <1>6, <1>7 DEF ListInv

LEMMA PageFailsKeeps == ListInv /\ PageFails => ListInv'
PROOF
<1> SUFFICES ASSUME ListInv, PageFails PROVE ListInv'
  OBVIOUS
<1>0. StandsWell(view) /\ ListTyped
  BY DEF ListInv
<1>1. view' = Rendered(view, view.from, view.to, "none") /\ StaysRendered
      /\ excuse' = [excuse EXCEPT ![view.busy] = "failed"] /\ view.busy # "none"
  BY DEF PageFails
<1>2. /\ view \in Views /\ view.from \in 1..Supply /\ view.to \in view.from..Supply
      /\ view.busy \in ListEdges \cup {"none"}
  BY <1>0, ViewFacts
<1>3. ButTasks(view, view)
  BY DEF ButTasks, SameItems, SamePlaces, SameAnchors
<1>4. /\ StandsWell(view)' /\ (inPlace \in Partial(Int) /\ AnchorsAgree)'
      /\ view'.from = view.from /\ view'.to = view.to /\ view'.busy = "none"
      /\ AsksLike(view', view, view)
  <2> DEFINE f == view.from
             t == view.to
             b == "none"
  <2>1. f \in 1..Supply /\ t \in f..Supply /\ b \in ListEdges \cup {"none"} /\ view' = Rendered(view, f, t, b)
    BY <1>1, <1>2
  <2> HIDE DEF f, t, b
  <2>2. /\ StandsWell(view)' /\ (inPlace \in Partial(Int) /\ AnchorsAgree)'
        /\ view'.from = f /\ view'.to = t /\ view'.busy = b
        /\ AsksLike(view', view, view)
    BY <1>1, <1>2, <1>3, <2>1, RenderedStep
  <2> QED
    BY <2>2 DEF f, t, b
<1>5. \A e : Token(view', e) = Token(view, e)
  BY <1>4, SameTokens
<1>6. /\ excuse' \in [ListEdges -> {"none", "refused", "failed", "returned"}]
      /\ excuse'[view.busy] = "failed" /\ view.busy \in ListEdges
      /\ \A e \in ListEdges : e # view.busy => excuse'[e] = excuse[e]
  BY <1>0, <1>1, <1>2 DEF ListTyped
<1>7. AskedOnce'
  <2> SUFFICES ASSUME NEW e \in ListEdges, Token(view', e) # <<>>, view'.asked[e] = Token(view', e)
               PROVE  HasTask(view', <<e, Token(view', e)>>) \/ view'.busy = e \/ excuse'[e] # "none"
    BY DEF AskedOnce, HasTask
  <2>1. CASE e = view.busy
    BY <1>6, <2>1
  <2>2. CASE e # view.busy
    <3>1. HasTask(view', <<e, Token(view', e)>>) \/ view.asked[e] = Token(view, e)
      BY <1>4, <1>5 DEF AsksLike
    <3>2. ASSUME view.asked[e] = Token(view, e)
          PROVE  HasTask(view, <<e, Token(view, e)>>) \/ excuse[e] # "none"
      BY <1>5, <2>2, <3>2 DEF AskedOnce, ListInv, HasTask
    <3> QED
      BY <1>4, <1>5, <1>6, <2>2, <3>1, <3>2 DEF AsksLike
  <2> QED
    BY <2>1, <2>2
<1>8. ListTyped'
  BY <1>0, <1>4, <1>6 DEF ListTyped
<1> QED
  BY <1>4, <1>7, <1>8 DEF ListInv

\* The boundary at the edge that was loaded is another one.
LEMMA PageComesKeeps == ListInv /\ PageComes => ListInv'
PROOF
<1> SUFFICES ASSUME ListInv, PageComes PROVE ListInv'
  OBVIOUS
<1> DEFINE later == Min({Supply, view.to + LoadSize})
           earlier == Max({1, view.from - LoadSize})
           first == Max({view.from, later - Retained + 1})
           last == Min({view.to, earlier + Retained - 1})
           f == IF view.busy = "end" THEN first ELSE earlier
           t == IF view.busy = "end" THEN later ELSE last
           b == "none"
<1>0. StandsWell(view) /\ ListTyped
  BY DEF ListInv
<1>1. /\ view' = Rendered(view, f, t, b) /\ StaysRendered /\ view.busy # "none"
      /\ excuse' = [e \in ListEdges |->
                      IF Token(view', e) = Token(view, e) THEN excuse[e]
                      ELSE IF Token(view', e) = view.asked[e] THEN "returned" ELSE "none"]
  <2>1. /\ view' = IF view.busy = "end" THEN Rendered(view, first, later, "none")
                   ELSE Rendered(view, earlier, last, "none")
    BY DEF PageComes
  <2> HIDE DEF first, later, earlier, last
  <2>2. view' = Rendered(view, f, t, b)
    BY <2>1
  <2> QED
    BY <2>2 DEF PageComes
<1>2. /\ view \in Views /\ view.from \in 1..Supply /\ view.to \in view.from..Supply
      /\ view.busy \in ListEdges \cup {"none"}
  BY <1>0, ViewFacts
<1>3. /\ Supply \in Nat \ {0} /\ LoadSize \in Nat \ {0} /\ Retained \in Nat \ {0}
      /\ view.from \in Nat /\ view.to \in Nat /\ view.from <= view.to /\ view.to <= Supply /\ view.from >= 1
  BY <1>2, ListConstants
<1>4. later = (IF Supply <= view.to + LoadSize THEN Supply ELSE view.to + LoadSize)
  <2>1. view.to + LoadSize \in Int /\ Supply \in Int
    BY <1>3
  <2> QED
    BY <2>1, MinPair
<1>5. earlier = (IF 1 <= view.from - LoadSize THEN view.from - LoadSize ELSE 1)
  <2>1. view.from - LoadSize \in Int
    BY <1>3
  <2> QED
    BY <2>1, MaxPair
<1>6. later \in Int /\ earlier \in Int /\ later >= view.to /\ later <= Supply /\ earlier >= 1 /\ earlier <= view.from
  BY <1>3, <1>4, <1>5
<1>7. first = (IF view.from <= later - Retained + 1 THEN later - Retained + 1 ELSE view.from)
  <2>1. later - Retained + 1 \in Int /\ view.from \in Int
    BY <1>3, <1>6
  <2> HIDE DEF later
  <2> QED
    BY <2>1, MaxPair
<1>8. last = (IF view.to <= earlier + Retained - 1 THEN view.to ELSE earlier + Retained - 1)
  <2>1. earlier + Retained - 1 \in Int /\ view.to \in Int
    BY <1>3, <1>6
  <2> HIDE DEF earlier
  <2> QED
    BY <2>1, MinPair
<1> HIDE DEF later, earlier, first, last
<1>9. /\ first \in Int /\ first >= 1 /\ first <= later /\ later - first < Retained
      /\ last \in Int /\ last >= earlier /\ last <= Supply /\ last - earlier < Retained
  BY <1>3, <1>6, <1>7, <1>8
<1>10. f \in 1..Supply /\ t \in f..Supply /\ t - f < Retained /\ b \in ListEdges \cup {"none"}
  <2>1. CASE view.busy = "end"
    BY <1>3, <1>6, <1>9, <2>1
  <2>2. CASE view.busy # "end"
    BY <1>3, <1>6, <1>9, <2>2
  <2> QED
    BY <2>1, <2>2
<1>11. view.busy = "end" => t = later
  OBVIOUS
<1>12. view.busy # "end" => f = earlier
  OBVIOUS
<1> HIDE DEF f, t, b
<1>13. ButTasks(view, view)
  BY DEF ButTasks, SameItems, SamePlaces, SameAnchors
<1>14. /\ StandsWell(view)' /\ (inPlace \in Partial(Int) /\ AnchorsAgree)'
       /\ view'.from = f /\ view'.to = t /\ view'.busy = b
       /\ AsksLike(view', view, view)
  BY <1>1, <1>2, <1>10, <1>13, RenderedStep
<1>15. ASSUME NEW e \in ListEdges, view.busy = e, Token(view, e) # <<>> PROVE Token(view', e) # Token(view, e)
  <2>1. CASE e = "end"
    <3>1. view.to # Supply /\ Token(view, e)[1] = view.to
      BY <1>3, <1>15, <2>1 DEF Token
    <3>2. view'.to # view.to
      BY <1>3, <1>4, <1>11, <1>14, <1>15, <2>1, <3>1
    <3>3. Token(view', e) = <<>> \/ Token(view', e)[1] = view'.to
      BY <2>1 DEF Token
    <3> QED
      BY <1>15, <3>1, <3>2, <3>3
  <2>2. CASE e = "start"
    <3>1. view.from # 1 /\ Token(view, e)[1] = view.from
      BY <1>3, <1>15, <2>2 DEF Token
    <3>2. view'.from # view.from
      BY <1>3, <1>5, <1>12, <1>14, <1>15, <2>2, <3>1
    <3>3. Token(view', e) = <<>> \/ Token(view', e)[1] = view'.from
      BY <2>2 DEF Token
    <3> QED
      BY <1>15, <3>1, <3>2, <3>3
  <2> QED
    BY <2>1, <2>2 DEF ListEdges
<1>16. AskedOnce'
  <2> SUFFICES ASSUME NEW e \in ListEdges, Token(view', e) # <<>>, view'.asked[e] = Token(view', e)
               PROVE  HasTask(view', <<e, Token(view', e)>>) \/ view'.busy = e \/ excuse'[e] # "none"
    BY DEF AskedOnce, HasTask
  <2>1. HasTask(view', <<e, Token(view', e)>>) \/ view.asked[e] = Token(view', e)
    BY <1>14 DEF AsksLike
  <2>2. CASE view.asked[e] = Token(view', e) /\ Token(view', e) = Token(view, e)
    <3>1. HasTask(view, <<e, Token(view, e)>>) \/ view.busy = e \/ excuse[e] # "none"
      BY <2>2 DEF AskedOnce, ListInv, HasTask
    <3>2. view.busy # e
      BY <1>15, <2>2
    <3>3. excuse'[e] = excuse[e]
      BY <1>1, <2>2
    <3>4. HasTask(view, <<e, Token(view, e)>>) => HasTask(view', <<e, Token(view', e)>>)
      BY <1>14, <2>2 DEF AsksLike
    <3> QED
      BY <3>1, <3>2, <3>3, <3>4
  <2>3. CASE view.asked[e] = Token(view', e) /\ Token(view', e) # Token(view, e)
    BY <1>1, <2>3
  <2> QED
    BY <2>1, <2>2, <2>3
<1>17. ListTyped'
  <2>1. excuse' \in [ListEdges -> {"none", "refused", "failed", "returned"}]
    BY <1>0, <1>1 DEF ListTyped
  <2> QED
    BY <1>10, <1>14, <2>1 DEF ListTyped
<1> QED
  BY <1>14, <1>16, <1>17 DEF ListInv

LEMMA MicrotaskKeeps == ListInv /\ Microtask => ListInv'
PROOF
<1> SUFFICES ASSUME ListInv, Microtask PROVE ListInv'
  OBVIOUS
<1> DEFINE edge  == Head(view.tasks)[1]
           token == Head(view.tasks)[2]
           rest  == [view EXCEPT !.tasks = Tail(@)]
<1>0. StandsWell(view) /\ ListTyped
  BY DEF ListInv
<1>1. /\ view \in Views /\ view.from \in 1..Supply /\ view.to \in view.from..Supply
      /\ view.tasks \in Seq(ListEdges \X Boundaries) /\ Standing(view) /\ TellsSizes(view)
      /\ LaidOut(view) /\ Waiting(view)
  BY <1>0, ViewFacts
<1>2. /\ view.tasks # <<>>
      /\ \/ Token(view, edge) # token /\ view' = rest /\ excuse' = excuse /\ inPlace' = inPlace
         \/ view.busy = edge /\ view' = rest /\ excuse' = excuse /\ inPlace' = inPlace
         \/ /\ view' = rest /\ excuse' = [excuse EXCEPT ![edge] = "refused"] /\ inPlace' = inPlace
         \/ /\ view.busy = "none" /\ view' = Rendered(rest, view.from, view.to, edge)
            /\ excuse' = [excuse EXCEPT ![edge] = "none"] /\ StaysRendered
  <2> HIDE DEF edge, token, rest
  <2>1. /\ view.tasks # <<>>
        /\ IF Token(view, edge) # token THEN view' = rest /\ UNCHANGED <<inPlace, excuse>>
           ELSE IF view.busy = edge THEN view' = rest /\ UNCHANGED <<inPlace, excuse>>
           ELSE IF view.busy # "none"
           THEN view' = rest /\ excuse' = [excuse EXCEPT ![edge] = "refused"] /\ UNCHANGED inPlace
           ELSE /\ view' = Rendered(rest, view.from, view.to, edge)
                /\ excuse' = [excuse EXCEPT ![edge] = "none"] /\ StaysRendered
    BY DEF Microtask, edge, token, rest
  <2> QED
    BY <2>1
<1>3. /\ edge \in ListEdges /\ Head(view.tasks) = <<edge, token>>
      /\ Tail(view.tasks) \in Seq(ListEdges \X Boundaries)
      /\ \A j \in DOMAIN view.tasks :
           \/ view.tasks[j] = Head(view.tasks)
           \/ j - 1 \in DOMAIN Tail(view.tasks) /\ Tail(view.tasks)[j - 1] = view.tasks[j]
  <2> DEFINE Q == ListEdges \X Boundaries
             q == view.tasks
  <2>1. q \in Seq(Q) /\ q # <<>>
    BY <1>1, <1>2
  <2> HIDE DEF Q, q
  <2>2. Head(q) \in Q /\ Head(q) = q[1] /\ Tail(q) \in Seq(Q) /\ Len(Tail(q)) = Len(q) - 1
        /\ Len(q) \in Nat \ {0} /\ \A j \in 1..Len(Tail(q)) : Tail(q)[j] = q[j + 1]
        /\ DOMAIN q = 1..Len(q) /\ DOMAIN Tail(q) = 1..Len(Tail(q))
    BY <2>1
  <2>3. ASSUME NEW j \in DOMAIN q, j # 1 PROVE j - 1 \in DOMAIN Tail(q) /\ Tail(q)[j - 1] = q[j]
    <3>1. j - 1 \in 1..Len(Tail(q)) /\ (j - 1) + 1 = j
      BY <2>2, <2>3
    <3> QED
      BY <2>2, <3>1
  <2>4. Head(view.tasks) \in ListEdges \X Boundaries
    BY <2>2 DEF Q, q
  <2>5. edge \in ListEdges /\ Head(view.tasks) = <<edge, token>>
    BY <2>4
  <2>6. ASSUME NEW j \in DOMAIN q
        PROVE  q[j] = Head(q) \/ (j - 1 \in DOMAIN Tail(q) /\ Tail(q)[j - 1] = q[j])
    <3>1. q[1] = Head(q)
      BY <2>2
    <3>2. CASE j = 1
      BY <3>1, <3>2
    <3>3. CASE j # 1
      BY <2>3, <3>3
    <3> QED
      BY <3>2, <3>3
  <2>7. Tail(q) \in Seq(Q)
    BY <2>2
  <2> QED
    BY <2>5, <2>6, <2>7 DEF Q, q
<1>4. /\ rest \in Views /\ ButTasks(rest, view) /\ rest.tasks = Tail(view.tasks)
  BY <1>1, <1>3 DEF Views, ButTasks, SameItems, SamePlaces, SameAnchors
<1> HIDE DEF edge, token, rest
<1>5. \A task : HasTask(view, task) => task = <<edge, token>> \/ HasTask(rest, task)
  BY <1>3, <1>4 DEF HasTask
<1>6. CASE view' = rest /\ inPlace' = inPlace
           /\ \/ Token(view, edge) # token /\ excuse' = excuse
              \/ view.busy = edge /\ excuse' = excuse
              \/ excuse' = [excuse EXCEPT ![edge] = "refused"]
  <2>1. /\ SameItems(view', view) /\ SamePlaces(view', view) /\ view'.known = view.known
        /\ SameAnchors(view', view) /\ view'.passes = view.passes /\ view'.scroll = view.scroll
        /\ view'.scrolled = view.scrolled /\ view'.frame = view.frame /\ view'.asked = view.asked
    BY <1>4, <1>6 DEF ButTasks
  <2>2. Items(view') = Items(view) /\ Furthest(view') = Furthest(view)
    BY <2>1, SameBlocks DEF SameItems
  <2>3. Standing(view')
    BY <1>1, <1>4, <1>6, <2>1, <2>2 DEF Standing, SameItems, SamePlaces
  <2>4. TellsSizes(view')
    BY <1>1, <2>1, SameTold DEF SameItems, SamePlaces
  <2>5. LaidOut(view')
    <3>1. Shows(view) => Shows(view')
      BY <2>1, SameShows DEF SameItems, SamePlaces
    <3>2. view'.focus = view.focus /\ view'.connected = view.connected
      BY <2>1 DEF SameItems, SamePlaces
    <3> QED
      BY <1>1, <2>1, <2>2, <3>1, <3>2 DEF LaidOut
  <2>6. Waiting(view')
    BY <1>1, <2>1 DEF Waiting, SameAnchors
  <2>7. StandsWell(view')
    <3>1. view'.focus = view.focus /\ view'.connected = view.connected
      BY <2>1 DEF SameItems, SamePlaces
    <3> QED
      BY <1>0, <2>1, <2>2, <2>3, <2>4, <2>5, <2>6, <3>1 DEF StandsWell
  <2>8. AnchorsAgree'
    <3>1. Sizes(view') = Sizes(view)
      BY <2>1, SameSizes DEF SameItems
    <3>2. \A m : KnownTop(view', m) = KnownTop(view, m)
      BY <2>1, <3>1 DEF KnownTop, SameItems
    <3>3. \A m, y : Keeps(view, m, y) => Keeps(view', m, y)
      BY <2>1, <3>2 DEF Keeps, SamePlaces, SameAnchors
    <3> QED
      BY <1>6, <3>3 DEF ListInv, AnchorsAgree
  <2>9. excuse' \in [ListEdges -> {"none", "refused", "failed", "returned"}]
    BY <1>0, <1>3, <1>6 DEF ListTyped
  <2>10. AskedOnce'
    <3> SUFFICES ASSUME NEW e \in ListEdges, Token(view', e) # <<>>, view'.asked[e] = Token(view', e)
                 PROVE  HasTask(view', <<e, Token(view', e)>>) \/ view'.busy = e \/ excuse'[e] # "none"
      BY DEF AskedOnce, HasTask
    <3>1. Token(view', e) = Token(view, e) /\ view'.busy = view.busy
      BY <2>1, SameTokens DEF SameItems
    <3>2. HasTask(view, <<e, Token(view, e)>>) \/ view.busy = e \/ excuse[e] # "none"
      BY <2>1, <3>1 DEF AskedOnce, ListInv, HasTask
    <3>3. excuse[e] # "none" => excuse'[e] # "none"
      BY <1>0, <1>3, <1>6 DEF ListTyped
    <3>4. ASSUME HasTask(view, <<e, Token(view, e)>>), ~HasTask(view', <<e, Token(view, e)>>)
          PROVE  view'.busy = e \/ excuse'[e] # "none"
      <4>1. <<e, Token(view, e)>> = <<edge, token>>
        BY <1>5, <1>6, <3>4
      <4>2. e = edge /\ Token(view, e) = token
        BY <4>1
      <4>3. CASE excuse' = [excuse EXCEPT ![edge] = "refused"]
        BY <1>0, <4>2, <4>3 DEF ListTyped
      <4>4. CASE excuse' # [excuse EXCEPT ![edge] = "refused"]
        BY <1>6, <3>1, <4>2, <4>4
      <4> QED
        BY <4>3, <4>4
    <3> QED
      BY <3>1, <3>2, <3>3, <3>4
  <2>11. ListTyped'
    BY <1>0, <1>6, <2>1, <2>9 DEF ListTyped, SameItems
  <2> QED
    BY <2>7, <2>8, <2>10, <2>11 DEF ListInv
<1>7. CASE /\ view.busy = "none" /\ view' = Rendered(rest, view.from, view.to, edge)
           /\ excuse' = [excuse EXCEPT ![edge] = "none"] /\ StaysRendered
  <2>1. /\ StandsWell(view)' /\ (inPlace \in Partial(Int) /\ AnchorsAgree)'
        /\ view'.from = view.from /\ view'.to = view.to /\ view'.busy = edge
        /\ AsksLike(view', rest, view)
    <3> DEFINE f == view.from
               t == view.to
    <3>1. f \in 1..Supply /\ t \in f..Supply /\ edge \in ListEdges \cup {"none"}
          /\ view' = Rendered(rest, f, t, edge) /\ StaysRendered
      BY <1>1, <1>3, <1>7
    <3> HIDE DEF f, t
    <3>2. /\ StandsWell(view)' /\ (inPlace \in Partial(Int) /\ AnchorsAgree)'
          /\ view'.from = f /\ view'.to = t /\ view'.busy = edge
          /\ AsksLike(view', rest, view)
      BY <1>4, <3>1, RenderedStep
    <3> QED
      BY <3>2 DEF f, t
  <2>2. \A e : Token(view', e) = Token(view, e)
    BY <2>1, SameTokens
  <2>3. AskedOnce'
    <3> SUFFICES ASSUME NEW e \in ListEdges, Token(view', e) # <<>>, view'.asked[e] = Token(view', e),
                        e # edge
                 PROVE  HasTask(view', <<e, Token(view', e)>>) \/ excuse'[e] # "none"
      BY <2>1 DEF AskedOnce, HasTask
    <3>1. HasTask(view', <<e, Token(view', e)>>) \/ view.asked[e] = Token(view, e)
      BY <2>1, <2>2 DEF AsksLike
    <3>2. CASE view.asked[e] = Token(view, e)
      <4>1. HasTask(view, <<e, Token(view, e)>>) \/ view.busy = e \/ excuse[e] # "none"
        BY <2>2, <3>2 DEF AskedOnce, ListInv, HasTask
      <4>2. view.busy # e
        BY <1>7 DEF ListEdges
      <4>3. excuse'[e] = excuse[e]
        BY <1>0, <1>7 DEF ListTyped
      <4>4. HasTask(view, <<e, Token(view, e)>>) => HasTask(rest, <<e, Token(view, e)>>)
        <5>1. <<e, Token(view, e)>> # <<edge, token>>
          OBVIOUS
        <5> QED
          BY <1>5, <5>1
      <4> QED
        BY <2>1, <2>2, <4>1, <4>2, <4>3, <4>4 DEF AsksLike
    <3> QED
      BY <3>1, <3>2
  <2>4. ListTyped'
    <3>1. excuse' \in [ListEdges -> {"none", "refused", "failed", "returned"}]
      BY <1>0, <1>7 DEF ListTyped
    <3> QED
      BY <1>0, <2>1, <3>1 DEF ListTyped
  <2> QED
    BY <2>1, <2>3, <2>4 DEF ListInv
<1> QED
  BY <1>2, <1>6, <1>7

\* What a move of the page leaves alone.
LEMMA SameKeeps ==
  ASSUME NEW u, NEW v, u.from = v.from, u.to = v.to, u.known = v.known, u.connected = v.connected,
         u.scroll = v.scroll, u.scrolled = v.scrolled, u.frame = v.frame, SameAnchors(u, v),
         u.passes = v.passes, NEW m, NEW y, Keeps(v, m, y)
  PROVE  Keeps(u, m, y)
PROOF
<1>1. Sizes(u) = Sizes(v)
  BY SameSizes
<1>2. KnownTop(u, m) = KnownTop(v, m)
  BY <1>1 DEF KnownTop
<1> QED
  BY <1>2 DEF Keeps, SameAnchors

\* The edges are as they were.
LEMMA SameAskedOnce ==
  ASSUME AskedOnce, view'.from = view.from, view'.to = view.to, view'.busy = view.busy,
         SameQuestions(view', view), excuse' = excuse
  PROVE  AskedOnce'
PROOF
<1>1. \A e : Token(view', e) = Token(view, e)
  BY SameTokens
<1> QED
  BY <1>1 DEF AskedOnce, SameQuestions

LEMMA UserScrollsKeeps == ASSUME ListInv, NEW y \in 0..Furthest(view), UserScrolls(y) PROVE ListInv'
PROOF
<1>0. StandsWell(view) /\ ListTyped
  BY DEF ListInv
<1>1. /\ Standing(view) /\ view \in Views /\ TellsSizes(view) /\ Waiting(view)
  BY <1>0, ViewFacts
<1>2. view' = [view EXCEPT !.scroll = y, !.scrolled = TRUE] /\ inPlace' = inPlace /\ excuse' = excuse
  BY DEF UserScrolls
<1>3. y \in Nat
  BY <1>1, BlocksFacts
<1>4. /\ view' \in Views /\ SameItems(view', view) /\ SamePlaces(view', view) /\ view'.known = view.known
      /\ SameAnchors(view', view) /\ SameQuestions(view', view) /\ view'.passes = view.passes
      /\ view'.scroll = y /\ view'.scrolled /\ view'.frame = view.frame
  BY <1>1, <1>2, <1>3 DEF Views, SameItems, SamePlaces, SameAnchors, SameQuestions
<1>5. Items(view') = Items(view) /\ Furthest(view') = Furthest(view)
  BY <1>4, SameBlocks DEF SameItems
<1>6. Standing(view')
  BY <1>1, <1>4, <1>5 DEF Standing, SameItems, SamePlaces
<1>7. TellsSizes(view')
  BY <1>1, <1>4, SameTold DEF SameItems, SamePlaces
<1>8. StandsWell(view')
  <2>1. view'.connected = view.connected /\ view'.focus = view.focus
    BY <1>4 DEF SamePlaces, SameItems
  <2>2. LaidOut(view') /\ Waiting(view')
    BY <1>1, <1>4 DEF LaidOut, Waiting, SameAnchors
  <2> QED
    BY <1>0, <1>4, <1>5, <1>6, <1>7, <2>1, <2>2 DEF StandsWell
<1>9. AnchorsAgree'
  <2>1. \A m, x : Keeps(view, m, x) => Keeps(view', m, x)
    BY <1>4 DEF Keeps, SamePlaces
  <2> QED
    BY <1>2, <2>1 DEF ListInv, AnchorsAgree
<1>10. AskedOnce'
  BY <1>2, <1>4, SameAskedOnce DEF ListInv, SameItems
<1>11. ListTyped'
  BY <1>0, <1>2, <1>4 DEF ListTyped, SameItems
<1> QED
  BY <1>8, <1>9, <1>10, <1>11 DEF ListInv

\* The window has what is in view, once the blocks are what the host counts with.
LEMMA WindowShows ==
  ASSUME NEW v, Standing(v), v.scroll \in 0..Furthest(v), Blocks(v) = Sizes(v)
  PROVE  LET w == Window(v, Sizes(v), v.scroll) IN
         /\ w.first \in Items(v) /\ w.last \in Items(v) /\ v.scroll < w.total
         /\ \A i \in InView(v) : w.first <= i /\ i <= w.last
PROOF
<1> DEFINE s == Sizes(v)
           w == Window(v, s, v.scroll)
           end(i) == UpTo(s, v.from, i)
<1>1. /\ v.from \in Nat \ {0} /\ v.to \in Nat /\ v.from <= v.to /\ v.scroll \in Nat /\ v.scroll \in Int
      /\ ViewHeight \in Nat \ {0}
  BY ListAssumption DEF Standing, Views
<1>2. s \in [Items(v) -> Nat \ {0}] /\ v \in Views
  BY SizesFacts DEF Standing
<1> HIDE DEF s
<1>3. /\ w.first \in Items(v) /\ w.last \in Items(v) /\ w.total = end(v.to) /\ w.total \in Nat \ {0}
      /\ v.scroll >= 0 /\ v.scroll < w.total =>
           \A i \in Items(v) : /\ end(i) > v.scroll => w.first <= i
                               /\ end(i - 1) < v.scroll + ViewHeight => i <= w.last
  BY <1>1, <1>2, WindowFacts
<1> HIDE DEF w
<1>4. /\ Furthest(v) \in Nat /\ Furthest(v) < end(v.to)
  BY BlocksFacts DEF s
<1>5. v.scroll < w.total
  BY <1>1, <1>3, <1>4
<1>6. ASSUME NEW i \in InView(v) PROVE w.first <= i /\ i <= w.last
  <2>1. /\ i \in Items(v) /\ Top(v, i) < ViewHeight /\ Top(v, i) + Block(v, i) > 0
    BY DEF InView
  <2>2. /\ Top(v, i) = end(i - 1) - v.scroll /\ Top(v, i) + Block(v, i) = end(i) - v.scroll
        /\ end(i - 1) \in Nat /\ end(i) \in Nat
    BY <2>1, TopFacts DEF s
  <2>3. end(i) > v.scroll /\ end(i - 1) < v.scroll + ViewHeight
    BY <1>1, <2>1, <2>2
  <2> QED
    BY <1>1, <1>3, <1>5, <2>1, <2>3
<1> QED
  BY <1>3, <1>5, <1>6 DEF w, s

LEMMA UserFocusesKeeps ==
  ASSUME ListInv, NEW i \in InView(view) \cap view.connected, UserFocuses(i)
  PROVE  ListInv'
PROOF
<1>0. StandsWell(view) /\ ListTyped
  BY DEF ListInv
<1>1. /\ Standing(view) /\ view \in Views /\ TellsSizes(view) /\ LaidOut(view) /\ Waiting(view)
      /\ view.scroll \in 0..Furthest(view) /\ view.connected \subseteq Items(view) /\ Items(view) \in SUBSET Nat
  BY <1>0, ViewFacts
<1>2. view' = [view EXCEPT !.focus = i] /\ inPlace' = inPlace /\ excuse' = excuse /\ Unmeasured(view) = {}
  BY DEF UserFocuses
<1>3. i \in Nat
  BY <1>1
<1>4. /\ view' \in Views /\ SamePlaces(view', view) /\ view'.known = view.known
      /\ view'.tall = view.tall /\ view'.from = view.from /\ view'.to = view.to /\ view'.busy = view.busy
      /\ SameAnchors(view', view) /\ SameQuestions(view', view) /\ view'.passes = view.passes
      /\ view'.scroll = view.scroll /\ view'.scrolled = view.scrolled /\ view'.frame = view.frame
      /\ view'.focus = i
  BY <1>1, <1>2, <1>3 DEF Views, SamePlaces, SameAnchors, SameQuestions
<1>5. Items(view') = Items(view) /\ Furthest(view') = Furthest(view)
  BY <1>4, SameBlocks
<1>6. Standing(view')
  BY <1>1, <1>4, <1>5 DEF Standing, SamePlaces
<1>7. TellsSizes(view')
  BY <1>1, <1>4, SameTold DEF SamePlaces
<1>8. LaidOut(view')
  <2> SUFFICES ASSUME ~view'.frame, ~view'.scrolled
               PROVE  Shows(view') /\ Near(i, 1) \cap Items(view') \subseteq view'.connected
    BY <1>4 DEF LaidOut
  <2>1. Shows(view)
    BY <1>1, <1>4 DEF LaidOut
  <2>2. Shows(view')
    BY <1>4, <2>1, SameShows DEF SamePlaces, SameQuestions
  <2> DEFINE w == Window(view, Sizes(view), view.scroll)
  <2>3. Blocks(view) = Sizes(view)
    BY <1>1, <1>2, MeasuredBlocks DEF Unmeasured
  <2>4. w.first \in Items(view) /\ w.last \in Items(view) /\ w.first <= i /\ i <= w.last
    BY <1>1, <2>3, WindowShows
  <2>5. ((w.first - Overscan)..(w.last + Overscan)) \cap Items(view) \subseteq view.connected
    BY <2>1 DEF Shows
  <2> HIDE DEF w
  <2>6. Near(i, 1) \subseteq (w.first - Overscan)..(w.last + Overscan)
    <3>1. w.first \in Nat /\ w.last \in Nat /\ Overscan \in Nat \ {0}
      BY <1>1, <2>4, ListAssumption
    <3> QED
      BY <1>3, <2>4, <3>1 DEF Near
  <2> QED
    BY <1>4, <1>5, <2>2, <2>5, <2>6 DEF SamePlaces
<1>9. StandsWell(view')
  <2>1. view'.connected = view.connected
    BY <1>4 DEF SamePlaces
  <2>2. Waiting(view')
    BY <1>1, <1>4 DEF Waiting, SameAnchors
  <2> QED
    BY <1>0, <1>4, <1>5, <1>6, <1>7, <1>8, <2>1, <2>2 DEF StandsWell
<1>10. AnchorsAgree'
  <2>1. \A m, x : Keeps(view, m, x) => Keeps(view', m, x)
    BY <1>4, SameKeeps DEF SamePlaces
  <2> QED
    BY <1>2, <2>1 DEF ListInv, AnchorsAgree
<1>11. AskedOnce'
  BY <1>2, <1>4, SameAskedOnce DEF ListInv
<1>12. ListTyped'
  BY <1>0, <1>2, <1>4 DEF ListTyped
<1> QED
  BY <1>9, <1>10, <1>11, <1>12 DEF ListInv

LEMMA ObserveKeeps == ListInv /\ Observe => ListInv'
PROOF
<1> SUFFICES ASSUME ListInv, Observe PROVE ListInv'
  OBVIOUS
<1> DEFINE anchor == OrElse(view.stable, Captured(view))
           there  == DOMAIN anchor \cap Items(view)
           above  == {i \in Unmeasured(view) \cap DOMAIN view.known : i < Min(there)}
           moves  == [i \in Items(view) |-> IF i \in above THEN view.tall[i] - view.known[i] ELSE 0]
           moved  == IF there = {} THEN 0 ELSE UpTo(moves, view.from, view.to)
           known  == Measured(view, Unmeasured(view)).known
           s      == IF moved = 0 THEN view ELSE ScrolledTo(view, view.scroll + moved)
           pending == OrElse(s.pending, anchor)
<1>0. StandsWell(view) /\ ListTyped
  BY DEF ListInv
<1>1. /\ Standing(view) /\ view \in Views /\ TellsSizes(view) /\ Waiting(view)
      /\ view.scroll \in 0..Furthest(view) /\ view.scroll \in Nat /\ view.connected \subseteq Items(view)
      /\ Items(view) \subseteq 1..Supply /\ Items(view) = view.from..view.to
      /\ view.stable \in Partial(Int) /\ view.pending \in Partial(Int)
  BY <1>0, ViewFacts
<1>2. /\ view' = [s EXCEPT !.known = known, !.frame = TRUE, !.pending = pending]
      /\ inPlace' = inPlace /\ excuse' = excuse
  <2>1. view' = [(IF moved = 0 THEN view ELSE ScrolledTo(view, view.scroll + moved))
                    EXCEPT !.known = known, !.frame = TRUE, !.pending = OrElse(@, anchor)]
    BY DEF Observe
  <2>2. view' = [s EXCEPT !.known = known, !.frame = TRUE, !.pending = OrElse(@, anchor)]
    BY <2>1
  <2> HIDE DEF s, known, anchor
  <2> QED
    BY <2>2 DEF Observe
<1>3. anchor \in Partial(Int)
  BY <1>1, CapturedFacts, OrElseFacts
<1>4. DOMAIN view.stable # {} => anchor = view.stable
  BY <1>1, CapturedFacts, OrElseFacts
<1>5. moved \in Int
  <2>1. /\ view.tall \in [1..Supply -> Nat \ {0}] /\ view.known \in [DOMAIN view.known -> Nat \ {0}]
        /\ view.from \in Nat \ {0} /\ view.to \in Nat /\ view.from <= view.to + 1
    <3>1. view.known \in Partial(Nat \ {0})
      BY <1>1 DEF Views
    <3> QED
      BY <1>1, <3>1, PartialFacts DEF Standing, Views
  <2>2. moves \in [Items(view) -> Int]
    <3>1. above \subseteq DOMAIN view.known
      OBVIOUS
    <3> HIDE DEF above
    <3>2. ASSUME NEW i \in Items(view), i \in above PROVE view.tall[i] - view.known[i] \in Int
      <4>1. i \in DOMAIN view.known /\ i \in 1..Supply
        BY <1>1, <3>1, <3>2
      <4>2. view.known[i] \in Nat /\ view.tall[i] \in Nat
        BY <2>1, <4>1
      <4> QED
        BY <4>2
    <3> QED
      BY <3>2
  <2> HIDE DEF moves
  <2> DEFINE f == view.from
             t == view.to
  <2>3. f \in Nat \ {0} /\ t \in Nat /\ f <= t + 1 /\ moves \in [f..t -> Int] /\ t \in (f - 1)..t
    BY <1>1, <2>1, <2>2
  <2> HIDE DEF f, t
  <2>4. UpTo(moves, f, t) \in Int
    BY <2>3, UpToFacts
  <2> HIDE DEF there
  <2> QED
    BY <2>4 DEF f, t
<1> HIDE DEF anchor, moved
<1>6. /\ Standing(s) /\ SameItems(s, view) /\ SamePlaces(s, view) /\ s.known = view.known
      /\ SameAnchors(s, view) /\ SameQuestions(s, view) /\ s.passes = view.passes
      /\ s.scroll \in 0..Furthest(view) /\ (view.scrolled => s.scrolled)
  <2>1. CASE moved = 0
    BY <1>1, <2>1 DEF SameItems, SamePlaces, SameAnchors, SameQuestions
  <2>2. CASE moved # 0
    <3>1. view.scroll + moved \in Int
      BY <1>1, <1>5
    <3>2. IsScrolledTo(s, view, view.scroll + moved)
      BY <1>1, <2>2, <3>1, ScrolledFacts
    <3> QED
      BY <3>2 DEF IsScrolledTo
  <2> QED
    BY <2>1, <2>2
<1> HIDE DEF s
<1>7. /\ known \in Partial(Nat \ {0}) /\ DOMAIN known = DOMAIN view.known \cup Unmeasured(view)
      /\ \A i \in DOMAIN view.known \ Unmeasured(view) : known[i] = view.known[i]
      /\ Unmeasured(view) \subseteq view.connected
  <2>1. Unmeasured(view) \subseteq view.connected /\ Unmeasured(view) \in SUBSET Items(view)
    BY <1>1 DEF Unmeasured
  <2>2. IsMeasured(Measured(view, Unmeasured(view)), view, Unmeasured(view))
    BY <1>1, <2>1, MeasuredFacts
  <2>3. known \in Partial(Nat \ {0})
    BY <2>2 DEF IsMeasured, Standing, Views
  <2> QED
    BY <2>1, <2>2, <2>3 DEF IsMeasured
<1> HIDE DEF known
<1>8. pending \in Partial(Int) /\ pending = (IF DOMAIN view.pending = {} THEN anchor ELSE view.pending)
  BY <1>1, <1>3, <1>6, OrElseFacts DEF SameAnchors
<1> HIDE DEF pending
<1>9. /\ view' \in Views /\ SameItems(view', view) /\ SamePlaces(view', view) /\ view'.known = known
      /\ view'.stable = view.stable /\ view'.lasting = view.lasting /\ view'.pending = pending
      /\ SameQuestions(view', view) /\ view'.passes = view.passes /\ view'.frame
      /\ view'.scroll \in 0..Furthest(view) /\ (view.scrolled => view'.scrolled)
  <2>1. s \in Views
    BY <1>6 DEF Standing
  <2>2. /\ view' \in Views /\ SameItems(view', s) /\ SamePlaces(view', s) /\ view'.known = known
        /\ view'.stable = s.stable /\ view'.lasting = s.lasting /\ view'.pending = pending
        /\ SameQuestions(view', s) /\ view'.passes = s.passes /\ view'.frame
        /\ view'.scroll = s.scroll /\ view'.scrolled = s.scrolled
    BY <1>2, <1>7, <1>8, <2>1 DEF Views, SameItems, SamePlaces, SameQuestions
  <2> QED
    BY <1>6, <2>2 DEF SameItems, SamePlaces, SameQuestions, SameAnchors
<1>10. Items(view') = Items(view) /\ Furthest(view') = Furthest(view)
  BY <1>9, SameBlocks DEF SameItems
<1>11. view'.connected = view.connected /\ view'.focus = view.focus /\ view'.spaced = view.spaced
       /\ view'.tall = view.tall /\ view'.from = view.from /\ view'.to = view.to /\ view'.busy = view.busy
  BY <1>9 DEF SamePlaces, SameItems
<1>12. Standing(view')
  BY <1>1, <1>9, <1>10, <1>11 DEF Standing
<1>13. TellsSizes(view')
  <2>1. \A i \in Items(view) \ view.connected : Sizes(view')[i] = Sizes(view)[i]
    BY <1>7, <1>9, <1>10 DEF Sizes
  <2>2. DOMAIN view'.known \subseteq Items(view')
    BY <1>1, <1>7, <1>9, <1>10 DEF TellsSizes
  <2>3. \A i \in DOMAIN view'.known : i \in Items(view') \ view'.connected => view'.known[i] = view'.tall[i]
    BY <1>1, <1>7, <1>9, <1>10, <1>11 DEF TellsSizes
  <2> QED
    BY <1>1, <1>10, <1>11, <2>1, <2>2, <2>3 DEF TellsSizes
<1>14. StandsWell(view')
  <2>1. LaidOut(view') /\ Waiting(view')
    BY <1>1, <1>9 DEF LaidOut, Waiting
  <2> QED
    BY <1>0, <1>9, <1>10, <1>11, <1>12, <1>13, <2>1 DEF StandsWell
<1>15. AnchorsAgree'
  <2>1. ASSUME NEW m \in DOMAIN inPlace PROVE DOMAIN inPlace = {m} /\ Keeps(view', m, inPlace[m])
    <3>1. DOMAIN inPlace = {m} /\ m \in view'.connected
      BY <1>11 DEF ListInv, AnchorsAgree, Keeps
    <3>2. ASSUME ~view'.scrolled
          PROVE  /\ inPlace[m] <= 0 /\ AnchoredAt(view'.pending, m, inPlace[m])
                 /\ view'.passes > 0 => AnchoredAt(view'.lasting, m, inPlace[m])
      <4>1. ~view.scrolled
        BY <1>9, <3>2
      <4>2. /\ inPlace[m] <= 0
            /\ view.passes > 0 => AnchoredAt(view.lasting, m, inPlace[m])
            /\ view.frame => AnchoredAt(view.pending, m, inPlace[m])
            /\ ~view.frame => view.pending = NoAnchor /\ AnchoredAt(view.stable, m, inPlace[m])
        BY <4>1, KeptAnchor
      <4>3. AnchoredAt(pending, m, inPlace[m])
        <5>1. CASE view.frame
          <6>1. DOMAIN view.pending # {}
            BY <4>2, <5>1 DEF AnchoredAt, Anchors
          <6> QED
            BY <1>8, <4>2, <5>1, <6>1
        <5>2. CASE ~view.frame
          <6>1. DOMAIN view.pending = {}
            BY <4>2, <5>2, NoAnchorFacts
          <6>2. DOMAIN view.stable # {}
            BY <4>2, <5>2 DEF AnchoredAt, Anchors
          <6> QED
            BY <1>4, <1>8, <4>2, <5>2, <6>1, <6>2
        <5> QED
          BY <5>1, <5>2
      <4> QED
        BY <1>9, <4>2, <4>3
    <3> QED
      BY <1>9, <3>1, <3>2 DEF Keeps
  <2> QED
    BY <1>2, <2>1 DEF AnchorsAgree
<1>16. AskedOnce'
  BY <1>2, <1>9, <1>11, SameAskedOnce DEF ListInv
<1>17. ListTyped'
  BY <1>0, <1>2, <1>11 DEF ListTyped
<1> QED
  BY <1>14, <1>15, <1>16, <1>17 DEF ListInv

\* What the host notes of another height: a frame and anchors, or nothing.
LEMMA ResizedFacts ==
  ASSUME NEW c, Standing(c), Waiting(c), NEW by \in {"itself", "load", "viewport"}
  PROVE  LET u == Resized(c, by)
             anchor == OrElse(c.stable, Captured(c))
             lasting == OrElse(c.lasting, anchor)
         IN
         /\ u \in Views /\ SameItems(u, c) /\ SamePlaces(u, c) /\ u.known = c.known
         /\ SameQuestions(u, c) /\ u.scroll = c.scroll /\ u.scrolled = c.scrolled /\ u.stable = c.stable
         /\ Waiting(u)
         /\ \/ u.frame = c.frame /\ u.pending = c.pending /\ u.lasting = c.lasting /\ u.passes = c.passes
            \/ u.frame /\ u.pending = anchor /\ u.lasting = c.lasting /\ u.passes = c.passes
            \/ u.frame /\ u.pending = lasting /\ u.lasting = lasting /\ u.passes = 2
PROOF
<1> DEFINE u == Resized(c, by)
           anchor == OrElse(c.stable, Captured(c))
           lasting == OrElse(c.lasting, anchor)
<1>1. c \in Views /\ c.stable \in Partial(Int) /\ c.lasting \in Partial(Int) /\ Captured(c) \in Partial(Int)
  BY CapturedFacts DEF Standing, Views
<1>2. anchor \in Partial(Int)
  BY <1>1, OrElseFacts
<1>3. u = CASE by = "itself" -> c
            [] by = "load" -> [c EXCEPT !.frame = TRUE, !.pending = anchor]
            [] by = "viewport" -> [c EXCEPT !.frame = TRUE, !.pending = lasting, !.lasting = lasting,
                                           !.passes = 2]
  BY DEF Resized
<1> HIDE DEF u, anchor
<1>4. lasting \in Partial(Int)
  BY <1>1, <1>2, OrElseFacts
<1> HIDE DEF lasting
<1>5. 2 \in 0..2 /\ TRUE \in BOOLEAN
  OBVIOUS
<1>6. CASE by = "itself"
  <2>1. u = c
    BY <1>3, <1>6
  <2> QED
    BY <1>1, <2>1 DEF SameItems, SamePlaces, SameQuestions, u
<1>7. CASE by = "load"
  <2>1. u = [c EXCEPT !.frame = TRUE, !.pending = anchor]
    BY <1>3, <1>7
  <2>2. /\ u \in Views /\ SameItems(u, c) /\ SamePlaces(u, c) /\ u.known = c.known
        /\ SameQuestions(u, c) /\ u.scroll = c.scroll /\ u.scrolled = c.scrolled /\ u.stable = c.stable
        /\ u.frame /\ u.pending = anchor /\ u.lasting = c.lasting /\ u.passes = c.passes
    BY <1>1, <1>2, <1>5, <2>1 DEF Views, SameItems, SamePlaces, SameQuestions
  <2>3. Waiting(u)
    BY <2>2 DEF Waiting
  <2> QED
    BY <2>2, <2>3 DEF u, anchor
<1>8. CASE by = "viewport"
  <2>1. u = [c EXCEPT !.frame = TRUE, !.pending = lasting, !.lasting = lasting, !.passes = 2]
    BY <1>3, <1>8
  <2>2. /\ u \in Views /\ SameItems(u, c) /\ SamePlaces(u, c) /\ u.known = c.known
        /\ SameQuestions(u, c) /\ u.scroll = c.scroll /\ u.scrolled = c.scrolled /\ u.stable = c.stable
        /\ u.frame /\ u.pending = lasting /\ u.lasting = lasting /\ u.passes = 2
    BY <1>1, <1>4, <1>5, <2>1 DEF Views, SameItems, SamePlaces, SameQuestions
  <2>3. Waiting(u)
    BY <2>2 DEF Waiting
  <2> QED
    BY <2>2, <2>3 DEF u, anchor, lasting
<1> QED
  BY <1>6, <1>7, <1>8

LEMMA ResizeKeeps ==
  ASSUME ListInv, NEW i \in view.connected, NEW h \in ItemHeights,
         NEW by \in {"itself", "load", "viewport"}, Resize(i, h, by)
  PROVE  ListInv'
PROOF
<1> DEFINE b == [view EXCEPT !.tall[i] = h]
           c == Clamped(b)
<1>0. StandsWell(view) /\ ListTyped
  BY DEF ListInv
<1>1. /\ Standing(view) /\ view \in Views /\ TellsSizes(view) /\ Waiting(view) /\ LaidOut(view)
      /\ view.scroll \in 0..Furthest(view) /\ view.scroll \in Nat /\ view.connected \subseteq Items(view)
      /\ Items(view) \subseteq 1..Supply
      /\ view.stable \in Partial(Int) /\ view.pending \in Partial(Int) /\ view.lasting \in Partial(Int)
  BY <1>0, ViewFacts
<1>2. view' = Resized(c, by) /\ excuse' = excuse
      /\ inPlace' = IF view.pending \in {NoAnchor, view'.pending} THEN inPlace ELSE NoAnchor
  BY DEF Resize
<1>3. /\ b \in Views /\ b.from = view.from /\ b.to = view.to /\ b.busy = view.busy /\ b.focus = view.focus
      /\ SamePlaces(b, view) /\ b.known = view.known /\ SameAnchors(b, view) /\ SameQuestions(b, view)
      /\ b.passes = view.passes /\ b.scroll = view.scroll /\ b.scrolled = view.scrolled
      /\ b.frame = view.frame /\ \A k \in 1..Supply : k # i => b.tall[k] = view.tall[k]
  <2> DEFINE tall == [view.tall EXCEPT ![i] = h]
  <2>1. view.tall \in [1..Supply -> Nat \ {0}] /\ h \in Nat \ {0} /\ i \in 1..Supply
    BY <1>1, ListAssumption DEF Views
  <2>2. tall \in [1..Supply -> Nat \ {0}] /\ \A k \in 1..Supply : k # i => tall[k] = view.tall[k]
    BY <2>1
  <2>3. b = [view EXCEPT !.tall = tall]
    BY <1>1 DEF Views
  <2> HIDE DEF tall, b
  <2> QED
    BY <1>1, <2>2, <2>3 DEF Views, SamePlaces, SameAnchors, SameQuestions
<1> HIDE DEF b
<1>4. Items(b) = Items(view)
  BY <1>3 DEF Items
<1>5. Standing(b)
  BY <1>1, <1>3, <1>4 DEF Standing, SamePlaces
<1>6. IsScrolledTo(c, b, b.scroll)
  <2>1. b.scroll \in Int
    BY <1>1, <1>3
  <2> QED
    BY <1>5, <2>1, ScrolledFacts DEF Clamped
<1> HIDE DEF c
<1>7. /\ Standing(c) /\ SameItems(c, b) /\ SamePlaces(c, view) /\ c.known = view.known
      /\ SameAnchors(c, view) /\ SameQuestions(c, view) /\ c.passes = view.passes /\ c.frame = view.frame
      /\ c.scroll \in 0..Furthest(c)
      /\ (c.scrolled <=> view.scrolled \/ c.scroll # view.scroll)
      /\ c.from = view.from /\ c.to = view.to /\ c.busy = view.busy /\ c.focus = view.focus
      /\ Items(c) = Items(view)
  BY <1>3, <1>4, <1>6 DEF IsScrolledTo, SamePlaces, SameAnchors, SameQuestions, SameItems
<1>8. Waiting(c)
  BY <1>1, <1>7 DEF Waiting, SameAnchors
<1> DEFINE anchor == OrElse(c.stable, Captured(c))
           lasting == OrElse(c.lasting, anchor)
<1>9. /\ view' \in Views /\ SameItems(view', c) /\ SamePlaces(view', c) /\ view'.known = c.known
      /\ SameQuestions(view', c) /\ view'.scroll = c.scroll /\ view'.scrolled = c.scrolled
      /\ view'.stable = c.stable /\ Waiting(view')
      /\ \/ view'.frame = c.frame /\ view'.pending = c.pending /\ view'.lasting = c.lasting
            /\ view'.passes = c.passes
         \/ view'.frame /\ view'.pending = anchor /\ view'.lasting = c.lasting /\ view'.passes = c.passes
         \/ view'.frame /\ view'.pending = lasting /\ view'.lasting = lasting /\ view'.passes = 2
  BY <1>2, <1>7, <1>8, ResizedFacts
<1>10. /\ anchor \in Partial(Int) /\ (DOMAIN view.stable # {} => anchor = view.stable)
       /\ (view.lasting = NoAnchor => lasting = anchor)
       /\ (DOMAIN view.lasting # {} => lasting = view.lasting)
  <2>1. c.stable = view.stable /\ c.lasting = view.lasting
    BY <1>7 DEF SameAnchors
  <2>2. Captured(c) \in Partial(Int)
    BY <1>7, CapturedFacts
  <2>3. anchor \in Partial(Int) /\ (DOMAIN view.stable # {} => anchor = view.stable)
    BY <1>1, <2>1, <2>2, OrElseFacts
  <2> HIDE DEF anchor
  <2>4. (view.lasting = NoAnchor => lasting = anchor) /\ (DOMAIN view.lasting # {} => lasting = view.lasting)
    BY <1>1, <2>1, <2>3, OrElseFacts, NoAnchorFacts
  <2> QED
    BY <2>3, <2>4
<1> HIDE DEF anchor, lasting
<1>11. /\ view'.from = view.from /\ view'.to = view.to /\ view'.busy = view.busy /\ view'.focus = view.focus
       /\ view'.connected = view.connected /\ view'.spaced = view.spaced /\ view'.known = view.known
       /\ view'.tall = b.tall /\ view'.asked = view.asked /\ view'.tasks = view.tasks
       /\ view'.stable = view.stable
       /\ (view'.scrolled <=> view.scrolled \/ view'.scroll # view.scroll)
  BY <1>7, <1>9 DEF SameItems, SamePlaces, SameQuestions, SameAnchors
<1>12. Items(view') = Items(view) /\ Furthest(view') = Furthest(c)
  <2>1. Furthest(view') = Furthest(c)
    BY <1>9, SameBlocks DEF SameItems
  <2> QED
    BY <1>11, <2>1 DEF Items
<1>13. Standing(view')
  BY <1>1, <1>9, <1>11, <1>12 DEF Standing
<1>14. TellsSizes(view')
  <2>1. Sizes(view') = Sizes(view)
    BY <1>11, SameSizes
  <2>2. \A k \in Items(view) \ view.connected : view'.tall[k] = view.tall[k]
    BY <1>1, <1>3, <1>11
  <2> QED
    BY <1>1, <1>11, <1>12, <2>1, <2>2 DEF TellsSizes
<1>15. LaidOut(view')
  <2> SUFFICES ASSUME ~view'.frame, ~view'.scrolled
               PROVE  Shows(view') /\ (view'.focus # NoItem =>
                                         Near(view'.focus, 1) \cap Items(view') \subseteq view'.connected)
    BY DEF LaidOut
  <2>1. ~view.frame /\ ~view.scrolled /\ view'.scroll = view.scroll
    BY <1>7, <1>9, <1>11
  <2>2. Shows(view')
    BY <1>1, <1>11, <2>1, SameShows DEF LaidOut
  <2> QED
    BY <1>1, <1>11, <1>12, <2>1, <2>2 DEF LaidOut
<1>16. StandsWell(view')
  BY <1>0, <1>7, <1>9, <1>11, <1>12, <1>13, <1>14, <1>15 DEF StandsWell
<1>17. CASE inPlace' = NoAnchor
  <2>1. inPlace' \in Partial(Int) /\ AnchorsAgree'
    BY <1>17, NoAnchorFacts DEF AnchorsAgree
  <2>2. AskedOnce'
    BY <1>2, <1>11, SameAskedOnce DEF ListInv, SameQuestions
  <2> QED
    BY <1>0, <1>2, <1>11, <1>16, <2>1, <2>2 DEF ListInv, ListTyped
<1>18. CASE inPlace' # NoAnchor
  <2>1. inPlace' = inPlace /\ (view.pending = NoAnchor \/ view.pending = view'.pending)
    BY <1>2, <1>18
  <2>2. ASSUME NEW m \in DOMAIN inPlace PROVE DOMAIN inPlace = {m} /\ Keeps(view', m, inPlace[m])
    <3>1. DOMAIN inPlace = {m} /\ m \in view'.connected /\ Keeps(view, m, inPlace[m])
      BY <1>11 DEF ListInv, AnchorsAgree, Keeps
    <3>2. ASSUME ~view'.scrolled PROVE Keeps(view', m, inPlace[m])
      <4>1. ~view.scrolled /\ view'.scroll = view.scroll
        BY <1>11, <3>2
      <4>2. /\ inPlace[m] <= 0
            /\ view.passes > 0 => AnchoredAt(view.lasting, m, inPlace[m])
            /\ view.frame => AnchoredAt(view.pending, m, inPlace[m])
            /\ ~view.frame => /\ view.pending = NoAnchor /\ view.passes = 0
                              /\ AnchoredAt(view.stable, m, inPlace[m])
        BY <4>1, KeptAnchor
      <4>3. CASE /\ view'.frame = c.frame /\ view'.pending = c.pending /\ view'.lasting = c.lasting
                 /\ view'.passes = c.passes
        <5>1. SameAnchors(view', view) /\ view'.frame = view.frame /\ view'.passes = view.passes
          BY <1>7, <1>11, <4>3 DEF SameAnchors
        <5>2. view'.scrolled = view.scrolled
          BY <1>1, <1>9, <3>2, <4>1 DEF Views
        <5> QED
          BY <1>11, <3>1, <4>1, <5>1, <5>2, SameKeeps
      <4>4. ~view.frame => anchor = view.stable
        <5>1. ~view.frame => DOMAIN view.stable # {}
          BY <4>2 DEF AnchoredAt, Anchors
        <5> QED
          BY <1>10, <5>1
      <4>5. view.frame => view.pending # NoAnchor
        BY <4>2, NoAnchorFacts DEF AnchoredAt, Anchors
      <4>6. CASE view'.frame /\ view'.pending = anchor /\ view'.lasting = c.lasting /\ view'.passes = c.passes
        <5>1. AnchoredAt(view'.pending, m, inPlace[m])
          BY <2>1, <4>2, <4>4, <4>5, <4>6
        <5>2. view'.passes > 0 => AnchoredAt(view'.lasting, m, inPlace[m])
          BY <1>7, <4>2, <4>6 DEF SameAnchors
        <5> QED
          BY <3>1, <4>2, <4>6, <5>1, <5>2 DEF Keeps
      <4>7. CASE view'.frame /\ view'.pending = lasting /\ view'.lasting = lasting /\ view'.passes = 2
        <5>1. AnchoredAt(lasting, m, inPlace[m])
          <6>1. CASE view.frame
            BY <2>1, <4>2, <4>5, <4>7, <6>1
          <6>2. CASE ~view.frame
            <7>1. view.lasting = NoAnchor
              BY <1>1, <4>2, <6>2 DEF Waiting
            <7> QED
              BY <1>10, <4>2, <4>4, <6>2, <7>1
          <6> QED
            BY <6>1, <6>2
        <5> QED
          BY <3>1, <4>2, <4>7, <5>1 DEF Keeps
      <4> QED
        BY <1>9, <4>3, <4>6, <4>7
    <3> QED
      BY <3>1, <3>2 DEF Keeps
  <2>3. AnchorsAgree'
    BY <2>1, <2>2 DEF AnchorsAgree
  <2>4. AskedOnce'
    BY <1>2, <1>11, SameAskedOnce DEF ListInv, SameQuestions
  <2> QED
    BY <1>0, <1>2, <1>11, <1>16, <2>1, <2>3, <2>4 DEF ListInv, ListTyped
<1> QED
  BY <1>17, <1>18

\* The inductive invariant of the list.
THEOREM ListInvariance == ListSpec => []ListInv
PROOF
<1>1. ListInit => ListInv
  BY ListStarts
<1>2. ListInv /\ [ListNext]_listVars => ListInv'
  <2> SUFFICES ASSUME ListInv, [ListNext]_listVars PROVE ListInv'
    OBVIOUS
  <2>1. CASE ScrollEvent
    BY <2>1, ScrollEventKeeps
  <2>2. CASE FrameComes
    BY <2>2, FrameKeeps
  <2>3. CASE Observe
    BY <2>3, ObserveKeeps
  <2>4. CASE Microtask
    BY <2>4, MicrotaskKeeps
  <2>5. CASE PageComes
    BY <2>5, PageComesKeeps
  <2>6. CASE PageFails
    BY <2>6, PageFailsKeeps
  <2>7. CASE Rerender
    BY <2>7, RerenderKeeps
  <2>8. ASSUME NEW y \in 0..Furthest(view), UserScrolls(y) PROVE ListInv'
    BY <2>8, UserScrollsKeeps
  <2>9. ASSUME NEW i \in InView(view) \cap view.connected, UserFocuses(i) PROVE ListInv'
    BY <2>9, UserFocusesKeeps
  <2>10. ASSUME NEW i \in view.connected, NEW h \in ItemHeights, NEW by \in {"itself", "load", "viewport"},
                Resize(i, h, by)
         PROVE  ListInv'
    BY <2>10, ResizeKeeps
  <2>11. CASE UNCHANGED listVars
    <3>1. view' = view /\ inPlace' = inPlace /\ excuse' = excuse
      BY <2>11 DEF listVars
    <3> QED
      BY <3>1 DEF ListInv, StandsWell, ListTyped, AnchorsAgree, AskedOnce
  <2> QED
    BY <2>1, <2>2, <2>3, <2>4, <2>5, <2>6, <2>7, <2>8, <2>9, <2>10, <2>11 DEF ListNext, HostSteps
<1> QED
  BY <1>1, <1>2, PTL DEF ListSpec
-----------------------------------------------------------------------------
(* The properties. *)

\* The list's books agree.
THEOREM ListTypeCorrect == ListSpec => []ListTypeOK
PROOF
<1>1. ListInv => ListTypeOK
  <2> SUFFICES ASSUME ListInv PROVE ListTypeOK
    OBVIOUS
  <2>1. StandsWell(view) /\ ListTyped
    BY DEF ListInv
  <2>2. /\ view.connected \subseteq Items(view) /\ view.connected # {}
        /\ DOMAIN view.spaced = Items(view) \ view.connected /\ DOMAIN view.known \subseteq Items(view)
        /\ view.from \in 1..Supply /\ view.to \in view.from..Supply
        /\ view.scroll \in 0..Furthest(view)
        /\ view.busy \in ListEdges \cup {"none"} /\ view.passes \in 0..2
    BY <2>1, ViewFacts DEF StandsWell, Standing, TellsSizes
  <2>3. ASSUME NEW anchor \in Partial(Int) PROVE DOMAIN anchor \subseteq 1..Supply /\ Range(anchor) \subseteq Int
    <3>1. DOMAIN anchor \subseteq 1..Supply /\ anchor \in [DOMAIN anchor -> Int]
      BY PartialFacts
    <3> QED
      BY <3>1 DEF Range
  <2>4. \A anchor \in {view.pending, view.stable, view.lasting, inPlace} : anchor \in Partial(Int)
    BY <2>1, ViewFacts DEF ListTyped
  <2> QED
    BY <2>1, <2>2, <2>3, <2>4 DEF ListTypeOK, ListTyped
<1> QED
  BY <1>1, ListInvariance, PTL

\* At rest the viewport shows items, the focus has its context, what the user saw first is
\* in its place, and each edge in reach was asked for.
THEOREM ListsAreHeld == ListSpec => []ListsHold
PROOF
<1>1. ListInv => ListsHold
  <2> SUFFICES ASSUME ListInv PROVE ListsHold
    OBVIOUS
  <2>0. StandsWell(view) /\ ListTyped
    BY DEF ListInv
  <2>1. /\ Standing(view) /\ TellsSizes(view) /\ LaidOut(view) /\ view.scroll \in 0..Furthest(view)
        /\ view.connected \subseteq Items(view) /\ Items(view) \in SUBSET Nat
    BY <2>0, ViewFacts
  <2> DEFINE w == Window(view, Sizes(view), view.scroll)
  <2>2. ASSUME Quiet
        PROVE  /\ Shows(view) /\ Blocks(view) = Sizes(view)
               /\ w.first \in Items(view) /\ w.last \in Items(view) /\ view.scroll < w.total
               /\ \A i \in InView(view) : w.first <= i /\ i <= w.last
               /\ view.focus # NoItem => Near(view.focus, 1) \cap Items(view) \subseteq view.connected
    <3>1. ~view.frame /\ ~view.scrolled /\ Unmeasured(view) = {}
      BY <2>2 DEF Quiet
    <3>2. Blocks(view) = Sizes(view)
      BY <2>1, <3>1, MeasuredBlocks DEF Unmeasured
    <3>3. /\ w.first \in Items(view) /\ w.last \in Items(view) /\ view.scroll < w.total
          /\ \A i \in InView(view) : w.first <= i /\ i <= w.last
      BY <2>1, <3>2, WindowShows
    <3> HIDE DEF w
    <3> QED
      BY <2>1, <3>1, <3>2, <3>3 DEF LaidOut
  <2>3. ViewIsRealized
    <3> SUFFICES ASSUME Quiet, NEW i \in InView(view) PROVE i \in view.connected
      BY DEF ViewIsRealized
    <3>1. ((w.first - Overscan)..(w.last + Overscan)) \cap Items(view) \subseteq view.connected
      BY <2>2 DEF Shows
    <3>2. w.first \in Nat /\ w.last \in Nat /\ w.first <= i /\ i <= w.last
      BY <2>1, <2>2
    <3>3. i \in Items(view) /\ i \in Nat /\ Overscan \in Nat
      BY <2>1, ListAssumption DEF InView
    <3> HIDE DEF w
    <3>4. i \in (w.first - Overscan)..(w.last + Overscan)
      BY <3>2, <3>3
    <3> QED
      BY <3>1, <3>3, <3>4
  <2>4. FocusStays
    BY <2>0, <2>2 DEF FocusStays, StandsWell
  <2>5. StaysInPlace
    <3> SUFFICES ASSUME Quiet, DOMAIN inPlace \cap view.connected # {}
                 PROVE  Top(view, Min(DOMAIN inPlace \cap view.connected)) =
                          inPlace[Min(DOMAIN inPlace \cap view.connected)]
      BY DEF StaysInPlace, StillThere
    <3>1. PICK m \in DOMAIN inPlace : m \in view.connected
      OBVIOUS
    <3>2. DOMAIN inPlace = {m} /\ Keeps(view, m, inPlace[m])
      BY DEF ListInv, AnchorsAgree
    <3>3. Min(DOMAIN inPlace \cap view.connected) = m
      <4>1. DOMAIN inPlace \cap view.connected = {m} /\ m \in Nat
        BY <2>1, <3>1, <3>2
      <4>2. Min({m}) \in {m}
        BY <4>1, MinNumber
      <4> QED
        BY <4>1, <4>2
    <3>4. ~view.frame /\ ~view.scrolled /\ view.connected \subseteq DOMAIN view.known
      BY DEF Quiet, Unmeasured
    <3>5. KnownTop(view, m) = inPlace[m]
      BY <3>2, <3>4 DEF Keeps
    <3>6. Top(view, m) = KnownTop(view, m)
      BY <2>2 DEF Top, KnownTop
    <3> QED
      BY <3>3, <3>5, <3>6
  <2>6. EdgesAreAsked
    <3> SUFFICES ASSUME ListRests, NEW e \in ListEdges, InReach(view, w, e), Token(view, e) # <<>>,
                        excuse[e] \notin {"refused", "failed", "returned"}
                 PROVE  FALSE
      BY DEF EdgesAreAsked, Unasked
    <3>1. Quiet /\ view.busy = "none" /\ view.tasks = <<>>
      BY DEF ListRests, Quiet, TasksDone
    <3>2. LoadAnswered(view, view, w, e)
      BY <2>2, <3>1 DEF Shows
    <3>3. view.busy # e
      BY <3>1 DEF ListEdges
    <3>4. view.asked[e] = Token(view, e)
      BY <3>2, <3>3 DEF LoadAnswered
    <3>5. (\E j \in DOMAIN view.tasks : view.tasks[j] = <<e, Token(view, e)>>) \/ excuse[e] # "none"
      BY <3>3, <3>4 DEF ListInv, AskedOnce
    <3>6. excuse[e] = "none"
      BY <2>0 DEF ListTyped
    <3>7. DOMAIN view.tasks = {}
      BY <3>1
    <3> QED
      BY <3>5, <3>6, <3>7
  <2> QED
    BY <2>3, <2>4, <2>5, <2>6 DEF ListsHold
<1> QED
  BY <1>1, ListInvariance, PTL
=============================================================================
