------------------------------ MODULE PageProofs ------------------------------
(***************************************************************************)
(* Proofs about the page, for any ids, looks and number of renders: every  *)
(* patch the reconciler makes of two trees is well formed and names nodes  *)
(* of these trees; what the patches of a node do to a page that has what   *)
(* is below it in the one tree leads to what is below it in the other; and *)
(* so the page shows the nodes of the last tree, and a render is refused   *)
(* or fails half-way only where a node changes its parent or a text tears. *)
(***************************************************************************)
EXTENDS HostPage, ListProofs
-----------------------------------------------------------------------------
(* Sequences. *)

\* What holds of 0 and of each number up to N after the one before, holds of all of them.
LEMMA NumbersUpTo ==
  ASSUME NEW N \in Nat, NEW T, 0 \in T, \A m \in 1..N : m - 1 \in T => m \in T
  PROVE  \A m \in 0..N : m \in T
PROOF
<1> DEFINE Bad == {m \in 0..N : m \notin T}
<1>1. SUFFICES ASSUME Bad # {} PROVE FALSE
  OBVIOUS
<1>2. Bad \in SUBSET Nat
  OBVIOUS
<1> HIDE DEF Bad
<1>3. PICK n \in Bad : \A m \in Bad : n <= m
  BY <1>1, <1>2, LeastNumber
<1>4. n \in 1..N /\ n \notin T
  BY <1>3 DEF Bad
<1>5. n - 1 \in Bad
  BY <1>4 DEF Bad
<1> QED
  BY <1>3, <1>4, <1>5

\* f is what the steps make of v, in V.
Iteration(f, V, v, step, N) ==
  f \in [0..N -> V] /\ f[0] = v /\ \A m \in 1..N : f[m] = step[m][f[m - 1]]

\* The steps can be taken one after the other in V.
LEMMA Iterated ==
  ASSUME NEW V, NEW v \in V, NEW N \in Nat, NEW step,
         \A m \in 1..N : \A x \in V : step[m][x] \in V
  PROVE  \E f : Iteration(f, V, v, step, N)
PROOF
<1>1. PICK f : Stepped(f, step, v, N)
  BY StepsExist
<1> DEFINE T == {m \in 0..N : f[m] \in V}
<1>2. 0 \in T
  BY <1>1 DEF Stepped
<1>3. \A m \in 1..N : m - 1 \in T => m \in T
  BY <1>1 DEF Stepped
<1> HIDE DEF T
<1>4. \A m \in 0..N : m \in T
  BY <1>2, <1>3, NumbersUpTo
<1>5. f \in [0..N -> V]
  BY <1>1, <1>4 DEF T, Stepped
<1> QED
  BY <1>1, <1>5 DEF Stepped, Iteration

\* A set with the empty sequence, that is closed under Append, has all sequences.
LEMMA SequencesBuilt ==
  ASSUME NEW X, NEW T, <<>> \in T,
         \A s \in Seq(X) : \A x \in X : s \in T => Append(s, x) \in T
  PROVE  \A s \in Seq(X) : s \in T
PROOF
<1> SUFFICES ASSUME NEW s \in Seq(X) PROVE s \in T
  OBVIOUS
<1> DEFINE N == Len(s)
           g == [m \in 0..N |-> SubSeq(s, 1, m)]
           U == {m \in 0..N : g[m] \in T}
<1>1. N \in Nat
  OBVIOUS
<1>2. g[0] = <<>> /\ g[N] = s
  BY <1>1
<1>3. ASSUME NEW m \in 1..N
      PROVE  m \in 0..N /\ s[m] \in X /\ g[m - 1] \in Seq(X) /\ g[m] = Append(g[m - 1], s[m])
  <2>1. m \in 0..N /\ m - 1 \in 0..N /\ s[m] \in X
    BY <1>1
  <2>2. SubSeq(s, 1, m - 1) \in Seq(X) /\ SubSeq(s, 1, m) = Append(SubSeq(s, 1, m - 1), s[m])
    OBVIOUS
  <2> QED
    BY <2>1, <2>2
<1> HIDE DEF g
<1>4. 0 \in U
  BY <1>1, <1>2
<1>5. \A m \in 1..N : m - 1 \in U => m \in U
  BY <1>3
<1> HIDE DEF U
<1>6. \A m \in 0..N : m \in U
  BY <1>1, <1>4, <1>5, NumbersUpTo
<1>7. N \in U
  BY <1>1, <1>6
<1> QED
  BY <1>2, <1>7 DEF U

LEMMA SetOfAppend ==
  ASSUME NEW X, NEW s \in Seq(X), NEW x
  PROVE  ToSet(Append(s, x)) = ToSet(s) \cup {x}
PROOF
<1> DEFINE t == Append(s, x)
<1>1. DOMAIN t = 1..(Len(s) + 1) /\ DOMAIN s = 1..Len(s) /\ Len(s) \in Nat
  OBVIOUS
<1>2. t[Len(s) + 1] = x /\ \A i \in 1..Len(s) : t[i] = s[i]
  OBVIOUS
<1> HIDE DEF t
<1> QED
  BY <1>1, <1>2 DEF ToSet

LEMMA SetOfConcat ==
  ASSUME NEW X, NEW s \in Seq(X), NEW t \in Seq(X)
  PROVE  ToSet(s \o t) = ToSet(s) \cup ToSet(t)
PROOF
<1> DEFINE u == s \o t
<1>1. /\ DOMAIN u = 1..(Len(s) + Len(t)) /\ DOMAIN s = 1..Len(s) /\ DOMAIN t = 1..Len(t)
      /\ Len(s) \in Nat /\ Len(t) \in Nat
  OBVIOUS
<1>2. /\ \A i \in 1..Len(s) : u[i] = s[i]
      /\ \A i \in 1..Len(t) : u[Len(s) + i] = t[i]
      /\ \A i \in 1..(Len(s) + Len(t)) : i \in 1..Len(s) \/ (i - Len(s) \in 1..Len(t) /\ u[i] = t[i - Len(s)])
  OBVIOUS
<1>3. \A i \in 1..Len(t) : Len(s) + i \in 1..(Len(s) + Len(t))
  BY <1>1
<1>4. \A i \in 1..Len(s) : i \in 1..(Len(s) + Len(t))
  BY <1>1
<1> HIDE DEF u
<1>5. ASSUME NEW x \in ToSet(u) PROVE x \in ToSet(s) \cup ToSet(t)
  BY <1>1, <1>2 DEF ToSet
<1>6. ASSUME NEW x \in ToSet(s) PROVE x \in ToSet(u)
  BY <1>1, <1>2, <1>4 DEF ToSet
<1>7. ASSUME NEW x \in ToSet(t) PROVE x \in ToSet(u)
  <2>1. PICK i \in 1..Len(t) : x = t[i]
    BY <1>1 DEF ToSet
  <2> QED
    BY <1>1, <1>2, <1>3, <2>1 DEF ToSet
<1> QED
  BY <1>5, <1>6, <1>7 DEF u

LEMMA SetTyped ==
  ASSUME NEW X, NEW s \in Seq(X)
  PROVE  ToSet(s) \subseteq X /\ (ToSet(s) = {} <=> s = <<>>)
PROOF
<1>1. DOMAIN s = 1..Len(s) /\ Len(s) \in Nat /\ \A i \in 1..Len(s) : s[i] \in X
  OBVIOUS
<1>2. CASE s = <<>>
  BY <1>2 DEF ToSet
<1>3. CASE s # <<>>
  <2>1. 1 \in DOMAIN s
    BY <1>3
  <2> QED
    BY <1>1, <1>3, <2>1 DEF ToSet
<1> QED
  BY <1>2, <1>3

LEMMA SeqOverSet ==
  ASSUME NEW X, NEW s \in Seq(X), NEW Y, ToSet(s) \subseteq Y
  PROVE  s \in Seq(Y)
PROOF
<1>1. DOMAIN s = 1..Len(s) /\ Len(s) \in Nat /\ s = [i \in 1..Len(s) |-> s[i]]
  OBVIOUS
<1>2. \A i \in 1..Len(s) : s[i] \in Y
  BY <1>1 DEF ToSet
<1>3. s \in [1..Len(s) -> Y]
  BY <1>1, <1>2
<1> QED
  BY <1>1, <1>3, SeqDef

\* nothing is in s twice
Distinct(s) == \A i, j \in DOMAIN s : s[i] = s[j] => i = j

LEMMA AppendDistinct ==
  ASSUME NEW X, NEW s \in Seq(X), NEW x
  PROVE  Distinct(Append(s, x)) <=> Distinct(s) /\ x \notin ToSet(s)
PROOF
<1> DEFINE t == Append(s, x)
<1>1. DOMAIN t = 1..(Len(s) + 1) /\ DOMAIN s = 1..Len(s) /\ Len(s) \in Nat
  OBVIOUS
<1>2. t[Len(s) + 1] = x /\ \A i \in 1..Len(s) : t[i] = s[i]
  OBVIOUS
<1>3. \A i \in 1..(Len(s) + 1) : i = Len(s) + 1 \/ i \in 1..Len(s)
  BY <1>1
<1>4. (\A i \in 1..Len(s) : i # Len(s) + 1 /\ i \in 1..(Len(s) + 1)) /\ Len(s) + 1 \in 1..(Len(s) + 1)
  BY <1>1
<1> HIDE DEF t
<1> QED
  BY <1>1, <1>2, <1>3, <1>4 DEF ToSet, Distinct
-----------------------------------------------------------------------------
\* f has what Among finds in the first elements of a list.
Finding(f, X, list, S) ==
  /\ f \in [0..Len(list) -> Seq(X)] /\ f[0] = <<>>
  /\ \A i \in 1..Len(list) :
       f[i] = IF list[i] \in S THEN Append(f[i - 1], list[i]) ELSE f[i - 1]
  /\ Among(list, S) = f[Len(list)]

\* Among goes through the list.
LEMMA AmongRun ==
  ASSUME NEW X, NEW list \in Seq(X), NEW S
  PROVE  \E f : Finding(f, X, list, S)
PROOF
<1> DEFINE N == Len(list)
           step == [i \in 1..N |->
                      [x \in Seq(X) |-> IF list[i] \in S THEN Append(x, list[i]) ELSE x]]
           found[i \in 0..N] ==
             IF i = 0 THEN <<>>
             ELSE IF list[i] \in S THEN Append(found[i - 1], list[i]) ELSE found[i - 1]
<1>1. N \in Nat /\ \A i \in 1..N : list[i] \in X
  OBVIOUS
<1>2. Among(list, S) = found[N]
  BY DEF Among
<1>3. \A i \in 1..N : \A x \in Seq(X) :
        /\ step[i][x] \in Seq(X)
        /\ step[i][x] = IF list[i] \in S THEN Append(x, list[i]) ELSE x
  BY <1>1
<1>4. <<>> \in Seq(X)
  OBVIOUS
<1> HIDE DEF N, step
<1>5. PICK f : /\ f \in [0..N -> Seq(X)] /\ f[0] = <<>>
               /\ \A i \in 1..N : f[i] = step[i][f[i - 1]]
  <2>1. \A i \in 1..N : \A x \in Seq(X) : step[i][x] \in Seq(X)
    BY <1>3
  <2>2. \E f : Iteration(f, Seq(X), <<>>, step, N)
    BY <1>1, <1>4, <2>1, Iterated
  <2> QED
    BY <2>2 DEF Iteration
<1>6. \A i \in 1..N : f[i] = IF list[i] \in S THEN Append(f[i - 1], list[i]) ELSE f[i - 1]
  <2> SUFFICES ASSUME NEW i \in 1..N
               PROVE  f[i] = IF list[i] \in S THEN Append(f[i - 1], list[i]) ELSE f[i - 1]
    OBVIOUS
  <2>1. i - 1 \in 0..N
    BY <1>1
  <2> QED
    BY <1>3, <1>5, <2>1
<1>7. f = [i \in 0..N |->
             IF i = 0 THEN <<>>
             ELSE IF list[i] \in S THEN Append(f[i - 1], list[i]) ELSE f[i - 1]]
  <2>1. \A i \in 0..N : i = 0 \/ i \in 1..N
    BY <1>1
  <2> QED
    BY <1>5, <1>6, <2>1
<1>8. found = [i \in 0..N |->
                 IF i = 0 THEN <<>>
                 ELSE IF list[i] \in S THEN Append(found[i - 1], list[i]) ELSE found[i - 1]]
  <2> DEFINE E(g) == [i \in 0..N |->
                 IF i = 0 THEN <<>>
                 ELSE IF list[i] \in S THEN Append(g[i - 1], list[i]) ELSE g[i - 1]]
  <2>1. \E g : g = E(g)
    BY <1>7
  <2> QED
    BY <2>1
<1> HIDE DEF found
<1>9. \A i \in 0..N : found[i] = f[i]
  <2> DEFINE T == {i \in 0..N : found[i] = f[i]}
  <2>1. 0 \in T
    BY <1>1, <1>5, <1>8
  <2>2. ASSUME NEW m \in 1..N, m - 1 \in T PROVE m \in T
    <3>1. m \in 0..N /\ m # 0
      BY <1>1
    <3>2. found[m] = IF list[m] \in S THEN Append(found[m - 1], list[m]) ELSE found[m - 1]
      BY <1>8, <3>1
    <3>3. found[m - 1] = f[m - 1]
      BY <2>2
    <3> QED
      BY <1>6, <3>1, <3>2, <3>3
  <2> HIDE DEF T
  <2>3. \A m \in 0..N : m \in T
    BY <1>1, <2>1, <2>2, NumbersUpTo
  <2> QED
    BY <2>3 DEF T
<1>10. N \in 0..N
  BY <1>1
<1> QED
  BY <1>2, <1>5, <1>6, <1>9, <1>10 DEF N, Finding

\* What Among makes of a list and one more element.
LEMMA AmongBuilt ==
  ASSUME NEW X, NEW s \in Seq(X), NEW x \in X, NEW S
  PROVE  /\ Among(<<>>, S) = <<>>
         /\ Among(s, S) \in Seq(X)
         /\ Among(Append(s, x), S) = IF x \in S THEN Append(Among(s, S), x) ELSE Among(s, S)
PROOF
<1> DEFINE t == Append(s, x)
           N == Len(s)
<1>1. Among(<<>>, S) = <<>>
  <2>1. <<>> \in Seq(X) /\ Len(<<>>) = 0
    OBVIOUS
  <2>2. PICK f : Finding(f, X, <<>>, S)
    BY <2>1, AmongRun
  <2> QED
    BY <2>1, <2>2 DEF Finding
<1>2. t \in Seq(X) /\ Len(t) = N + 1 /\ t[N + 1] = x /\ N \in Nat /\ \A i \in 1..N : t[i] = s[i]
  OBVIOUS
<1>3. PICK f :
        /\ f \in [0..N -> Seq(X)] /\ f[0] = <<>>
        /\ \A i \in 1..N : f[i] = IF s[i] \in S THEN Append(f[i - 1], s[i]) ELSE f[i - 1]
        /\ Among(s, S) = f[N]
  <2>1. \E f : Finding(f, X, s, S)
    BY AmongRun
  <2> QED
    BY <2>1 DEF Finding
<1> HIDE DEF t, N
<1>4. PICK g :
        /\ g \in [0..(N + 1) -> Seq(X)] /\ g[0] = <<>>
        /\ \A i \in 1..(N + 1) : g[i] = IF t[i] \in S THEN Append(g[i - 1], t[i]) ELSE g[i - 1]
        /\ Among(t, S) = g[N + 1]
  <2>1. \E g : Finding(g, X, t, S)
    BY <1>2, AmongRun
  <2> QED
    BY <1>2, <2>1 DEF Finding
<1>5. \A i \in 0..N : f[i] = g[i]
  <2> DEFINE T == {i \in 0..N : f[i] = g[i]}
  <2>1. 0 \in T
    BY <1>2, <1>3, <1>4
  <2>2. ASSUME NEW m \in 1..N, m - 1 \in T PROVE m \in T
    <3>1. m \in 0..N /\ m \in 1..(N + 1) /\ f[m - 1] = g[m - 1] /\ t[m] = s[m]
      BY <1>2, <2>2
    <3>2. f[m] = IF s[m] \in S THEN Append(f[m - 1], s[m]) ELSE f[m - 1]
      BY <1>3
    <3>3. g[m] = IF t[m] \in S THEN Append(g[m - 1], t[m]) ELSE g[m - 1]
      BY <1>4, <3>1
    <3> QED
      BY <3>1, <3>2, <3>3
  <2> HIDE DEF T
  <2>3. \A m \in 0..N : m \in T
    BY <1>2, <2>1, <2>2, NumbersUpTo
  <2> QED
    BY <2>3 DEF T
<1>6. g[N + 1] = IF x \in S THEN Append(g[N], x) ELSE g[N]
  BY <1>2, <1>4
<1>7. f[N] = g[N] /\ f[N] \in Seq(X)
  BY <1>2, <1>3, <1>5
<1> QED
  BY <1>1, <1>3, <1>4, <1>6, <1>7 DEF t, N

\* Among gives what of the list is in S.
LEMMA AmongFacts ==
  ASSUME NEW X, NEW s \in Seq(X), NEW S
  PROVE  /\ Among(s, S) \in Seq(X)
         /\ ToSet(Among(s, S)) = ToSet(s) \cap S
         /\ Distinct(s) => Distinct(Among(s, S))
PROOF
<1> DEFINE T == {r \in Seq(X) : /\ Among(r, S) \in Seq(X)
                                /\ ToSet(Among(r, S)) = ToSet(r) \cap S
                                /\ Distinct(r) => Distinct(Among(r, S))}
<1>1. <<>> \in T
  <2>1. Among(<<>>, S) = <<>> \/ X = {}
    BY AmongBuilt
  <2>2. X = {} => Seq(X) = {<<>>}
    OBVIOUS
  <2>3. ToSet(<<>>) = {} /\ <<>> \in Seq(X)
    BY DEF ToSet
  <2>4. Among(<<>>, S) = <<>>
    <3>1. <<>> \in Seq({{}}) /\ {} \in {{}}
      OBVIOUS
    <3> QED
      BY <3>1, AmongBuilt
  <2> QED
    BY <2>3, <2>4
<1>2. ASSUME NEW r \in Seq(X), NEW x \in X, r \in T PROVE Append(r, x) \in T
  <2>1. Append(r, x) \in Seq(X)
    OBVIOUS
  <2>2. /\ Among(r, S) \in Seq(X) /\ ToSet(Among(r, S)) = ToSet(r) \cap S
        /\ Distinct(r) => Distinct(Among(r, S))
    BY <1>2
  <2>3. Among(Append(r, x), S) = IF x \in S THEN Append(Among(r, S), x) ELSE Among(r, S)
    BY AmongBuilt
  <2>4. Among(Append(r, x), S) \in Seq(X)
    BY <2>2, <2>3
  <2>5. ToSet(Append(r, x)) = ToSet(r) \cup {x} /\ ToSet(Append(Among(r, S), x)) = ToSet(Among(r, S)) \cup {x}
    BY <2>2, SetOfAppend
  <2>6. ToSet(Among(Append(r, x), S)) = ToSet(Append(r, x)) \cap S
    BY <2>2, <2>3, <2>5
  <2>7. /\ Distinct(Append(r, x)) <=> Distinct(r) /\ x \notin ToSet(r)
        /\ Distinct(Append(Among(r, S), x)) <=> Distinct(Among(r, S)) /\ x \notin ToSet(Among(r, S))
    BY <2>2, AppendDistinct
  <2>8. Distinct(Append(r, x)) => Distinct(Among(Append(r, x), S))
    BY <2>2, <2>3, <2>7
  <2> HIDE DEF Distinct
  <2> QED
    BY <2>1, <2>4, <2>6, <2>8
<1> HIDE DEF T
<1>3. s \in T
  BY <1>1, <1>2, SequencesBuilt
<1> QED
  BY <1>3 DEF T

\* Only what S has of the list matters, and a choice of a choice is one.
AmongLaws(s, S, R) ==
  /\ ToSet(s) \cap S = ToSet(s) \cap R => Among(s, S) = Among(s, R)
  /\ Among(Among(s, S), R) = Among(s, S \cap R)
  /\ ToSet(s) \subseteq S => Among(s, S) = s
  /\ ToSet(s) \cap S = {} => Among(s, S) = <<>>

LEMMA AmongSame ==
  ASSUME NEW X, NEW s \in Seq(X), NEW S, NEW R
  PROVE  AmongLaws(s, S, R)
PROOF
<1> DEFINE T == {r \in Seq(X) : /\ ToSet(r) \cap S = ToSet(r) \cap R => Among(r, S) = Among(r, R)
                                /\ Among(Among(r, S), R) = Among(r, S \cap R)
                                /\ ToSet(r) \subseteq S => Among(r, S) = r
                                /\ ToSet(r) \cap S = {} => Among(r, S) = <<>>}
<1>1. <<>> \in T
  <2>1. \A Q : Among(<<>>, Q) = <<>>
    <3>1. <<>> \in Seq({{}}) /\ {} \in {{}}
      OBVIOUS
    <3> QED
      BY <3>1, AmongBuilt
  <2> QED
    BY <2>1
<1>2. ASSUME NEW r \in Seq(X), NEW x \in X, r \in T PROVE Append(r, x) \in T
  <2> DEFINE t == Append(r, x)
             a == Among(r, S)
  <2>1. t \in Seq(X) /\ ToSet(t) = ToSet(r) \cup {x}
    BY SetOfAppend
  <2>2. /\ ToSet(r) \cap S = ToSet(r) \cap R => Among(r, S) = Among(r, R)
        /\ Among(a, R) = Among(r, S \cap R)
        /\ ToSet(r) \subseteq S => Among(r, S) = r
        /\ ToSet(r) \cap S = {} => Among(r, S) = <<>>
    BY <1>2
  <2>3. \A Q : Among(t, Q) = IF x \in Q THEN Append(Among(r, Q), x) ELSE Among(r, Q)
    BY AmongBuilt
  <2>4. a \in Seq(X)
    BY AmongFacts
  <2> HIDE DEF a
  <2>5. Among(Append(a, x), R) = IF x \in R THEN Append(Among(a, R), x) ELSE Among(a, R)
    BY <2>4, AmongBuilt
  <2> HIDE DEF t
  <2> USE DEF a
  <2>6. ToSet(t) \cap S = ToSet(t) \cap R => Among(t, S) = Among(t, R)
    <3> SUFFICES ASSUME ToSet(t) \cap S = ToSet(t) \cap R PROVE Among(t, S) = Among(t, R)
      OBVIOUS
    <3>1. ToSet(r) \cap S = ToSet(r) \cap R /\ (x \in S <=> x \in R)
      BY <2>1
    <3> QED
      BY <2>2, <2>3, <3>1
  <2>7. Among(Among(t, S), R) = Among(t, S \cap R)
    <3>1. CASE x \in S
      <4>1. Among(t, S) = Append(a, x)
        BY <2>3, <3>1
      <4> QED
        BY <2>2, <2>3, <2>5, <3>1, <4>1
    <3>2. CASE x \notin S
      <4>1. Among(t, S) = a
        BY <2>3, <3>2
      <4> QED
        BY <2>2, <2>3, <3>2, <4>1
    <3> QED
      BY <3>1, <3>2
  <2>8. ToSet(t) \subseteq S => Among(t, S) = t
    BY <2>1, <2>2, <2>3 DEF t
  <2>9. ToSet(t) \cap S = {} => Among(t, S) = <<>>
    <3> SUFFICES ASSUME ToSet(t) \cap S = {} PROVE Among(t, S) = <<>>
      OBVIOUS
    <3>1. ToSet(r) \cap S = {} /\ x \notin S
      BY <2>1
    <3> QED
      BY <2>2, <2>3, <3>1
  <2> QED
    BY <2>1, <2>6, <2>7, <2>8, <2>9 DEF t
<1> HIDE DEF T
<1>3. s \in T
  BY <1>1, <1>2, SequencesBuilt
<1> QED
  BY <1>3 DEF T, AmongLaws

LEMMA AmongAgrees ==
  ASSUME NEW X, NEW s \in Seq(X), NEW S, NEW R, ToSet(s) \cap S = ToSet(s) \cap R
  PROVE  Among(s, S) = Among(s, R)
PROOF
<1>1. AmongLaws(s, S, R)
  BY AmongSame
<1>2. ToSet(s) \cap S = ToSet(s) \cap R => Among(s, S) = Among(s, R)
  BY <1>1, Zenon DEF AmongLaws
<1> QED
  BY <1>2, Zenon

LEMMA AmongAll ==
  ASSUME NEW X, NEW s \in Seq(X), NEW S, ToSet(s) \subseteq S
  PROVE  Among(s, S) = s
BY AmongSame DEF AmongLaws
-----------------------------------------------------------------------------
\* f has what the first elements of a list emit.
Emitting(f, V, list, of) ==
  /\ f \in [0..Len(list) -> Seq(V)] /\ f[0] = <<>>
  /\ \A i \in 1..Len(list) : f[i] = f[i - 1] \o of[list[i]]
  /\ EmittedBy(list, of) = f[Len(list)]

\* EmittedBy goes through the list.
LEMMA EmittingRun ==
  ASSUME NEW X, NEW list \in Seq(X), NEW V, NEW of, \A x \in ToSet(list) : of[x] \in Seq(V)
  PROVE  \E f : Emitting(f, V, list, of)
PROOF
<1> DEFINE N == Len(list)
           step == [i \in 1..N |-> [x \in Seq(V) |-> x \o of[list[i]]]]
           emitted[i \in 0..N] == IF i = 0 THEN <<>> ELSE emitted[i - 1] \o of[list[i]]
<1>1. N \in Nat /\ \A i \in 1..N : of[list[i]] \in Seq(V)
  BY DEF ToSet
<1>2. EmittedBy(list, of) = emitted[N]
  BY DEF EmittedBy
<1>3. \A i \in 1..N : \A x \in Seq(V) : step[i][x] \in Seq(V) /\ step[i][x] = x \o of[list[i]]
  BY <1>1
<1>4. <<>> \in Seq(V)
  OBVIOUS
<1> HIDE DEF N, step
<1>5. PICK f : /\ f \in [0..N -> Seq(V)] /\ f[0] = <<>>
               /\ \A i \in 1..N : f[i] = step[i][f[i - 1]]
  <2>1. \A i \in 1..N : \A x \in Seq(V) : step[i][x] \in Seq(V)
    BY <1>3
  <2>2. \E f : Iteration(f, Seq(V), <<>>, step, N)
    BY <1>1, <1>4, <2>1, Iterated
  <2> QED
    BY <2>2 DEF Iteration
<1>6. \A i \in 1..N : f[i] = f[i - 1] \o of[list[i]]
  <2> SUFFICES ASSUME NEW i \in 1..N PROVE f[i] = f[i - 1] \o of[list[i]]
    OBVIOUS
  <2>1. i - 1 \in 0..N
    BY <1>1
  <2> QED
    BY <1>3, <1>5, <2>1
<1>7. f = [i \in 0..N |-> IF i = 0 THEN <<>> ELSE f[i - 1] \o of[list[i]]]
  <2>1. \A i \in 0..N : i = 0 \/ i \in 1..N
    BY <1>1
  <2> QED
    BY <1>5, <1>6, <2>1
<1>8. emitted = [i \in 0..N |-> IF i = 0 THEN <<>> ELSE emitted[i - 1] \o of[list[i]]]
  <2> DEFINE E(g) == [i \in 0..N |-> IF i = 0 THEN <<>> ELSE g[i - 1] \o of[list[i]]]
  <2>1. \E g : g = E(g)
    BY <1>7
  <2> QED
    BY <2>1
<1> HIDE DEF emitted
<1>9. \A i \in 0..N : emitted[i] = f[i]
  <2> DEFINE T == {i \in 0..N : emitted[i] = f[i]}
  <2>1. 0 \in T
    BY <1>1, <1>5, <1>8
  <2>2. ASSUME NEW m \in 1..N, m - 1 \in T PROVE m \in T
    <3>1. m \in 0..N /\ m # 0
      BY <1>1
    <3>2. emitted[m] = emitted[m - 1] \o of[list[m]]
      BY <1>8, <3>1
    <3>3. emitted[m - 1] = f[m - 1]
      BY <2>2
    <3> QED
      BY <1>6, <3>1, <3>2, <3>3
  <2> HIDE DEF T
  <2>3. \A m \in 0..N : m \in T
    BY <1>1, <2>1, <2>2, NumbersUpTo
  <2> QED
    BY <2>3 DEF T
<1>10. N \in 0..N
  BY <1>1
<1> QED
  BY <1>2, <1>5, <1>6, <1>9, <1>10 DEF N, Emitting

\* What a list and one more element emit.
LEMMA EmittedBuilt ==
  ASSUME NEW X, NEW s \in Seq(X), NEW x \in X, NEW V, NEW of,
         \A k \in ToSet(s) \cup {x} : of[k] \in Seq(V)
  PROVE  /\ EmittedBy(<<>>, of) = <<>>
         /\ EmittedBy(s, of) \in Seq(V)
         /\ EmittedBy(Append(s, x), of) = EmittedBy(s, of) \o of[x]
PROOF
<1> DEFINE t == Append(s, x)
           N == Len(s)
<1>1. EmittedBy(<<>>, of) = <<>>
  <2>1. <<>> \in Seq(X) /\ Len(<<>>) = 0 /\ ToSet(<<>>) = {}
    BY DEF ToSet
  <2>2. PICK f : Emitting(f, V, <<>>, of)
    BY <2>1, EmittingRun
  <2> QED
    BY <2>1, <2>2 DEF Emitting
<1>2. t \in Seq(X) /\ Len(t) = N + 1 /\ t[N + 1] = x /\ N \in Nat /\ \A i \in 1..N : t[i] = s[i]
  OBVIOUS
<1>3. PICK f :
        /\ f \in [0..N -> Seq(V)] /\ f[0] = <<>>
        /\ \A i \in 1..N : f[i] = f[i - 1] \o of[s[i]]
        /\ EmittedBy(s, of) = f[N]
  <2>1. \E f : Emitting(f, V, s, of)
    BY EmittingRun
  <2> QED
    BY <2>1 DEF Emitting
<1>a. ToSet(t) = ToSet(s) \cup {x}
  BY SetOfAppend
<1> HIDE DEF t, N
<1>4. PICK g :
        /\ g \in [0..(N + 1) -> Seq(V)] /\ g[0] = <<>>
        /\ \A i \in 1..(N + 1) : g[i] = g[i - 1] \o of[t[i]]
        /\ EmittedBy(t, of) = g[N + 1]
  <2>1. \E g : Emitting(g, V, t, of)
    BY <1>2, <1>a, EmittingRun
  <2> QED
    BY <1>2, <2>1 DEF Emitting
<1>5. \A i \in 0..N : f[i] = g[i]
  <2> DEFINE T == {i \in 0..N : f[i] = g[i]}
  <2>1. 0 \in T
    BY <1>2, <1>3, <1>4
  <2>2. ASSUME NEW m \in 1..N, m - 1 \in T PROVE m \in T
    <3>1. m \in 0..N /\ m \in 1..(N + 1) /\ f[m - 1] = g[m - 1] /\ t[m] = s[m]
      BY <1>2, <2>2
    <3>2. f[m] = f[m - 1] \o of[s[m]] /\ g[m] = g[m - 1] \o of[t[m]]
      BY <1>3, <1>4, <3>1
    <3> QED
      BY <3>1, <3>2
  <2> HIDE DEF T
  <2>3. \A m \in 0..N : m \in T
    BY <1>2, <2>1, <2>2, NumbersUpTo
  <2> QED
    BY <2>3 DEF T
<1>6. N + 1 \in 1..(N + 1) /\ (N + 1) - 1 = N /\ N \in 0..N
  BY <1>2
<1>7. g[N + 1] = g[N] \o of[x]
  BY <1>2, <1>4, <1>6
<1>8. f[N] = g[N] /\ f[N] \in Seq(V)
  BY <1>3, <1>5, <1>6
<1> QED
  BY <1>1, <1>3, <1>4, <1>7, <1>8 DEF t, N

\* f has the pages and whether the batch is whole so far, patch by patch.
Batching(f, V, nodes, patches, textsClear) ==
  /\ f \in [0..Len(patches) -> V] /\ f[0] = [page |-> nodes, whole |-> TRUE]
  /\ \A i \in 1..Len(patches) : f[i] = Then(f[i - 1], patches[i], textsClear)
  /\ After(nodes, patches, textsClear) = f[Len(patches)]

\* A batch goes through its patches.
LEMMA BatchingRun ==
  ASSUME NEW V, NEW Q, NEW patches \in Seq(Q), NEW nodes, NEW textsClear,
         [page |-> nodes, whole |-> TRUE] \in V,
         \A x \in V : \A p \in Q : Then(x, p, textsClear) \in V
  PROVE  \E f : Batching(f, V, nodes, patches, textsClear)
PROOF
<1> DEFINE N == Len(patches)
           v == [page |-> nodes, whole |-> TRUE]
           step == [i \in 1..N |-> [x \in V |-> Then(x, patches[i], textsClear)]]
           after[i \in 0..N] ==
             IF i = 0 THEN v ELSE Then(after[i - 1], patches[i], textsClear)
<1>1. N \in Nat /\ \A i \in 1..N : patches[i] \in Q
  OBVIOUS
<1>2. After(nodes, patches, textsClear) = after[N]
  BY DEF After
<1>3. \A i \in 1..N : \A x \in V :
        step[i][x] \in V /\ step[i][x] = Then(x, patches[i], textsClear)
  BY <1>1
<1>4. v \in V
  OBVIOUS
<1> HIDE DEF N, step, v
<1>5. PICK f : /\ f \in [0..N -> V] /\ f[0] = v
               /\ \A i \in 1..N : f[i] = step[i][f[i - 1]]
  <2>1. \A i \in 1..N : \A x \in V : step[i][x] \in V
    BY <1>3
  <2>2. \E f : Iteration(f, V, v, step, N)
    BY <1>1, <1>4, <2>1, Iterated
  <2> QED
    BY <2>2 DEF Iteration
<1>6. \A i \in 1..N : f[i] = Then(f[i - 1], patches[i], textsClear)
  <2> SUFFICES ASSUME NEW i \in 1..N PROVE f[i] = Then(f[i - 1], patches[i], textsClear)
    OBVIOUS
  <2>1. i - 1 \in 0..N
    BY <1>1
  <2> QED
    BY <1>3, <1>5, <2>1
<1>7. f = [i \in 0..N |-> IF i = 0 THEN v ELSE Then(f[i - 1], patches[i], textsClear)]
  <2>1. \A i \in 0..N : i = 0 \/ i \in 1..N
    BY <1>1
  <2> QED
    BY <1>5, <1>6, <2>1
<1>8. after = [i \in 0..N |-> IF i = 0 THEN v ELSE Then(after[i - 1], patches[i], textsClear)]
  <2> DEFINE E(g) == [i \in 0..N |-> IF i = 0 THEN v ELSE Then(g[i - 1], patches[i], textsClear)]
  <2>1. \E g : g = E(g)
    BY <1>7
  <2> QED
    BY <2>1
<1> HIDE DEF after
<1>9. \A i \in 0..N : after[i] = f[i]
  <2> DEFINE T == {i \in 0..N : after[i] = f[i]}
  <2>1. 0 \in T
    BY <1>1, <1>5, <1>8
  <2>2. ASSUME NEW m \in 1..N, m - 1 \in T PROVE m \in T
    <3>1. m \in 0..N /\ m # 0
      BY <1>1
    <3>2. after[m] = Then(after[m - 1], patches[m], textsClear)
      BY <1>8, <3>1
    <3>3. after[m - 1] = f[m - 1]
      BY <2>2
    <3> QED
      BY <1>6, <3>1, <3>2, <3>3
  <2> HIDE DEF T
  <2>3. \A m \in 0..N : m \in T
    BY <1>1, <2>1, <2>2, NumbersUpTo
  <2> QED
    BY <2>3 DEF T
<1>10. N \in 0..N
  BY <1>1
<1> QED
  BY <1>2, <1>5, <1>6, <1>9, <1>10 DEF N, v, Batching
-----------------------------------------------------------------------------
LEMMA IndexFacts ==
  ASSUME NEW X, NEW s \in Seq(X), Distinct(s), NEW i \in DOMAIN s
  PROVE  IndexOf(s, s[i]) = i
PROOF
<1>1. PICK j \in DOMAIN s : s[j] = s[i] /\ IndexOf(s, s[i]) = j
  BY DEF IndexOf
<1> QED
  BY <1>1 DEF Distinct

\* To cut an element is to choose the others.
LEMMA CutIsAmong ==
  ASSUME NEW X, NEW s \in Seq(X), Distinct(s), NEW x
  PROVE  Cut(s, x) = Among(s, ToSet(s) \ {x})
PROOF
<1> DEFINE T == {r \in Seq(X) : Distinct(r) => Cut(r, x) = Among(r, ToSet(r) \ {x})}
<1>1. <<>> \in T
  <2>1. \A S : Among(<<>>, S) = <<>>
    <3>1. <<>> \in Seq({{}}) /\ {} \in {{}}
      OBVIOUS
    <3> QED
      BY <3>1, AmongBuilt
  <2>2. ToSet(<<>>) = {}
    BY DEF ToSet
  <2>3. Cut(<<>>, x) = <<>>
    BY <2>2 DEF Cut
  <2> QED
    BY <2>1, <2>3
<1>2. ASSUME NEW r \in Seq(X), NEW y \in X, r \in T PROVE Append(r, y) \in T
  <2> DEFINE t == Append(r, y)
             n == Len(r)
  <2>1. t \in Seq(X) /\ ToSet(t) = ToSet(r) \cup {y} /\ DOMAIN t = 1..(n + 1) /\ DOMAIN r = 1..n /\ n \in Nat
    BY SetOfAppend
  <2>2. SUFFICES ASSUME Distinct(t) PROVE Cut(t, x) = Among(t, ToSet(t) \ {x})
    BY <2>1
  <2>3. Distinct(r) /\ y \notin ToSet(r)
    BY <2>2, AppendDistinct
  <2>4. Cut(r, x) = Among(r, ToSet(r) \ {x})
    BY <1>2, <2>3
  <2>5. Among(t, ToSet(t) \ {x}) = IF y \in ToSet(t) \ {x} THEN Append(Among(r, ToSet(t) \ {x}), y)
                                   ELSE Among(r, ToSet(t) \ {x})
    <3> DEFINE S == ToSet(t) \ {x}
    <3> HIDE DEF S
    <3>1. Among(t, S) = IF y \in S THEN Append(Among(r, S), y) ELSE Among(r, S)
      BY AmongBuilt
    <3> QED
      BY <3>1 DEF S
  <2>6. t[n + 1] = y /\ \A i \in 1..n : t[i] = r[i]
    OBVIOUS
  <2>7. CASE x = y
    <3>1. IndexOf(t, x) = n + 1
      <4>1. n + 1 \in DOMAIN t /\ t[n + 1] = x
        BY <2>1, <2>6, <2>7
      <4> HIDE DEF t, n
      <4> QED
        BY <2>1, <2>2, <4>1, IndexFacts
    <3>2. Cut(t, x) = RemoveAt(t, n + 1)
      BY <2>1, <2>7, <3>1 DEF Cut
    <3>3. RemoveAt(t, n + 1) = r
      <4>1. SubSeq(t, 1, n) = r /\ SubSeq(t, n + 2, n + 1) = <<>>
        OBVIOUS
      <4>2. RemoveAt(t, n + 1) = SubSeq(t, 1, n) \o SubSeq(t, n + 2, n + 1)
        BY DEF RemoveAt
      <4> HIDE DEF t, n
      <4>3. r \o <<>> = r
        BY ConcatEmptySeq
      <4> QED
        BY <4>1, <4>2, <4>3
    <3>4. Among(r, ToSet(t) \ {x}) = r
      <4>1. ToSet(r) \subseteq ToSet(t) \ {x}
        BY <2>1, <2>3, <2>7
      <4> QED
        BY <4>1, AmongAll
    <3> QED
      BY <2>5, <2>7, <3>2, <3>3, <3>4
  <2>8. CASE x # y /\ x \in ToSet(r)
    <3>1. PICK i \in 1..n : r[i] = x
      BY <2>1, <2>8 DEF ToSet
    <3>2. IndexOf(r, x) = i
      BY <2>1, <2>3, <3>1, IndexFacts
    <3>3. IndexOf(t, x) = i
      <4>1. i \in DOMAIN t /\ t[i] = x
        BY <2>1, <2>6, <3>1
      <4> HIDE DEF t, n
      <4> QED
        BY <2>1, <2>2, <4>1, IndexFacts
    <3>4. Cut(r, x) = RemoveAt(r, i) /\ Cut(t, x) = RemoveAt(t, i)
      BY <2>1, <2>8, <3>2, <3>3 DEF Cut
    <3>5. RemoveAt(t, i) = Append(RemoveAt(r, i), y)
      <4>1. /\ SubSeq(t, 1, i - 1) = SubSeq(r, 1, i - 1)
            /\ SubSeq(t, i + 1, n + 1) = Append(SubSeq(r, i + 1, n), y)
            /\ SubSeq(r, 1, i - 1) \in Seq(X) /\ SubSeq(r, i + 1, n) \in Seq(X)
        <5>1. /\ SubSeq(t, 1, i - 1) = SubSeq(r, 1, i - 1)
              /\ SubSeq(r, 1, i - 1) \in Seq(X) /\ SubSeq(r, i + 1, n) \in Seq(X)
          OBVIOUS
        <5>2. SubSeq(t, i + 1, n + 1) = Append(SubSeq(r, i + 1, n), y)
          <6> DEFINE u == SubSeq(t, i + 1, n + 1)
                     b == SubSeq(r, i + 1, n)
                     c == Append(b, y)
          <6>1. u \in Seq(X) /\ Len(u) = n + 1 - i /\ \A j \in 1..(n + 1 - i) : u[j] = t[i + j]
            BY <2>1
          <6>2. b \in Seq(X) /\ Len(b) = n - i /\ \A j \in 1..(n - i) : b[j] = r[i + j]
            <7>1. i \in 1..Len(r) /\ Len(r) \in Nat
              BY <2>1
            <7>2. \A j \in (i + 1)..Len(r) : j \in 1..Len(r)
              BY <7>1
            <7>3. /\ SubSeq(r, i + 1, Len(r)) \in Seq(X)
                  /\ Len(SubSeq(r, i + 1, Len(r))) = IF i + 1 <= Len(r) THEN Len(r) - (i + 1) + 1 ELSE 0
                  /\ \A j \in 1..(Len(r) - (i + 1) + 1) : SubSeq(r, i + 1, Len(r))[j] = r[(i + 1) + j - 1]
              BY <7>1, <7>2, SubSeqProperties
            <7>4. Len(r) - (i + 1) + 1 = Len(r) - i /\ (i + 1 <= Len(r) \/ i = Len(r))
              BY <7>1
            <7>5. \A j \in 1..(Len(r) - i) : (i + 1) + j - 1 = i + j
              BY <7>1
            <7>6. Len(b) = n - i /\ b \in Seq(X)
              <8>1. CASE i + 1 <= Len(r)
                BY <7>1, <7>3, <7>4, <8>1
              <8>2. CASE ~(i + 1 <= Len(r))
                <9>1. Len(SubSeq(r, i + 1, Len(r))) = 0
                  BY <7>3, <8>2
                <9>2. i = Len(r) /\ Len(r) - i = 0
                  BY <7>1, <8>2
                <9> QED
                  BY <7>3, <9>1, <9>2
              <8> QED
                BY <8>1, <8>2
            <7>7. ASSUME NEW j \in 1..(n - i) PROVE b[j] = r[i + j]
              <8>1. j \in 1..(Len(r) - (i + 1) + 1) /\ (i + 1) + j - 1 = i + j
                BY <7>1
              <8>2. SubSeq(r, i + 1, Len(r))[j] = r[(i + 1) + j - 1]
                BY <7>3, <8>1
              <8> QED
                BY <8>1, <8>2
            <7> QED
              BY <7>6, <7>7
          <6> HIDE DEF b, u
          <6>3. /\ c \in Seq(X) /\ Len(c) = n + 1 - i /\ c[n + 1 - i] = y
                /\ \A j \in 1..(n - i) : c[j] = b[j]
            <7>1. /\ c \in Seq(X) /\ Len(c) = Len(b) + 1 /\ c[Len(b) + 1] = y
                  /\ \A j \in 1..Len(b) : c[j] = b[j]
              BY <6>2, AppendProperties
            <7>2. (n - i) + 1 = n + 1 - i
              BY <2>1
            <7> QED
              BY <6>2, <7>1, <7>2
          <6> HIDE DEF c, t, n
          <6>4. ASSUME NEW j \in 1..(n + 1 - i) PROVE u[j] = c[j]
            <7>1. CASE j = n + 1 - i
              <8>1. i + j = n + 1
                BY <2>1, <7>1
              <8> QED
                BY <2>6, <6>1, <6>3, <7>1, <8>1
            <7>2. CASE j # n + 1 - i
              <8>1. j \in 1..(n - i) /\ i + j \in 1..n
                BY <2>1, <7>2
              <8> QED
                BY <2>6, <6>1, <6>2, <6>3, <8>1
            <7> QED
              BY <7>1, <7>2
          <6>5. u = c
            BY <6>1, <6>3, <6>4, SeqEqual
          <6> QED
            BY <6>5 DEF u, b, c
        <5> QED
          BY <5>1, <5>2
      <4>2. /\ RemoveAt(t, i) = SubSeq(t, 1, i - 1) \o SubSeq(t, i + 1, n + 1)
            /\ RemoveAt(r, i) = SubSeq(r, 1, i - 1) \o SubSeq(r, i + 1, n)
        BY DEF RemoveAt
      <4>3. \A a \in Seq(X), b \in Seq(X) : a \o Append(b, y) = Append(a \o b, y)
        OBVIOUS
      <4> QED
        BY <4>1, <4>2, <4>3
    <3>6. Among(r, ToSet(t) \ {x}) = Among(r, ToSet(r) \ {x})
      <4> DEFINE S == ToSet(t) \ {x}
                 R == ToSet(r) \ {x}
      <4>1. ToSet(r) \cap S = ToSet(r) \cap R
        BY <2>1
      <4> HIDE DEF S, R
      <4>2. Among(r, S) = Among(r, R)
        BY <4>1, AmongAgrees
      <4> QED
        BY <4>2 DEF S, R
    <3> QED
      BY <2>1, <2>4, <2>5, <2>8, <3>4, <3>5, <3>6
  <2>9. CASE x # y /\ x \notin ToSet(r)
    <3>1. x \notin ToSet(t) /\ ToSet(t) \subseteq ToSet(t) \ {x}
      BY <2>1, <2>9
    <3>2. Cut(t, x) = t
      BY <3>1 DEF Cut
    <3> QED
      BY <2>1, <3>1, <3>2, AmongAll
  <2> QED
    BY <2>7, <2>8, <2>9
<1> HIDE DEF T
<1>3. s \in T
  BY <1>1, <1>2, SequencesBuilt
<1> QED
  BY <1>3 DEF T

\* What is left when an element was cut.
LEMMA CutFacts ==
  ASSUME NEW X, NEW s \in Seq(X), Distinct(s), NEW x
  PROVE  /\ Cut(s, x) \in Seq(X) /\ Distinct(Cut(s, x)) /\ ToSet(Cut(s, x)) = ToSet(s) \ {x}
         /\ x \notin ToSet(s) => Cut(s, x) = s
PROOF
<1>1. Cut(s, x) = Among(s, ToSet(s) \ {x})
  BY CutIsAmong
<1>2. ToSet(s) \cap (ToSet(s) \ {x}) = ToSet(s) \ {x}
  OBVIOUS
<1> QED
  BY <1>1, <1>2, AmongFacts DEF Cut

LEMMA Inserted ==
  ASSUME NEW X, NEW r \in Seq(X), NEW i \in 1..(Len(r) + 1), NEW id \in X
  PROVE  /\ InsertAt(r, i, id) \in Seq(X) /\ Len(InsertAt(r, i, id)) = Len(r) + 1
         /\ \A j \in 1..(i - 1) : InsertAt(r, i, id)[j] = r[j]
         /\ InsertAt(r, i, id)[i] = id
         /\ \A j \in i..Len(r) : InsertAt(r, i, id)[j + 1] = r[j]
PROOF
<1> DEFINE a == SubSeq(r, 1, i - 1)
           b == SubSeq(r, i, Len(r))
<1>1. /\ a \in Seq(X) /\ Len(a) = i - 1 /\ \A j \in 1..(i - 1) : a[j] = r[j]
  OBVIOUS
<1>2. /\ b \in Seq(X) /\ Len(b) = Len(r) - i + 1 /\ \A j \in 1..(Len(r) - i + 1) : b[j] = r[i + j - 1]
  OBVIOUS
<1>3. InsertAt(r, i, id) = a \o <<id>> \o b
  BY DEF InsertAt
<1>4. Len(r) \in Nat /\ i \in Nat
  OBVIOUS
<1> HIDE DEF a, b
<1>5. a \o <<id>> \in Seq(X) /\ Len(a \o <<id>>) = i /\ (a \o <<id>>)[i] = id
      /\ \A j \in 1..(i - 1) : (a \o <<id>>)[j] = a[j]
  BY <1>1, <1>4
<1> DEFINE c == a \o <<id>>
<1> HIDE DEF c
<1>6. c \in Seq(X) /\ Len(c) = i /\ c[i] = id /\ \A j \in 1..(i - 1) : c[j] = r[j]
  BY <1>1, <1>5 DEF c
<1>7. /\ c \o b \in Seq(X) /\ Len(c \o b) = Len(r) + 1
      /\ \A j \in 1..i : (c \o b)[j] = c[j]
      /\ \A j \in i..Len(r) : (c \o b)[j + 1] = r[j]
  <2>1. c \o b \in Seq(X) /\ Len(c \o b) = Len(r) + 1 /\ \A j \in 1..i : (c \o b)[j] = c[j]
    <3>1. c \o b \in Seq(X) /\ Len(c \o b) = Len(c) + Len(b)
      BY <1>2, <1>6, ConcatProperties
    <3>2. \A j \in 1..Len(c) : (c \o b)[j] = c[j]
      BY <1>2, <1>6
    <3> QED
      BY <1>2, <1>4, <1>6, <3>1, <3>2
  <2>2. ASSUME NEW j \in i..Len(r) PROVE (c \o b)[j + 1] = r[j]
    <3>1. j + 1 \in 1..(Len(c) + Len(b)) /\ j + 1 > Len(c) /\ j + 1 - i \in 1..(Len(r) - i + 1)
      BY <1>2, <1>4, <1>6
    <3>2. (c \o b)[j + 1] = b[j + 1 - i]
      BY <1>2, <1>6, <3>1
    <3>3. b[j + 1 - i] = r[i + (j + 1 - i) - 1]
      BY <1>2, <3>1
    <3>4. i + (j + 1 - i) - 1 = j
      BY <1>4
    <3> QED
      BY <3>2, <3>3, <3>4
  <2> QED
    BY <2>1, <2>2
<1>8. InsertAt(r, i, id) = c \o b
  BY <1>3 DEF c
<1>9. \A j \in 1..(i - 1) : j \in 1..i
  BY <1>4
<1>10. i \in 1..i
  BY <1>4
<1> QED
  BY <1>6, <1>7, <1>8, <1>9, <1>10

\* A child that was moved is there once, with the others.
LEMMA MovedFacts ==
  ASSUME NEW X, NEW s \in Seq(X), Distinct(s), NEW id \in X, NEW before,
         before = NoNode \/ (before \in ToSet(s) /\ before # id)
  PROVE  /\ Moved(s, id, before) \in Seq(X) /\ Distinct(Moved(s, id, before))
         /\ ToSet(Moved(s, id, before)) = ToSet(s) \cup {id}
PROOF
<1> DEFINE r == Cut(s, id)
<1>1. r \in Seq(X) /\ Distinct(r) /\ ToSet(r) = ToSet(s) \ {id}
  BY CutFacts
<1>2. Moved(s, id, before) = IF before = NoNode THEN Append(r, id) ELSE InsertAt(r, IndexOf(r, before), id)
  BY DEF Moved
<1> HIDE DEF r
<1>3. CASE before = NoNode
  <2>1. ToSet(Append(r, id)) = ToSet(r) \cup {id} /\ Append(r, id) \in Seq(X)
    BY <1>1, SetOfAppend
  <2>2. Distinct(Append(r, id))
    BY <1>1, AppendDistinct
  <2> QED
    BY <1>1, <1>2, <1>3, <2>1, <2>2
<1>4. CASE before # NoNode
  <2>1. before \in ToSet(r)
    BY <1>1, <1>4
  <2>2. PICK i \in DOMAIN r : r[i] = before
    BY <2>1 DEF ToSet
  <2>3. IndexOf(r, before) = i
    BY <1>1, <2>2, IndexFacts
  <2> DEFINE m == InsertAt(r, i, id)
             n == Len(r)
  <2>4. DOMAIN r = 1..n /\ n \in Nat /\ i \in 1..(n + 1) /\ i \in 1..n
    BY <1>1
  <2>5. /\ m \in Seq(X) /\ Len(m) = n + 1 /\ m[i] = id
        /\ \A j \in 1..(i - 1) : m[j] = r[j]
        /\ \A j \in i..n : m[j + 1] = r[j]
    <3>1. i \in 1..(Len(r) + 1)
      BY <2>4
    <3>2. /\ InsertAt(r, i, id) \in Seq(X) /\ Len(InsertAt(r, i, id)) = Len(r) + 1
          /\ \A j \in 1..(i - 1) : InsertAt(r, i, id)[j] = r[j]
          /\ InsertAt(r, i, id)[i] = id
          /\ \A j \in i..Len(r) : InsertAt(r, i, id)[j + 1] = r[j]
      BY <1>1, <3>1, Inserted
    <3> QED
      BY <3>2
  <2> HIDE DEF m, n
  <2>6. DOMAIN m = 1..(n + 1)
    BY <2>4, <2>5
  <2>7. \A j \in 1..(n + 1) : \/ j = i /\ m[j] = id
                              \/ j \in 1..(i - 1) /\ j \in 1..n /\ m[j] = r[j]
                              \/ j - 1 \in i..n /\ j - 1 \in 1..n /\ m[j] = r[j - 1]
    <3> SUFFICES ASSUME NEW j \in 1..(n + 1)
                 PROVE  \/ j = i /\ m[j] = id
                        \/ j \in 1..(i - 1) /\ j \in 1..n /\ m[j] = r[j]
                        \/ j - 1 \in i..n /\ j - 1 \in 1..n /\ m[j] = r[j - 1]
      OBVIOUS
    <3>1. j = i \/ (j \in 1..(i - 1) /\ j \in 1..n) \/ (j - 1 \in i..n /\ j - 1 \in 1..n /\ (j - 1) + 1 = j)
      BY <2>4
    <3> QED
      BY <2>5, <3>1
  <2>8. \A j \in 1..n : r[j] \in ToSet(r) /\ r[j] # id
    BY <1>1, <2>4 DEF ToSet
  <2>9. Distinct(m)
    <3> SUFFICES ASSUME NEW j \in 1..(n + 1), NEW k \in 1..(n + 1), m[j] = m[k] PROVE j = k
      BY <2>6 DEF Distinct
    <3>1. \A x, y \in 1..n : r[x] = r[y] => x = y
      BY <1>1, <2>4 DEF Distinct
    <3>2. CASE j = i
      BY <2>4, <2>7, <2>8, <3>2
    <3>a. CASE k = i
      BY <2>4, <2>7, <2>8, <3>a
    <3>3. CASE j \in 1..(i - 1) /\ j \in 1..n /\ m[j] = r[j] /\ k # i
      <4>1. CASE k \in 1..(i - 1) /\ k \in 1..n /\ m[k] = r[k]
        BY <3>1, <3>3, <4>1
      <4>2. CASE k - 1 \in i..n /\ k - 1 \in 1..n /\ m[k] = r[k - 1]
        <5>1. j = k - 1
          BY <3>1, <3>3, <4>2
        <5> QED
          BY <2>4, <3>3, <4>2, <5>1
      <4> QED
        BY <2>7, <3>3, <4>1, <4>2
    <3>4. CASE j - 1 \in i..n /\ j - 1 \in 1..n /\ m[j] = r[j - 1] /\ k # i
      <4>1. CASE k \in 1..(i - 1) /\ k \in 1..n /\ m[k] = r[k]
        <5>1. k = j - 1
          BY <3>1, <3>4, <4>1
        <5> QED
          BY <2>4, <3>4, <4>1, <5>1
      <4>2. CASE k - 1 \in i..n /\ k - 1 \in 1..n /\ m[k] = r[k - 1]
        <5>1. j - 1 = k - 1
          BY <3>1, <3>4, <4>2
        <5> QED
          BY <5>1
      <4> QED
        BY <2>7, <3>4, <4>1, <4>2
    <3> QED
      BY <2>7, <3>2, <3>a, <3>3, <3>4
  <2>10. ToSet(m) = ToSet(r) \cup {id}
    <3>1. ASSUME NEW x \in ToSet(m) PROVE x \in ToSet(r) \cup {id}
      <4>1. PICK j \in 1..(n + 1) : x = m[j]
        BY <2>6 DEF ToSet
      <4> QED
        BY <2>7, <2>8, <4>1
    <3>2. ASSUME NEW x \in ToSet(r) PROVE x \in ToSet(m)
      <4>1. PICK j \in 1..n : x = r[j]
        BY <2>4 DEF ToSet
      <4>2. j \in 1..(i - 1) \/ j \in i..n
        BY <2>4
      <4>3. x = m[j] \/ x = m[j + 1]
        BY <2>5, <4>1, <4>2
      <4>4. j \in 1..(n + 1) /\ j + 1 \in 1..(n + 1)
        BY <2>4
      <4> QED
        BY <2>6, <4>3, <4>4 DEF ToSet
    <3>3. id \in ToSet(m)
      BY <2>4, <2>5, <2>6 DEF ToSet
    <3> QED
      BY <3>1, <3>2, <3>3
  <2>11. Moved(s, id, before) = m
    BY <1>2, <1>4, <2>3 DEF m
  <2> QED
    BY <1>1, <2>5, <2>9, <2>10, <2>11
<1> QED
  BY <1>3, <1>4
-----------------------------------------------------------------------------
(* What is below a node. *)

\* f has what next leads to in so many steps.
Reaching(f, next, S) ==
  /\ f[0] = S
  /\ \A i \in 1..Cardinality(DOMAIN next) :
       f[i] = f[i - 1] \cup UNION {next[id] : id \in f[i - 1] \cap DOMAIN next}
  /\ Reached(next, S) = f[Cardinality(DOMAIN next)]

\* Reached goes through as many steps as there are nodes.
LEMMA ReachingRun ==
  ASSUME NEW next, NEW S, IsFiniteSet(DOMAIN next)
  PROVE  \E f : Reaching(f, next, S)
PROOF
<1> DEFINE N == Cardinality(DOMAIN next)
           V == SUBSET (S \cup UNION {next[id] : id \in DOMAIN next})
           step == [i \in 1..N |->
                      [x \in V |-> x \cup UNION {next[id] : id \in x \cap DOMAIN next}]]
           reached[i \in 0..N] ==
             IF i = 0 THEN S
             ELSE LET sofar == reached[i - 1]
                  IN  sofar \cup UNION {next[id] : id \in sofar \cap DOMAIN next}
<1>1. N \in Nat
  BY FS_CardinalityType
<1>2. Reached(next, S) = reached[N]
  BY DEF Reached
<1>3. \A i \in 1..N : \A x \in V :
        /\ step[i][x] \in V
        /\ step[i][x] = x \cup UNION {next[id] : id \in x \cap DOMAIN next}
  OBVIOUS
<1>4. S \in V
  OBVIOUS
<1> HIDE DEF N, step, V
<1>5. PICK f : /\ f \in [0..N -> V] /\ f[0] = S
               /\ \A i \in 1..N : f[i] = step[i][f[i - 1]]
  <2>1. \A i \in 1..N : \A x \in V : step[i][x] \in V
    BY <1>3
  <2>2. \E f : Iteration(f, V, S, step, N)
    BY <1>1, <1>4, <2>1, Iterated
  <2> QED
    BY <2>2 DEF Iteration
<1>6. \A i \in 1..N : f[i] = f[i - 1] \cup UNION {next[id] : id \in f[i - 1] \cap DOMAIN next}
  <2> SUFFICES ASSUME NEW i \in 1..N
               PROVE  f[i] = f[i - 1] \cup UNION {next[id] : id \in f[i - 1] \cap DOMAIN next}
    OBVIOUS
  <2>1. i - 1 \in 0..N
    BY <1>1
  <2>2. f[i - 1] \in V /\ f[i] = step[i][f[i - 1]]
    BY <1>5, <2>1
  <2> QED
    BY <1>3, <2>2
<1>7. f = [i \in 0..N |->
             IF i = 0 THEN S
             ELSE LET sofar == f[i - 1]
                  IN  sofar \cup UNION {next[id] : id \in sofar \cap DOMAIN next}]
  <2>1. \A i \in 0..N : i = 0 \/ i \in 1..N
    BY <1>1
  <2> QED
    BY <1>5, <1>6, <2>1
<1>8. reached = [i \in 0..N |->
                   IF i = 0 THEN S
                   ELSE LET sofar == reached[i - 1]
                        IN  sofar \cup UNION {next[id] : id \in sofar \cap DOMAIN next}]
  <2> DEFINE E(g) == [i \in 0..N |->
                   IF i = 0 THEN S
                   ELSE LET sofar == g[i - 1]
                        IN  sofar \cup UNION {next[id] : id \in sofar \cap DOMAIN next}]
  <2>1. \E g : g = E(g)
    BY <1>7
  <2> QED
    BY <2>1
<1> HIDE DEF reached
<1>9. \A i \in 0..N : reached[i] = f[i]
  <2> DEFINE T == {i \in 0..N : reached[i] = f[i]}
  <2>1. 0 \in T
    BY <1>1, <1>5, <1>8
  <2>2. ASSUME NEW m \in 1..N, m - 1 \in T PROVE m \in T
    <3>1. m \in 0..N /\ m # 0
      BY <1>1
    <3>2. reached[m] = reached[m - 1] \cup UNION {next[id] : id \in reached[m - 1] \cap DOMAIN next}
      BY <1>8, <3>1
    <3>3. reached[m - 1] = f[m - 1]
      BY <2>2
    <3> QED
      BY <1>6, <3>1, <3>2, <3>3
  <2> HIDE DEF T
  <2>3. \A m \in 0..N : m \in T
    BY <1>1, <2>1, <2>2, NumbersUpTo
  <2> QED
    BY <2>3 DEF T
<1>10. N \in 0..N
  BY <1>1
<1> QED
  BY <1>2, <1>5, <1>6, <1>9, <1>10 DEF N, Reaching

Closed(next, Z) == \A id \in Z \cap DOMAIN next : next[id] \subseteq Z

\* The least closed set that has S.
LEMMA ReachedFacts ==
  ASSUME NEW next, NEW S, IsFiniteSet(DOMAIN next)
  PROVE  /\ S \subseteq Reached(next, S)
         /\ Closed(next, Reached(next, S))
         /\ \A Z : S \subseteq Z /\ Closed(next, Z) => Reached(next, S) \subseteq Z
PROOF
<1> DEFINE D == DOMAIN next
           N == Cardinality(D)
<1>1. PICK f : Reaching(f, next, S)
  BY ReachingRun
<1>2. N \in Nat
  BY FS_CardinalityType
<1>3. /\ f[0] = S
      /\ \A i \in 1..N : f[i] = f[i - 1] \cup UNION {next[id] : id \in f[i - 1] \cap D}
      /\ Reached(next, S) = f[N]
  BY <1>1 DEF Reaching
<1>4. IsFiniteSet(D)
  OBVIOUS
<1> HIDE DEF N
<1>5. S \subseteq f[N]
  <2> DEFINE T == {i \in 0..N : S \subseteq f[i]}
  <2>1. 0 \in T
    BY <1>2, <1>3
  <2>2. \A m \in 1..N : m - 1 \in T => m \in T
    BY <1>2, <1>3
  <2> HIDE DEF T
  <2>3. \A m \in 0..N : m \in T
    BY <1>2, <2>1, <2>2, NumbersUpTo
  <2>4. N \in T
    BY <1>2, <2>3
  <2> QED
    BY <2>4 DEF T
<1>6. ASSUME NEW Z, S \subseteq Z, Closed(next, Z) PROVE f[N] \subseteq Z
  <2> DEFINE T == {i \in 0..N : f[i] \subseteq Z}
  <2>1. 0 \in T
    BY <1>2, <1>3, <1>6
  <2>2. ASSUME NEW m \in 1..N, m - 1 \in T PROVE m \in T
    <3>1. m \in 0..N /\ f[m - 1] \subseteq Z
      BY <1>2, <2>2
    <3>2. f[m] = f[m - 1] \cup UNION {next[id] : id \in f[m - 1] \cap D}
      BY <1>3
    <3>3. \A id \in f[m - 1] \cap D : next[id] \subseteq Z
      BY <1>6, <3>1 DEF Closed
    <3> QED
      BY <3>1, <3>2, <3>3
  <2> HIDE DEF T
  <2>3. \A m \in 0..N : m \in T
    BY <1>2, <2>1, <2>2, NumbersUpTo
  <2>4. N \in T
    BY <1>2, <2>3
  <2> QED
    BY <2>4 DEF T
<1>7. Closed(next, f[N])
  <2> DEFINE C(i) == f[i] \cap D
             T == {i \in 0..N : Closed(next, f[i]) \/ Cardinality(C(i)) >= i + 1}
  <2>1. 0 \in T
    <3>1. CASE S \cap D = {}
      BY <1>2, <1>3, <3>1 DEF Closed
    <3>2. CASE S \cap D # {}
      <4>1. IsFiniteSet(C(0)) /\ C(0) # {}
        BY <1>3, <1>4, <3>2, FS_Subset
      <4>2. Cardinality(C(0)) \in Nat /\ Cardinality(C(0)) # 0
        BY <4>1, FS_CardinalityType, FS_EmptySet
      <4> QED
        BY <1>2, <4>2
    <3> QED
      BY <3>1, <3>2
  <2>2. ASSUME NEW m \in 1..N, m - 1 \in T PROVE m \in T
    <3>1. m \in 0..N /\ m \in Int
      BY <1>2
    <3>2. f[m] = f[m - 1] \cup UNION {next[id] : id \in f[m - 1] \cap D}
      BY <1>3
    <3>3. CASE Closed(next, f[m - 1])
      <4>1. f[m] = f[m - 1]
        BY <3>2, <3>3 DEF Closed
      <4> QED
        BY <3>1, <3>3, <4>1
    <3>4. CASE Cardinality(C(m - 1)) >= (m - 1) + 1 /\ C(m) = C(m - 1)
      <4>1. \A id \in f[m] \cap D : next[id] \subseteq f[m]
        BY <3>2, <3>4
      <4> QED
        BY <3>1, <4>1 DEF Closed
    <3>5. CASE Cardinality(C(m - 1)) >= (m - 1) + 1 /\ C(m) # C(m - 1)
      <4>1. C(m - 1) \subseteq C(m) /\ IsFiniteSet(C(m)) /\ IsFiniteSet(C(m - 1))
        BY <1>4, <3>2, FS_Subset
      <4>3. Cardinality(C(m)) \in Nat /\ Cardinality(C(m - 1)) \in Nat
        BY <4>1, FS_CardinalityType
      <4>2. Cardinality(C(m - 1)) < Cardinality(C(m))
        <5> DEFINE A == C(m - 1)
                   B == C(m)
        <5>1. A \in SUBSET B /\ IsFiniteSet(B) /\ A # B
          BY <3>5, <4>1
        <5> HIDE DEF A, B
        <5>2. Cardinality(A) <= Cardinality(B) /\ (Cardinality(B) = Cardinality(A) => B = A)
          BY <5>1, FS_Subset
        <5> QED
          BY <4>3, <5>1, <5>2 DEF A, B
      <4>4. Cardinality(C(m)) >= m + 1
        BY <3>1, <3>5, <4>2, <4>3
      <4> QED
        BY <3>1, <4>4
    <3> QED
      BY <2>2, <3>3, <3>4, <3>5
  <2> HIDE DEF T
  <2>3. \A m \in 0..N : m \in T
    BY <1>2, <2>1, <2>2, NumbersUpTo
  <2>4. Closed(next, f[N]) \/ Cardinality(C(N)) >= N + 1
    BY <1>2, <2>3 DEF T
  <2>5. Cardinality(C(N)) <= N /\ Cardinality(C(N)) \in Nat
    <3>1. C(N) \subseteq D
      OBVIOUS
    <3> QED
      BY <1>4, <3>1, FS_Subset, FS_CardinalityType DEF N
  <2> QED
    BY <1>2, <2>4, <2>5
<1> QED
  BY <1>3, <1>5, <1>6, <1>7

\* A set of nodes that has the children of its nodes.
ClosedIn(P, Z) == \A n \in Z \cap DOMAIN P : KidsOf(P, n) \subseteq Z

\* What is below a node is the least closed set that has it.
LEMMA UnderFacts ==
  ASSUME NEW P, NEW id, IsFiniteSet(DOMAIN P)
  PROVE  /\ id \in Under(P, id)
         /\ ClosedIn(P, Under(P, id))
         /\ \A Z : id \in Z /\ ClosedIn(P, Z) => Under(P, id) \subseteq Z
PROOF
<1> DEFINE next == [n \in DOMAIN P |-> KidsOf(P, n)]
<1>1. DOMAIN next = DOMAIN P /\ \A n \in DOMAIN P : next[n] = KidsOf(P, n)
  OBVIOUS
<1>2. Under(P, id) = Reached(next, {id})
  BY DEF Under
<1> HIDE DEF next
<1>3. \A Z : Closed(next, Z) <=> ClosedIn(P, Z)
  BY <1>1 DEF Closed, ClosedIn
<1>4. /\ {id} \subseteq Reached(next, {id})
      /\ Closed(next, Reached(next, {id}))
      /\ \A Z : {id} \subseteq Z /\ Closed(next, Z) => Reached(next, {id}) \subseteq Z
  BY <1>1, ReachedFacts
<1> QED
  BY <1>2, <1>3, <1>4
-----------------------------------------------------------------------------
(* Pages and patches. *)

Words == {"div", ""} \cup UNION {{look[1], look[2]} : look \in UNION {Looks[id] : id \in PageIds}}

PageRow == [tag : Words, text : Words, kids : Seq(PageIds)]

\* a page: the children of a node are in it, each once, and below no other node
SoundPage(P) ==
  /\ P = [n \in DOMAIN P |-> P[n]]
  /\ DOMAIN P \subseteq PageIds \cup {HostRoot} /\ HostRoot \in DOMAIN P
  /\ \A n \in DOMAIN P :
       P[n] \in PageRow /\ Distinct(P[n].kids) /\ KidsOf(P, n) \subseteq DOMAIN P
  /\ \A m, n \in DOMAIN P : \A k : k \in KidsOf(P, m) /\ k \in KidsOf(P, n) => m = n

SoundPages ==
  {P \in UNION {[D -> PageRow] : D \in SUBSET (PageIds \cup {HostRoot})} : SoundPage(P)}

RunStates == [page : SoundPages, whole : BOOLEAN]

PagePatches ==
  [kind : {"create"}, target : PageIds, tag : Words]
  \cup [kind : {"remove"}, target : PageIds]
  \cup [kind : {"text"}, target : PageIds, text : Words]
  \cup {p \in [kind : {"place"}, target : PageIds \cup {HostRoot}, child : PageIds,
               before : PageIds \cup {NoNode}] : p.before # p.child}

LEMMA SoundIsTyped ==
  ASSUME NEW P
  PROVE  P \in SoundPages <=> SoundPage(P)
PROOF
<1>1. ASSUME SoundPage(P) PROVE P \in SoundPages
  <2> DEFINE D == DOMAIN P
  <2>1. P = [n \in D |-> P[n]] /\ D \in SUBSET (PageIds \cup {HostRoot}) /\ \A n \in D : P[n] \in PageRow
    BY <1>1 DEF SoundPage
  <2> HIDE DEF D
  <2>2. P \in [D -> PageRow]
    BY <2>1
  <2>3. P \in UNION {[E -> PageRow] : E \in SUBSET (PageIds \cup {HostRoot})}
    BY <2>1, <2>2
  <2> QED
    BY <1>1, <2>3 DEF SoundPages
<1> QED
  BY <1>1 DEF SoundPages

LEMMA PageIsFinite ==
  ASSUME NEW P, SoundPage(P)
  PROVE  IsFiniteSet(DOMAIN P)
PROOF
<1>1. IsFiniteSet(PageIds \cup {HostRoot})
  BY PageAssumption, FS_AddElement
<1> QED
  BY <1>1, FS_Subset DEF SoundPage

\* A row of a sound page.
LEMMA SoundRow ==
  ASSUME NEW P, SoundPage(P), NEW n \in DOMAIN P
  PROVE  /\ P[n] = [tag |-> P[n].tag, text |-> P[n].text, kids |-> P[n].kids]
         /\ P[n].tag \in Words /\ P[n].text \in Words /\ P[n].kids \in Seq(PageIds)
         /\ Distinct(P[n].kids) /\ KidsOf(P, n) = ToSet(P[n].kids)
         /\ KidsOf(P, n) \subseteq PageIds \cap DOMAIN P
PROOF
<1>1. P[n] \in PageRow /\ Distinct(P[n].kids) /\ KidsOf(P, n) \subseteq DOMAIN P
  BY DEF SoundPage
<1>2. P[n].tag \in Words /\ P[n].text \in Words /\ P[n].kids \in Seq(PageIds)
  BY <1>1 DEF PageRow
<1>3. P[n] = [tag |-> P[n].tag, text |-> P[n].text, kids |-> P[n].kids]
  BY <1>1 DEF PageRow
<1>4. ToSet(P[n].kids) \subseteq PageIds
  BY <1>2, SetTyped
<1> QED
  BY <1>1, <1>2, <1>3, <1>4 DEF KidsOf

\* What hangs below a node of the page is below its parent.
LEMMA UnderParent ==
  ASSUME NEW P, SoundPage(P), NEW id, NEW n \in DOMAIN P, NEW k \in KidsOf(P, n),
         k \in Under(P, id), k # id
  PROVE  n \in Under(P, id)
PROOF
<1> DEFINE U == Under(P, id)
           Z == U \ {k}
<1>1. /\ id \in U /\ ClosedIn(P, U)
      /\ \A Y : id \in Y /\ ClosedIn(P, Y) => U \subseteq Y
  BY PageIsFinite, UnderFacts
<1> HIDE DEF U
<1>2. SUFFICES ASSUME n \notin U PROVE FALSE
  BY DEF U
<1>3. ClosedIn(P, Z)
  <2> SUFFICES ASSUME NEW m \in Z \cap DOMAIN P PROVE KidsOf(P, m) \subseteq Z
    BY DEF ClosedIn
  <2>1. KidsOf(P, m) \subseteq U
    BY <1>1 DEF ClosedIn
  <2>2. m # n
    BY <1>2
  <2>3. k \notin KidsOf(P, m)
    BY <2>2 DEF SoundPage
  <2> QED
    BY <2>1, <2>3
<1>4. U \subseteq Z
  BY <1>1, <1>3
<1> QED
  BY <1>4 DEF U

\* The element of the host is below no other node.
LEMMA RootNotUnder ==
  ASSUME NEW P, SoundPage(P), NEW id, id # HostRoot
  PROVE  HostRoot \notin Under(P, id)
PROOF
<1> DEFINE U == Under(P, id)
           Z == U \ {HostRoot}
<1>1. /\ id \in U /\ ClosedIn(P, U)
      /\ \A Y : id \in Y /\ ClosedIn(P, Y) => U \subseteq Y
  BY PageIsFinite, UnderFacts
<1> HIDE DEF U
<1>3. ClosedIn(P, Z)
  <2> SUFFICES ASSUME NEW m \in Z \cap DOMAIN P PROVE KidsOf(P, m) \subseteq Z
    BY DEF ClosedIn
  <2>1. KidsOf(P, m) \subseteq U
    BY <1>1 DEF ClosedIn
  <2>2. HostRoot \notin KidsOf(P, m)
    BY SoundRow, PageAssumption
  <2> QED
    BY <2>1, <2>2
<1>4. U \subseteq Z
  BY <1>1, <1>3
<1> QED
  BY <1>4 DEF U
-----------------------------------------------------------------------------
\* What the patches do to a page, Q after P.
CreateDone(P, Q, p) ==
  /\ p.target \in PageIds /\ p.target \notin DOMAIN P
  /\ DOMAIN Q = DOMAIN P \cup {p.target}
  /\ Q[p.target] = [tag |-> p.tag, text |-> "", kids |-> <<>>]
  /\ \A n \in DOMAIN P : Q[n] = P[n]

TextDone(P, Q, p) ==
  /\ p.target \in DOMAIN P /\ DOMAIN Q = DOMAIN P
  /\ Q[p.target] = [tag |-> P[p.target].tag, text |-> p.text, kids |-> <<>>]
  /\ \A n \in DOMAIN P \ {p.target} : Q[n] = P[n]

RemoveDone(P, Q, p) ==
  /\ p.target \in DOMAIN P \ {HostRoot}
  /\ DOMAIN Q = DOMAIN P \ Under(P, p.target)
  /\ \A n \in DOMAIN Q :
       Q[n] = [tag |-> P[n].tag, text |-> P[n].text, kids |-> Cut(P[n].kids, p.target)]

PlaceDone(P, Q, p) ==
  /\ p.target \in DOMAIN P /\ p.child \in DOMAIN P /\ DOMAIN Q = DOMAIN P
  /\ \A n \in DOMAIN P :
       Q[n] = [tag |-> P[n].tag, text |-> P[n].text,
               kids |-> IF n = p.target THEN Moved(Cut(P[n].kids, p.child), p.child, p.before)
                        ELSE Cut(P[n].kids, p.child)]

LEMMA CreateSound ==
  ASSUME NEW P, SoundPage(P), NEW p \in PagePatches, Admits(P, p), p.kind = "create"
  PROVE  SoundPage(Applied(P, p)) /\ CreateDone(P, Applied(P, p), p)
PROOF
<1> DEFINE Q == Applied(P, p)
           id == p.target
<1>1. p.target \in PageIds /\ p.tag \in Words /\ p.target \notin DOMAIN P
  BY DEF PagePatches, Admits
<1>2. Q = [n \in DOMAIN P \cup {id} |->
            IF n = id THEN [tag |-> p.tag, text |-> "", kids |-> <<>>] ELSE P[n]]
  BY DEF Applied
<1>3. CreateDone(P, Q, p)
  BY <1>1, <1>2 DEF CreateDone
<1>4. Q = [n \in DOMAIN Q |-> Q[n]]
  BY <1>2
<1> HIDE DEF Q, id
<1>5. DOMAIN Q = DOMAIN P \cup {id} /\ Q[id] = [tag |-> p.tag, text |-> "", kids |-> <<>>]
      /\ \A n \in DOMAIN P : Q[n] = P[n]
  BY <1>3 DEF CreateDone, id
<1>6. "" \in Words
  BY DEF Words
<1>7. Q[id] \in PageRow /\ Distinct(Q[id].kids) /\ KidsOf(Q, id) = {}
  <2>1. <<>> \in Seq(PageIds) /\ Distinct(<<>>) /\ ToSet(<<>>) = {}
    BY DEF Distinct, ToSet
  <2>2. [tag |-> p.tag, text |-> "", kids |-> <<>>] \in PageRow
    BY <1>1, <1>6, <2>1 DEF PageRow
  <2>0. Q[id] = [tag |-> p.tag, text |-> "", kids |-> <<>>]
    BY <1>5
  <2>a. \A k : [tag |-> p.tag, text |-> "", kids |-> k].kids = k
    OBVIOUS
  <2>b. [tag |-> p.tag, text |-> "", kids |-> <<>>].kids = <<>>
    BY <2>a
  <2>3. Q[id].kids = <<>>
    BY <2>0, <2>b
  <2> QED
    BY <1>5, <2>1, <2>2, <2>3 DEF KidsOf
<1>8. \A n \in DOMAIN P : KidsOf(Q, n) = KidsOf(P, n)
  BY <1>5 DEF KidsOf
<1>9. id \in PageIds
  BY <1>1 DEF id
<1>10. SoundPage(Q)
  BY <1>4, <1>5, <1>7, <1>8, <1>9 DEF SoundPage
<1> QED
  BY <1>3, <1>10 DEF Q

LEMMA TextSound ==
  ASSUME NEW P, SoundPage(P), NEW p \in PagePatches, Admits(P, p), p.kind = "text"
  PROVE  SoundPage(Applied(P, p)) /\ TextDone(P, Applied(P, p), p)
PROOF
<1> DEFINE Q == Applied(P, p)
           id == p.target
<1>1. p.target \in PageIds /\ p.text \in Words /\ p.target \in DOMAIN P
  BY DEF PagePatches, Admits
<1>2. Q = [P EXCEPT ![id].text = p.text, ![id].kids = <<>>]
  BY DEF Applied
<1>3. P = [n \in DOMAIN P |-> P[n]]
  BY DEF SoundPage
<1>4. P[id] = [tag |-> P[id].tag, text |-> P[id].text, kids |-> P[id].kids] /\ P[id].tag \in Words
  BY <1>1, SoundRow
<1>5. DOMAIN Q = DOMAIN P /\ \A n \in DOMAIN P \ {id} : Q[n] = P[n]
  BY <1>2, <1>3
<1>6. Q[id] = [tag |-> P[id].tag, text |-> p.text, kids |-> <<>>]
  <2>1. Q[id] = [[P[id] EXCEPT !.text = p.text] EXCEPT !.kids = <<>>]
    BY <1>1, <1>2
  <2> QED
    BY <1>4, <2>1
<1>7. Q = [n \in DOMAIN Q |-> Q[n]]
  BY <1>2, <1>3
<1>8. TextDone(P, Q, p)
  BY <1>1, <1>5, <1>6 DEF TextDone
<1> HIDE DEF Q
<1>9. Q[id] \in PageRow /\ Distinct(Q[id].kids) /\ KidsOf(Q, id) = {}
  BY <1>1, <1>4, <1>6 DEF PageRow, Distinct, KidsOf, ToSet
<1>10. \A n \in DOMAIN P \ {id} : KidsOf(Q, n) = KidsOf(P, n)
  BY <1>5 DEF KidsOf
<1> HIDE DEF id
<1>11. SoundPage(Q)
  BY <1>5, <1>7, <1>9, <1>10 DEF SoundPage
<1> QED
  BY <1>8, <1>11 DEF Q

LEMMA UnhungRows ==
  ASSUME NEW P, SoundPage(P), NEW id
  PROVE  /\ DOMAIN Unhung(P, id) = DOMAIN P
         /\ \A n \in DOMAIN P :
              Unhung(P, id)[n] = [tag |-> P[n].tag, text |-> P[n].text, kids |-> Cut(P[n].kids, id)]
PROOF
<1>1. DOMAIN Unhung(P, id) = DOMAIN P
  BY DEF Unhung
<1>2. ASSUME NEW n \in DOMAIN P
      PROVE  Unhung(P, id)[n] = [tag |-> P[n].tag, text |-> P[n].text, kids |-> Cut(P[n].kids, id)]
  <2>1. Unhung(P, id)[n] = [P[n] EXCEPT !.kids = Cut(@, id)]
    BY DEF Unhung
  <2>2. P[n] = [tag |-> P[n].tag, text |-> P[n].text, kids |-> P[n].kids]
    BY SoundRow
  <2> QED
    BY <2>1, <2>2
<1> QED
  BY <1>1, <1>2

LEMMA RemoveSound ==
  ASSUME NEW P, SoundPage(P), NEW p \in PagePatches, Admits(P, p), p.kind = "remove"
  PROVE  SoundPage(Applied(P, p)) /\ RemoveDone(P, Applied(P, p), p)
PROOF
<1> DEFINE Q == Applied(P, p)
           id == p.target
           U == Under(P, id)
<1>1. p.target \in PageIds /\ p.target \in DOMAIN P /\ p.target # HostRoot
  BY DEF PagePatches, Admits
<1>2. Q = [n \in DOMAIN P \ U |-> Unhung(P, id)[n]]
  BY DEF Applied, Restrict
<1>3. DOMAIN Q = DOMAIN P \ U /\ Q = [n \in DOMAIN Q |-> Q[n]]
  BY <1>2
<1>4. \A n \in DOMAIN Q :
        Q[n] = [tag |-> P[n].tag, text |-> P[n].text, kids |-> Cut(P[n].kids, id)]
  BY <1>2, <1>3, UnhungRows
<1>5. RemoveDone(P, Q, p)
  BY <1>1, <1>3, <1>4 DEF RemoveDone
<1>6. id # HostRoot
  BY <1>1
<1> HIDE DEF Q, id
<1>7. HostRoot \notin U
  BY <1>6, RootNotUnder
<1>8. ASSUME NEW n \in DOMAIN Q
      PROVE  /\ n \in DOMAIN P /\ n \notin U /\ Q[n] \in PageRow /\ Distinct(Q[n].kids)
             /\ KidsOf(Q, n) = KidsOf(P, n) \ {id}
  <2>1. n \in DOMAIN P /\ n \notin U
    BY <1>3
  <2>2. /\ P[n].tag \in Words /\ P[n].text \in Words /\ P[n].kids \in Seq(PageIds)
        /\ Distinct(P[n].kids) /\ KidsOf(P, n) = ToSet(P[n].kids)
    BY <2>1, SoundRow
  <2>3. /\ Cut(P[n].kids, id) \in Seq(PageIds) /\ Distinct(Cut(P[n].kids, id))
        /\ ToSet(Cut(P[n].kids, id)) = ToSet(P[n].kids) \ {id}
    BY <2>2, CutFacts
  <2> QED
    BY <1>4, <2>1, <2>2, <2>3 DEF KidsOf, PageRow
<1>9. ASSUME NEW n \in DOMAIN Q, NEW k \in KidsOf(Q, n) PROVE k \in DOMAIN Q
  <2>1. n \in DOMAIN P /\ n \notin U /\ k \in KidsOf(P, n) /\ k # id
    BY <1>8
  <2>2. k \in DOMAIN P
    BY <2>1, SoundRow
  <2>3. k \notin U
    BY <2>1, UnderParent
  <2> QED
    BY <1>3, <2>2, <2>3
<1>10. SoundPage(Q)
  BY <1>3, <1>7, <1>8, <1>9 DEF SoundPage
<1> QED
  BY <1>5, <1>10 DEF Q

LEMMA PlaceSound ==
  ASSUME NEW P, SoundPage(P), NEW p \in PagePatches, Admits(P, p), p.kind = "place"
  PROVE  SoundPage(Applied(P, p)) /\ PlaceDone(P, Applied(P, p), p)
PROOF
<1> DEFINE Q == Applied(P, p)
           id == p.target
           c == p.child
           b == p.before
<1>1. /\ id \in DOMAIN P /\ c \in DOMAIN P /\ c \in PageIds /\ b # c
      /\ b \in KidsOf(P, id) \cup {NoNode}
  BY DEF PagePatches, Admits
<1>2. Q = [Unhung(P, c) EXCEPT ![id].kids = Moved(@, c, b)]
  BY DEF Applied
<1>3. /\ DOMAIN Unhung(P, c) = DOMAIN P
      /\ \A n \in DOMAIN P :
           Unhung(P, c)[n] = [tag |-> P[n].tag, text |-> P[n].text, kids |-> Cut(P[n].kids, c)]
  BY UnhungRows
<1>4. DOMAIN Q = DOMAIN P /\ Q = [n \in DOMAIN Q |-> Q[n]]
  BY <1>2, <1>3 DEF Unhung
<1> DEFINE kids(n) == IF n = id THEN Moved(Cut(P[n].kids, c), c, b) ELSE Cut(P[n].kids, c)
<1>5. ASSUME NEW n \in DOMAIN P
      PROVE  Q[n] = [tag |-> P[n].tag, text |-> P[n].text, kids |-> kids(n)]
  <2>1. CASE n # id
    BY <1>2, <1>3, <2>1
  <2>2. CASE n = id
    <3>1. Q[id] = [Unhung(P, c)[id] EXCEPT !.kids = Moved(@, c, b)]
      BY <1>1, <1>2, <1>3
    <3> DEFINE r == Unhung(P, c)[id]
    <3>2. r = [tag |-> P[id].tag, text |-> P[id].text, kids |-> Cut(P[id].kids, c)]
      BY <1>1, <1>3
    <3> HIDE DEF r
    <3>3. [r EXCEPT !.kids = Moved(@, c, b)] = [tag |-> P[id].tag, text |-> P[id].text, kids |-> Moved(r.kids, c, b)]
      BY <3>2
    <3>4. r.kids = Cut(P[id].kids, c)
      BY <3>2
    <3>5. Q[id] = [tag |-> P[id].tag, text |-> P[id].text, kids |-> Moved(r.kids, c, b)]
      BY <3>1, <3>3 DEF r
    <3> QED
      BY <2>2, <3>4, <3>5
  <2> QED
    BY <2>1, <2>2
<1>6. PlaceDone(P, Q, p)
  BY <1>1, <1>4, <1>5 DEF PlaceDone
<1> HIDE DEF Q, id, c, b
<1>7. ASSUME NEW n \in DOMAIN P
      PROVE  /\ kids(n) \in Seq(PageIds) /\ Distinct(kids(n)) /\ P[n].tag \in Words /\ P[n].text \in Words
             /\ ToSet(kids(n)) = (KidsOf(P, n) \ {c}) \cup (IF n = id THEN {c} ELSE {})
  <2>1. /\ P[n].tag \in Words /\ P[n].text \in Words /\ P[n].kids \in Seq(PageIds)
        /\ Distinct(P[n].kids) /\ KidsOf(P, n) = ToSet(P[n].kids)
    BY SoundRow
  <2> DEFINE r == Cut(P[n].kids, c)
  <2>2. r \in Seq(PageIds) /\ Distinct(r) /\ ToSet(r) = ToSet(P[n].kids) \ {c}
    BY <2>1, CutFacts
  <2> HIDE DEF r
  <2>3. CASE n = id
    <3>1. b = NoNode \/ (b \in ToSet(r) /\ b # c)
      BY <1>1, <2>1, <2>2, <2>3
    <3>2. /\ Moved(r, c, b) \in Seq(PageIds) /\ Distinct(Moved(r, c, b))
          /\ ToSet(Moved(r, c, b)) = ToSet(r) \cup {c}
      BY <1>1, <2>2, <3>1, MovedFacts
    <3>3. kids(n) = Moved(r, c, b)
      BY <2>3 DEF r
    <3> QED
      BY <2>1, <2>2, <2>3, <3>2, <3>3
  <2>4. CASE n # id
    BY <2>1, <2>2, <2>4 DEF r
  <2> QED
    BY <2>3, <2>4
<1> HIDE DEF kids
<1>8. \A n \in DOMAIN P : Q[n] \in PageRow /\ Distinct(Q[n].kids)
                          /\ KidsOf(Q, n) = (KidsOf(P, n) \ {c}) \cup (IF n = id THEN {c} ELSE {})
  <2> SUFFICES ASSUME NEW n \in DOMAIN P
               PROVE  Q[n] \in PageRow /\ Distinct(Q[n].kids)
                      /\ KidsOf(Q, n) = (KidsOf(P, n) \ {c}) \cup (IF n = id THEN {c} ELSE {})
    OBVIOUS
  <2> DEFINE s == kids(n)
  <2>1. /\ s \in Seq(PageIds) /\ Distinct(s) /\ P[n].tag \in Words /\ P[n].text \in Words
        /\ ToSet(s) = (KidsOf(P, n) \ {c}) \cup (IF n = id THEN {c} ELSE {})
    BY <1>7
  <2>2. Q[n] = [tag |-> P[n].tag, text |-> P[n].text, kids |-> s]
    BY <1>5
  <2> HIDE DEF s
  <2>3. Q[n].kids = s /\ Q[n] \in PageRow
    BY <2>1, <2>2 DEF PageRow
  <2> QED
    BY <2>1, <2>3 DEF KidsOf
<1>9. \A n \in DOMAIN P : KidsOf(P, n) \subseteq DOMAIN P
  BY DEF SoundPage
<1>10. SoundPage(Q)
  BY <1>1, <1>4, <1>8, <1>9 DEF SoundPage
<1> QED
  BY <1>6, <1>10 DEF Q

\* A patch that is admitted leaves a sound page.
LEMMA PatchSound ==
  ASSUME NEW P, SoundPage(P), NEW p \in PagePatches, Admits(P, p)
  PROVE  /\ SoundPage(Applied(P, p))
         /\ p.kind = "create" => CreateDone(P, Applied(P, p), p)
         /\ p.kind = "text" => TextDone(P, Applied(P, p), p)
         /\ p.kind = "remove" => RemoveDone(P, Applied(P, p), p)
         /\ p.kind = "place" => PlaceDone(P, Applied(P, p), p)
PROOF
<1>1. p.kind \in {"create", "text", "remove", "place"}
  BY DEF PagePatches
<1> QED
  BY <1>1, CreateSound, TextSound, RemoveSound, PlaceSound

LEMMA ThenSound ==
  ASSUME NEW x \in RunStates, NEW p \in PagePatches, NEW textsClear \in BOOLEAN
  PROVE  Then(x, p, textsClear) \in RunStates
PROOF
<1>1. x.page \in SoundPages /\ x.whole \in BOOLEAN /\ SoundPage(x.page)
  BY SoundIsTyped DEF RunStates
<1>2. [page |-> x.page, whole |-> FALSE] \in RunStates
  BY <1>1 DEF RunStates
<1>3. CASE ~x.whole \/ ~Admits(x.page, p)
  BY <1>2, <1>3 DEF Then
<1>4. CASE x.whole /\ Admits(x.page, p)
  <2>1. SoundPage(Applied(x.page, p))
    BY <1>1, <1>4, PatchSound
  <2>2. Applied(x.page, p) \in SoundPages
    BY <2>1, SoundIsTyped
  <2>3. [page |-> Applied(x.page, p), whole |-> TRUE] \in RunStates
    BY <2>2 DEF RunStates
  <2> QED
    BY <1>4, <2>3 DEF Then
<1> QED
  BY <1>3, <1>4

\* A batch of patches goes through sound pages.
LEMMA BatchRuns ==
  ASSUME NEW P, SoundPage(P), NEW patches \in Seq(PagePatches), NEW textsClear \in BOOLEAN
  PROVE  \E f : Batching(f, RunStates, P, patches, textsClear)
PROOF
<1>1. [page |-> P, whole |-> TRUE] \in RunStates
  BY SoundIsTyped DEF RunStates
<1>2. \A x \in RunStates : \A p \in PagePatches : Then(x, p, textsClear) \in RunStates
  BY ThenSound
<1> QED
  BY <1>1, <1>2, BatchingRun
-----------------------------------------------------------------------------
(* Trees. *)

\* What holds of a node once it holds of those of lower rank holds of all.
LEMMA ByRank ==
  ASSUME NEW D, NEW h, \A id \in D : h[id] \in Nat, NEW T,
         \A id \in D : (\A k \in D : h[k] < h[id] => k \in T) => id \in T
  PROVE  D \subseteq T
PROOF
<1> DEFINE Bad == {n \in Nat : \E id \in D : id \notin T /\ h[id] = n}
<1>1. SUFFICES ASSUME NEW x \in D, x \notin T PROVE FALSE
  OBVIOUS
<1>2. Bad \in SUBSET Nat /\ Bad # {}
  BY <1>1
<1> HIDE DEF Bad
<1>3. PICK n \in Bad : \A m \in Bad : n <= m
  BY <1>2, LeastNumber
<1>4. PICK id \in D : id \notin T /\ h[id] = n
  BY <1>3 DEF Bad
<1>5. ASSUME NEW k \in D, h[k] < h[id] PROVE k \in T
  <2>1. k \notin T => h[k] \in Bad
    BY DEF Bad
  <2>2. h[k] \in Nat /\ h[id] \in Nat
    OBVIOUS
  <2> QED
    BY <1>3, <1>4, <1>5, <2>1, <2>2
<1> QED
  BY <1>4, <1>5

\* E is a tree below the element of the host; children have a lower rank.
PageTree(E, h) ==
  /\ SoundPage(E)
  /\ \A n \in DOMAIN E : h[n] \in Nat /\ h[n] <= h[HostRoot]
  /\ \A n \in DOMAIN E : \A k \in KidsOf(E, n) : h[k] < h[n]
  /\ \A k \in DOMAIN E \ {HostRoot} : \E n \in DOMAIN E : k \in KidsOf(E, n)
  /\ E[HostRoot].tag = "div" /\ E[HostRoot].text = ""
  /\ KidsOf(E, HostRoot) = DOMAIN E \cap Roots

\* E has the nodes of a tree and the element of the host.
RootedTree(E, tree, root) ==
  /\ root \in Roots /\ tree # NoTree /\ RootOf(tree) = root /\ DOMAIN tree = DOMAIN E \ {HostRoot}
  /\ root \in DOMAIN tree /\ DOMAIN E \cap Roots = {root} /\ E[HostRoot].kids = <<root>>
  /\ \A id \in DOMAIN tree : tree[id] = E[id]

LEMMA OrderFacts ==
  ASSUME NEW order \in SetToAllKPermutations(Parts)
  PROVE  order \in Seq(Parts) /\ Distinct(order) /\ ToSet(order) \subseteq Parts
PROOF
<1>1. PICK s \in SUBSET Parts : order \in SetToSeqs(s)
  BY DEF SetToAllKPermutations
<1>2. IsFiniteSet(s)
  <2>1. s \subseteq PageIds
    BY DEF PageIds
  <2> QED
    BY <2>1, PageAssumption, FS_Subset
<1>3. Cardinality(s) \in Nat
  BY <1>2, FS_CardinalityType
<1> DEFINE n == Cardinality(s)
<1> HIDE DEF n
<1>4. order \in [1..n -> s] /\ \A i, j \in 1..n : i # j => order[i] # order[j]
  BY <1>1 DEF SetToSeqs, n
<1>5. n \in Nat
  BY <1>3 DEF n
<1>6. order \in [1..n -> Parts]
  BY <1>4
<1>7. order \in Seq(Parts)
  BY <1>5, <1>6, SeqDef
<1>8. Distinct(order)
  BY <1>4 DEF Distinct
<1> QED
  BY <1>7, <1>8, SetTyped

\* Every tree is a page tree below the element of the host.
LEMMA TreeBuilt ==
  ASSUME NEW tree \in PageTrees
  PROVE  \E h, root : PageTree(Expected(tree), h) /\ RootedTree(Expected(tree), tree, root)
PROOF
<1> DEFINE Ids(root, order) == {root} \cup ToSet(order)
           Chosen(root, order) == {look \in [Ids(root, order) -> UNION {Looks[id] : id \in Ids(root, order)}] :
                      \A id \in Ids(root, order) : look[id] \in Looks[id]}
           Parents(root, order) == {parent \in [ToSet(order) -> Ids(root, order)] :
                      \A i \in DOMAIN order :
                        parent[order[i]] \in {root} \cup {order[j] : j \in 1..(i - 1)}}
           Built(root, order, look, parent) ==
             [id \in Ids(root, order) |->
                [tag |-> look[id][1], text |-> look[id][2],
                 kids |-> Among(order, {c \in ToSet(order) : parent[c] = id})]]
<1>1. PICK root \in Roots, order \in SetToAllKPermutations(Parts) :
        \E look \in Chosen(root, order), parent \in Parents(root, order) :
           tree = Built(root, order, look, parent)
  <2> DEFINE Made(root, order) ==
               {Built(root, order, look, parent) :
                  look \in Chosen(root, order), parent \in Parents(root, order)}
  <2>1. PageTrees = UNION {Made(root, order) : root \in Roots, order \in SetToAllKPermutations(Parts)}
    BY DEF PageTrees
  <2> HIDE DEF Chosen, Parents, Built
  <2>2. PICK root \in Roots, order \in SetToAllKPermutations(Parts) : tree \in Made(root, order)
    BY <2>1
  <2> QED
    BY <2>2
<1>2. PICK look \in Chosen(root, order), parent \in Parents(root, order) :
        tree = Built(root, order, look, parent)
  BY <1>1
<1> DEFINE ids == Ids(root, order)
           n == Len(order)
           E == Expected(tree)
<1>3. order \in Seq(Parts) /\ Distinct(order) /\ ToSet(order) \subseteq Parts
  BY OrderFacts
<1>4. /\ DOMAIN tree = ids
      /\ \A id \in ids : tree[id] = [tag |-> look[id][1], text |-> look[id][2],
                                      kids |-> Among(order, {c \in ToSet(order) : parent[c] = id})]
  BY <1>2
<1>5. \A id \in ids : look[id] \in Looks[id]
  OBVIOUS
<1>6. /\ \A c \in ToSet(order) : parent[c] \in ids
      /\ \A i \in DOMAIN order : parent[order[i]] \in {root} \cup {order[j] : j \in 1..(i - 1)}
  OBVIOUS
<1>7. /\ ids = {root} \cup ToSet(order) /\ ids \subseteq PageIds /\ root \notin ToSet(order)
      /\ HostRoot \notin ids /\ ids \cap Roots = {root}
  BY <1>3, PageAssumption DEF PageIds
<1> HIDE DEF Chosen, Parents, Built, ids
<1>8. n \in Nat /\ DOMAIN order = 1..n
  BY <1>3
<1>9. RootOf(tree) = root
  BY <1>4, <1>7 DEF RootOf
<1>10. tree # NoTree
  <2>1. root \in DOMAIN tree
    BY <1>4, <1>7
  <2> QED
    BY <2>1 DEF NoTree
<1>11. /\ DOMAIN E = ids \cup {HostRoot} /\ E = [x \in DOMAIN E |-> E[x]]
       /\ E[HostRoot] = [tag |-> "div", text |-> "", kids |-> <<root>>]
       /\ \A id \in ids : E[id] = tree[id]
  <2>1. E = [id \in DOMAIN tree \cup {HostRoot} |->
               IF id = HostRoot THEN [Blank[HostRoot] EXCEPT !.kids = <<RootOf(tree)>>] ELSE tree[id]]
    BY <1>10 DEF Expected
  <2>2. [Blank[HostRoot] EXCEPT !.kids = <<RootOf(tree)>>] = [tag |-> "div", text |-> "", kids |-> <<root>>]
    <3>1. Blank[HostRoot] = [tag |-> "div", text |-> "", kids |-> <<>>]
      BY DEF Blank
    <3>2. ASSUME NEW a, NEW b, NEW j, NEW k
          PROVE  [[tag |-> a, text |-> b, kids |-> j] EXCEPT !.kids = k] = [tag |-> a, text |-> b, kids |-> k]
      OBVIOUS
    <3>3. [[tag |-> "div", text |-> "", kids |-> <<>>] EXCEPT !.kids = <<root>>] = [tag |-> "div", text |-> "", kids |-> <<root>>]
      BY <3>2
    <3> QED
      BY <1>9, <3>1, <3>3
  <2> QED
    BY <1>4, <1>7, <2>1, <2>2
<1> HIDE DEF E
<1>12. E[HostRoot].tag = "div" /\ E[HostRoot].text = "" /\ E[HostRoot].kids = <<root>>
  <2>1. \A a, b, c : [tag |-> a, text |-> b, kids |-> c].tag = a /\ [tag |-> a, text |-> b, kids |-> c].text = b
                     /\ [tag |-> a, text |-> b, kids |-> c].kids = c
    OBVIOUS
  <2>2. E[HostRoot] = [tag |-> "div", text |-> "", kids |-> <<root>>]
    BY <1>11
  <2> DEFINE k == <<root>>
             a == "div"
             b == ""
  <2>3. E[HostRoot] = [tag |-> a, text |-> b, kids |-> k]
    BY <2>2
  <2> HIDE DEF k, a, b
  <2>4. E[HostRoot].tag = a /\ E[HostRoot].text = b /\ E[HostRoot].kids = k
    BY <2>3
  <2> QED
    BY <2>4 DEF k, a, b
<1>13. RootedTree(E, tree, root)
  BY <1>4, <1>7, <1>9, <1>10, <1>11, <1>12, PageAssumption DEF RootedTree, PageIds
<1>14. ASSUME NEW id \in ids
       PROVE  /\ E[id] \in PageRow /\ Distinct(E[id].kids)
              /\ KidsOf(E, id) = {c \in ToSet(order) : parent[c] = id}
  <2> DEFINE below == {c \in ToSet(order) : parent[c] = id}
             kids == Among(order, below)
  <2> HIDE DEF below
  <2>1. kids \in Seq(Parts) /\ ToSet(kids) = ToSet(order) \cap below /\ Distinct(kids)
    BY <1>3, AmongFacts
  <2>2. below \subseteq ToSet(order)
    BY DEF below
  <2>3. kids \in Seq(PageIds)
    <3>1. ToSet(kids) \subseteq PageIds
      BY <1>7, <2>1
    <3> HIDE DEF kids
    <3> QED
      BY <2>1, <3>1, SeqOverSet
  <2>4. E[id] = [tag |-> look[id][1], text |-> look[id][2], kids |-> kids]
    BY <1>4, <1>11 DEF below
  <2>5. look[id][1] \in Words /\ look[id][2] \in Words
    <3>1. look[id] \in UNION {Looks[x] : x \in PageIds}
      BY <1>5, <1>7
    <3>2. {look[id][1], look[id][2]} \subseteq UNION {{l[1], l[2]} : l \in UNION {Looks[x] : x \in PageIds}}
      BY <3>1
    <3> QED
      BY <3>2 DEF Words
  <2> HIDE DEF kids
  <2>6. E[id].kids = kids
    BY <2>4
  <2>7. E[id] \in PageRow
    BY <2>3, <2>4, <2>5 DEF PageRow
  <2> QED
    BY <2>1, <2>2, <2>6, <2>7 DEF KidsOf, below
<1>15. /\ E[HostRoot] \in PageRow /\ Distinct(E[HostRoot].kids) /\ KidsOf(E, HostRoot) = {root}
  <2>1. <<root>> \in Seq(PageIds) /\ Distinct(<<root>>) /\ ToSet(<<root>>) = {root}
    BY DEF PageIds, Distinct, ToSet
  <2>2. "div" \in Words /\ "" \in Words
    BY DEF Words
  <2>4. \A k \in Seq(PageIds) : [tag |-> "div", text |-> "", kids |-> k] \in PageRow
    BY <2>2 DEF PageRow
  <2>5. [tag |-> "div", text |-> "", kids |-> <<root>>] \in PageRow
    BY <2>1, <2>4
  <2>6. E[HostRoot] = [tag |-> "div", text |-> "", kids |-> <<root>>]
    BY <1>11
  <2>3. E[HostRoot] \in PageRow
    BY <2>5, <2>6
  <2> QED
    BY <1>12, <2>1, <2>3 DEF KidsOf
<1>16. SoundPage(E)
  <2>1. ASSUME NEW m \in DOMAIN E
        PROVE  E[m] \in PageRow /\ Distinct(E[m].kids) /\ KidsOf(E, m) \subseteq DOMAIN E
    BY <1>7, <1>11, <1>14, <1>15
  <2>2. ASSUME NEW a \in DOMAIN E, NEW b \in DOMAIN E, NEW k, k \in KidsOf(E, a), k \in KidsOf(E, b)
        PROVE  a = b
    <3>1. a = HostRoot => k = root
      BY <1>15, <2>2
    <3>2. b = HostRoot => k = root
      BY <1>15, <2>2
    <3>3. a # HostRoot => k \in ToSet(order) /\ parent[k] = a
      BY <1>11, <1>14, <2>2
    <3>4. b # HostRoot => k \in ToSet(order) /\ parent[k] = b
      BY <1>11, <1>14, <2>2
    <3> QED
      BY <1>7, <3>1, <3>2, <3>3, <3>4
  <2> QED
    BY <1>7, <1>11, <2>1, <2>2 DEF SoundPage
<1> DEFINE h == [x \in DOMAIN E |-> IF x = HostRoot THEN n + 1 ELSE IF x = root THEN n
                                    ELSE n - IndexOf(order, x)]
<1>17. /\ h[HostRoot] = n + 1 /\ h[root] = n
       /\ \A i \in 1..n : h[order[i]] = n - i /\ order[i] \in ids
  <2>1. HostRoot # root /\ HostRoot \in DOMAIN E /\ root \in DOMAIN E
    BY <1>7, <1>11
  <2>2. ASSUME NEW i \in 1..n PROVE h[order[i]] = n - i /\ order[i] \in ids
    <3>1. order[i] \in ToSet(order)
      BY <1>8 DEF ToSet
    <3>2. IndexOf(order, order[i]) = i
      BY <1>3, <1>8, IndexFacts
    <3> QED
      BY <1>7, <1>11, <3>1, <3>2
  <2> QED
    BY <2>1, <2>2
<1>18. \A x \in ToSet(order) : \E i \in 1..n : x = order[i]
  BY <1>8 DEF ToSet
<1> HIDE DEF h, n
<1>19. \A x \in DOMAIN E : h[x] \in Nat /\ h[x] <= h[HostRoot]
  <2> SUFFICES ASSUME NEW x \in DOMAIN E PROVE h[x] \in Nat /\ h[x] <= h[HostRoot]
    OBVIOUS
  <2>1. CASE x \in ToSet(order)
    <3>1. PICK i \in 1..n : x = order[i]
      BY <1>18, <2>1
    <3> QED
      BY <1>8, <1>17, <3>1
  <2>2. CASE x \in {root, HostRoot}
    BY <1>8, <1>17, <2>2
  <2> QED
    BY <1>7, <1>11, <2>1, <2>2
<1>20. ASSUME NEW x \in DOMAIN E, NEW k \in KidsOf(E, x) PROVE h[k] < h[x]
  <2>1. CASE x = HostRoot
    BY <1>8, <1>15, <1>17, <2>1
  <2>2. CASE x # HostRoot
    <3>1. k \in ToSet(order) /\ parent[k] = x
      BY <1>11, <1>14, <2>2
    <3>2. PICK i \in 1..n : k = order[i]
      BY <1>18, <3>1
    <3>3. x \in {root} \cup {order[j] : j \in 1..(i - 1)}
      BY <1>6, <1>8, <3>1, <3>2
    <3>4. h[k] = n - i
      BY <1>17, <3>2
    <3>5. CASE x = root
      BY <1>8, <1>17, <3>4, <3>5
    <3>6. CASE x # root
      <4>1. PICK j \in 1..(i - 1) : x = order[j]
        BY <3>3, <3>6
      <4>2. j \in 1..n /\ h[x] = n - j
        BY <1>8, <1>17, <4>1
      <4> QED
        BY <1>8, <3>4, <4>1, <4>2
    <3> QED
      BY <3>5, <3>6
  <2> QED
    BY <2>1, <2>2
<1>21. ASSUME NEW k \in DOMAIN E \ {HostRoot} PROVE \E x \in DOMAIN E : k \in KidsOf(E, x)
  <2>1. CASE k = root
    BY <1>11, <1>15, <2>1
  <2>2. CASE k # root
    <3>1. k \in ToSet(order) /\ parent[k] \in ids
      BY <1>6, <1>7, <1>11, <2>2
    <3> QED
      BY <1>11, <1>14, <3>1
  <2> QED
    BY <2>1, <2>2
<1>22. KidsOf(E, HostRoot) = DOMAIN E \cap Roots
  BY <1>13, <1>15 DEF RootedTree
<1>23. PageTree(E, h)
  BY <1>12, <1>16, <1>19, <1>20, <1>21, <1>22 DEF PageTree
<1> QED
  BY <1>13, <1>23 DEF E

\* The page without a tree.
LEMMA NoTreeBuilt ==
  \E h : PageTree(Expected(NoTree), h)
PROOF
<1> DEFINE E == Expected(NoTree)
           h == [x \in {HostRoot} |-> 0]
<1>1. E = [id \in {HostRoot} |-> [tag |-> "div", text |-> "", kids |-> <<>>]]
  BY DEF Expected, Blank
<1> HIDE DEF E
<1>2. DOMAIN E = {HostRoot} /\ E[HostRoot].tag = "div" /\ E[HostRoot].text = "" /\ E[HostRoot].kids = <<>>
      /\ E = [x \in DOMAIN E |-> E[x]] /\ E[HostRoot] = [tag |-> "div", text |-> "", kids |-> <<>>]
  BY <1>1
<1>3. <<>> \in Seq(PageIds) /\ Distinct(<<>>) /\ ToSet(<<>>) = {} /\ "div" \in Words /\ "" \in Words
  BY DEF Distinct, ToSet, Words
<1>4. KidsOf(E, HostRoot) = {} /\ E[HostRoot] \in PageRow
  BY <1>2, <1>3 DEF KidsOf, PageRow
<1>5. SoundPage(E)
  BY <1>2, <1>3, <1>4 DEF SoundPage
<1>6. \A n \in DOMAIN E : h[n] \in Nat /\ h[n] <= h[HostRoot]
  <2>1. h[HostRoot] = 0
    OBVIOUS
  <2> HIDE DEF h
  <2>2. h[HostRoot] \in Nat /\ h[HostRoot] <= h[HostRoot]
    BY <2>1
  <2> QED
    BY <1>2, <2>2
<1>7. PageTree(E, h)
  BY <1>2, <1>4, <1>5, <1>6, PageAssumption DEF PageTree, PageIds
<1> QED
  BY <1>7 DEF E
-----------------------------------------------------------------------------
(* The order of children. *)

\* A sequence without repetitions is as long as it has elements.
LEMMA DistinctLength ==
  ASSUME NEW X, NEW s \in Seq(X), Distinct(s)
  PROVE  IsFiniteSet(ToSet(s)) /\ Cardinality(ToSet(s)) = Len(s)
PROOF
<1> DEFINE n == Len(s)
<1>1. n \in Nat /\ DOMAIN s = 1..n
  OBVIOUS
<1>2. s \in [1..n -> ToSet(s)]
  BY <1>1 DEF ToSet
<1>3. s \in Bijection(1..n, ToSet(s))
  <2>1. s \in Injection(1..n, ToSet(s))
    BY <1>1, <1>2 DEF Injection, IsInjective, Distinct
  <2>2. s \in Surjection(1..n, ToSet(s))
    BY <1>1, <1>2 DEF Surjection, ToSet
  <2> QED
    BY <2>1, <2>2 DEF Bijection
<1>4. ExistsBijection(1..n, ToSet(s))
  BY <1>3 DEF ExistsBijection
<1> HIDE DEF n
<1> QED
  BY <1>1, <1>4, FS_CountingElements, FS_NatBijection DEF n

LEMMA SameLength ==
  ASSUME NEW X, NEW s \in Seq(X), NEW t \in Seq(X), Distinct(s), Distinct(t), ToSet(s) = ToSet(t)
  PROVE  Len(s) = Len(t)
BY DistinctLength

\* Where the elements are when one was cut.
LEMMA CutPlaces ==
  ASSUME NEW X, NEW s \in Seq(X), Distinct(s), NEW p \in 1..Len(s)
  PROVE  /\ Len(Cut(s, s[p])) = Len(s) - 1
         /\ \A j \in 1..(p - 1) : Cut(s, s[p])[j] = s[j]
         /\ \A j \in p..(Len(s) - 1) : Cut(s, s[p])[j] = s[j + 1]
PROOF
<1> DEFINE a == SubSeq(s, 1, p - 1)
           b == SubSeq(s, p + 1, Len(s))
           n == Len(s)
<1>1. n \in Nat /\ DOMAIN s = 1..n /\ p \in 1..n /\ s[p] \in ToSet(s)
  BY DEF ToSet
<1>2. IndexOf(s, s[p]) = p
  BY <1>1, IndexFacts
<1>3. Cut(s, s[p]) = a \o b
  BY <1>1, <1>2 DEF Cut, RemoveAt
<1>4. a \in Seq(X) /\ Len(a) = p - 1 /\ \A j \in 1..(p - 1) : a[j] = s[j]
  <2>1. \A i \in 1..(p - 1) : s[i] \in X
    BY <1>1
  <2>2. /\ a \in Seq(X) /\ Len(a) = (IF 1 <= p - 1 THEN (p - 1) - 1 + 1 ELSE 0)
        /\ \A j \in 1..((p - 1) - 1 + 1) : a[j] = s[1 + j - 1]
    BY <1>1, <2>1, SubSeqProperties
  <2> HIDE DEF a
  <2>3. (p - 1) - 1 + 1 = p - 1 /\ \A j \in 1..(p - 1) : 1 + j - 1 = j
    BY <1>1
  <2> QED
    BY <1>1, <2>2, <2>3
<1>5. b \in Seq(X) /\ Len(b) = n - p /\ \A j \in 1..(n - p) : b[j] = s[p + j]
  <2>1. \A i \in (p + 1)..n : s[i] \in X
    BY <1>1
  <2>2. /\ b \in Seq(X) /\ Len(b) = (IF p + 1 <= n THEN n - (p + 1) + 1 ELSE 0)
        /\ \A j \in 1..(n - (p + 1) + 1) : b[j] = s[(p + 1) + j - 1]
    BY <1>1, <2>1, SubSeqProperties
  <2> HIDE DEF b, n
  <2>3. n - (p + 1) + 1 = n - p /\ \A j \in 1..(n - p) : (p + 1) + j - 1 = p + j
    BY <1>1
  <2>4. Len(b) = n - p
    BY <1>1, <2>2
  <2>5. ASSUME NEW j \in 1..(n - p) PROVE b[j] = s[p + j]
    <3>1. j \in 1..(n - (p + 1) + 1) /\ (p + 1) + j - 1 = p + j
      BY <1>1, <2>3
    <3>2. b[j] = s[(p + 1) + j - 1]
      BY <2>2, <3>1
    <3> QED
      BY <3>1, <3>2
  <2> QED
    BY <2>2, <2>4, <2>5
<1> HIDE DEF a, b, n
<1>6. /\ Len(a \o b) = (p - 1) + (n - p)
      /\ \A i \in 1..((p - 1) + (n - p)) : (a \o b)[i] = IF i <= p - 1 THEN a[i] ELSE b[i - (p - 1)]
  <2>1. /\ Len(a \o b) = Len(a) + Len(b)
        /\ \A i \in 1..(Len(a) + Len(b)) : (a \o b)[i] = IF i <= Len(a) THEN a[i] ELSE b[i - Len(a)]
    BY <1>4, <1>5, ConcatProperties
  <2> QED
    BY <1>4, <1>5, <2>1
<1>7. (p - 1) + (n - p) = n - 1
  BY <1>1
<1>8. ASSUME NEW j \in 1..(p - 1) PROVE (a \o b)[j] = s[j]
  <2>1. j \in 1..((p - 1) + (n - p)) /\ j <= p - 1
    BY <1>1
  <2> QED
    BY <1>4, <1>6, <2>1
<1>9. ASSUME NEW j \in p..(n - 1) PROVE (a \o b)[j] = s[j + 1]
  <2>1. j \in 1..((p - 1) + (n - p)) /\ ~(j <= p - 1) /\ j - (p - 1) \in 1..(n - p) /\ p + (j - (p - 1)) = j + 1
    BY <1>1
  <2>2. (a \o b)[j] = b[j - (p - 1)]
    BY <1>6, <2>1
  <2>3. b[j - (p - 1)] = s[p + (j - (p - 1))]
    BY <1>5, <2>1
  <2> QED
    BY <2>1, <2>2, <2>3
<1> QED
  BY <1>3, <1>6, <1>7, <1>8, <1>9 DEF n
-----------------------------------------------------------------------------
(* What a batch does to the children of one node. *)

RowStates == {x \in [kids : Seq(PageIds), ok : BOOLEAN] : Distinct(x.kids)}

\* What a patch does to the children of id, if only those patches touch them that are
\* about id itself or about the removal of a child that id has in the tree O; it is ok
\* if a child is placed before another one of id.
RowStep(O, id, clears, x, p) ==
  CASE p.kind = "create" -> IF p.target = id THEN [kids |-> <<>>, ok |-> x.ok] ELSE x
    [] p.kind = "text" -> IF p.target = id /\ clears THEN [kids |-> <<>>, ok |-> x.ok] ELSE x
    [] p.kind = "remove" ->
         IF p.target \in KidsOf(O, id) THEN [kids |-> Cut(x.kids, p.target), ok |-> x.ok] ELSE x
    [] p.kind = "place" ->
         IF p.target # id THEN x
         ELSE IF p.before \in ToSet(x.kids) \cup {NoNode}
         THEN [kids |-> Moved(Cut(x.kids, p.child), p.child, p.before), ok |-> x.ok]
         ELSE [kids |-> x.kids, ok |-> FALSE]

RowAfter(O, id, clears, x, list) ==
  LET row[i \in 0..Len(list)] ==
        IF i = 0 THEN x ELSE RowStep(O, id, clears, row[i - 1], list[i])
  IN  row[Len(list)]

LEMMA RowStateFacts ==
  ASSUME NEW x \in RowStates
  PROVE  /\ x.kids \in Seq(PageIds) /\ x.ok \in BOOLEAN /\ Distinct(x.kids)
         /\ x = [kids |-> x.kids, ok |-> x.ok]
BY DEF RowStates

LEMMA RowStateIs ==
  ASSUME NEW s \in Seq(PageIds), Distinct(s), NEW ok \in BOOLEAN
  PROVE  /\ [kids |-> s, ok |-> ok] \in RowStates
         /\ [kids |-> s, ok |-> ok].kids = s /\ [kids |-> s, ok |-> ok].ok = ok
BY DEF RowStates

\* The step s to the children of id, when p places a child there.
PlacedStep(s, x, p) ==
  /\ s = [kids |-> Moved(Cut(x.kids, p.child), p.child, p.before), ok |-> x.ok]
  /\ Moved(Cut(x.kids, p.child), p.child, p.before) = Moved(x.kids, p.child, p.before)
  /\ Moved(Cut(x.kids, p.child), p.child, p.before) \in Seq(PageIds)
  /\ Distinct(Moved(Cut(x.kids, p.child), p.child, p.before))
  /\ ToSet(Moved(Cut(x.kids, p.child), p.child, p.before)) = ToSet(x.kids) \cup {p.child}

LEMMA RowPlaced ==
  ASSUME NEW O, NEW id, NEW clears, NEW x \in RowStates, NEW p \in PagePatches,
         p.kind = "place", p.target = id, p.before \in ToSet(x.kids) \cup {NoNode}
  PROVE  PlacedStep(RowStep(O, id, clears, x, p), x, p)
PROOF
<1> DEFINE c == p.child
           b == p.before
           s == x.kids
           r == Cut(s, c)
<1>1. c \in PageIds /\ b # c /\ b \in ToSet(s) \cup {NoNode}
  BY DEF PagePatches
<1>2. RowStep(O, id, clears, x, p) = [kids |-> Moved(Cut(x.kids, p.child), p.child, p.before), ok |-> x.ok]
  BY DEF RowStep
<1>3. s \in Seq(PageIds) /\ Distinct(s)
  BY RowStateFacts
<1> HIDE DEF s
<1>4. r \in Seq(PageIds) /\ Distinct(r) /\ ToSet(r) = ToSet(s) \ {c}
  BY <1>3, CutFacts
<1>5. Cut(r, c) = r
  BY <1>4, CutFacts
<1>6. Moved(r, c, b) = Moved(s, c, b)
  BY <1>5 DEF Moved
<1> HIDE DEF r, c, b
<1>7. /\ Moved(r, c, b) \in Seq(PageIds) /\ Distinct(Moved(r, c, b))
      /\ ToSet(Moved(r, c, b)) = ToSet(r) \cup {c}
  BY <1>1, <1>4, MovedFacts
<1>8. c \in ToSet(s) \cup {c} /\ ToSet(r) \cup {c} = ToSet(s) \cup {c}
  BY <1>4
<1> QED
  BY <1>2, <1>6, <1>7, <1>8 DEF r, s, c, b, PlacedStep

\* A step leaves a row, and never one that is ok again.
LEMMA RowStepTyped ==
  ASSUME NEW O, NEW id, NEW clears, NEW x \in RowStates, NEW p \in PagePatches
  PROVE  RowStep(O, id, clears, x, p) \in RowStates /\ (RowStep(O, id, clears, x, p).ok => x.ok)
PROOF
<1>1. p.kind \in {"create", "text", "remove", "place"}
  BY DEF PagePatches
<1>2. /\ x.kids \in Seq(PageIds) /\ x.ok \in BOOLEAN /\ Distinct(x.kids)
      /\ x = [kids |-> x.kids, ok |-> x.ok]
  BY RowStateFacts
<1>3. <<>> \in Seq(PageIds) /\ Distinct(<<>>)
  BY DEF Distinct
<1> DEFINE e == <<>>
           o == x.ok
<1>4. [kids |-> e, ok |-> o] \in RowStates /\ [kids |-> e, ok |-> o].ok = o
  BY <1>2, <1>3, RowStateIs
<1> HIDE DEF e, o
<1>5. CASE p.kind = "create"
  <2>1. RowStep(O, id, clears, x, p) = IF p.target = id THEN [kids |-> e, ok |-> o] ELSE x
    BY <1>5 DEF RowStep, e, o
  <2> QED
    BY <1>4, <2>1 DEF o
<1>6. CASE p.kind = "text"
  <2>1. RowStep(O, id, clears, x, p) = IF p.target = id /\ clears THEN [kids |-> e, ok |-> o] ELSE x
    BY <1>6 DEF RowStep, e, o
  <2> QED
    BY <1>4, <2>1 DEF o
<1>7. CASE p.kind = "remove"
  <2> DEFINE r == Cut(x.kids, p.target)
  <2>1. r \in Seq(PageIds) /\ Distinct(r)
    BY <1>2, CutFacts
  <2>2. RowStep(O, id, clears, x, p) = IF p.target \in KidsOf(O, id) THEN [kids |-> r, ok |-> o] ELSE x
    BY <1>7 DEF RowStep, o
  <2> HIDE DEF r
  <2>3. [kids |-> r, ok |-> o] \in RowStates /\ [kids |-> r, ok |-> o].ok = o
    BY <1>2, <2>1, RowStateIs DEF o
  <2> QED
    BY <2>2, <2>3 DEF o
<1>8. CASE p.kind = "place"
  <2>1. CASE p.target # id
    BY <1>8, <2>1 DEF RowStep
  <2>2. CASE p.target = id /\ p.before \in ToSet(x.kids) \cup {NoNode}
    <3> DEFINE r == Moved(Cut(x.kids, p.child), p.child, p.before)
    <3>1. /\ RowStep(O, id, clears, x, p) =
               [kids |-> Moved(Cut(x.kids, p.child), p.child, p.before), ok |-> x.ok]
          /\ Moved(Cut(x.kids, p.child), p.child, p.before) = Moved(x.kids, p.child, p.before)
          /\ Moved(Cut(x.kids, p.child), p.child, p.before) \in Seq(PageIds)
          /\ Distinct(Moved(Cut(x.kids, p.child), p.child, p.before))
          /\ ToSet(Moved(Cut(x.kids, p.child), p.child, p.before)) = ToSet(x.kids) \cup {p.child}
      <4>1. PlacedStep(RowStep(O, id, clears, x, p), x, p)
        BY <1>8, <2>2, RowPlaced
      <4> HIDE DEF r, o, e
      <4> QED
        BY <4>1 DEF PlacedStep
    <3> HIDE DEF r
    <3>2. [kids |-> r, ok |-> o] \in RowStates /\ [kids |-> r, ok |-> o].ok = o
      <4>1. r \in Seq(PageIds) /\ Distinct(r) /\ o \in BOOLEAN
        BY <1>2, <3>1 DEF r, o
      <4> QED
        BY <4>1, RowStateIs
    <3>3. RowStep(O, id, clears, x, p) = [kids |-> r, ok |-> o]
      BY <3>1 DEF r, o
    <3> QED
      BY <3>2, <3>3 DEF o
  <2>3. CASE p.target = id /\ p.before \notin ToSet(x.kids) \cup {NoNode}
    <3> DEFINE r == x.kids
               f == FALSE
    <3>1. RowStep(O, id, clears, x, p) = [kids |-> r, ok |-> f]
      BY <1>8, <2>3 DEF RowStep
    <3>2. [kids |-> r, ok |-> f] \in RowStates /\ [kids |-> r, ok |-> f].ok = f
      <4>1. r \in Seq(PageIds) /\ Distinct(r) /\ f \in BOOLEAN
        BY <1>2
      <4> HIDE DEF r, f
      <4> QED
        BY <4>1, RowStateIs
    <3> HIDE DEF r
    <3>3. RowStep(O, id, clears, x, p).ok = f
      BY <3>1, <3>2
    <3> QED
      BY <3>1, <3>2, <3>3
  <2> QED
    BY <2>1, <2>2, <2>3
<1> QED
  BY <1>1, <1>5, <1>6, <1>7, <1>8

\* f has the children of id, patch by patch.
RowRun(f, O, id, clears, x, list) ==
  /\ f \in [0..Len(list) -> RowStates] /\ f[0] = x
  /\ \A i \in 1..Len(list) : f[i] = RowStep(O, id, clears, f[i - 1], list[i])
  /\ RowAfter(O, id, clears, x, list) = f[Len(list)]

\* RowAfter goes through the patches.
LEMMA RowRuns ==
  ASSUME NEW O, NEW id, NEW clears, NEW x \in RowStates, NEW list \in Seq(PagePatches)
  PROVE  \E f : RowRun(f, O, id, clears, x, list)
PROOF
<1> DEFINE N == Len(list)
           step == [i \in 1..N |-> [y \in RowStates |-> RowStep(O, id, clears, y, list[i])]]
           row[i \in 0..N] == IF i = 0 THEN x ELSE RowStep(O, id, clears, row[i - 1], list[i])
<1>1. N \in Nat /\ \A i \in 1..N : list[i] \in PagePatches
  OBVIOUS
<1>2. RowAfter(O, id, clears, x, list) = row[N]
  BY DEF RowAfter
<1>3. \A i \in 1..N : \A y \in RowStates :
        step[i][y] \in RowStates /\ step[i][y] = RowStep(O, id, clears, y, list[i])
  BY <1>1, RowStepTyped
<1> HIDE DEF N, step
<1>5. PICK f : /\ f \in [0..N -> RowStates] /\ f[0] = x
               /\ \A i \in 1..N : f[i] = step[i][f[i - 1]]
  <2>1. \A i \in 1..N : \A y \in RowStates : step[i][y] \in RowStates
    BY <1>3
  <2>2. \E f : Iteration(f, RowStates, x, step, N)
    BY <1>1, <2>1, Iterated
  <2> QED
    BY <2>2 DEF Iteration
<1>6. \A i \in 1..N : f[i] = RowStep(O, id, clears, f[i - 1], list[i])
  <2> SUFFICES ASSUME NEW i \in 1..N PROVE f[i] = RowStep(O, id, clears, f[i - 1], list[i])
    OBVIOUS
  <2>1. i - 1 \in 0..N
    BY <1>1
  <2> QED
    BY <1>3, <1>5, <2>1
<1>7. f = [i \in 0..N |-> IF i = 0 THEN x ELSE RowStep(O, id, clears, f[i - 1], list[i])]
  <2>1. \A i \in 0..N : i = 0 \/ i \in 1..N
    BY <1>1
  <2> QED
    BY <1>5, <1>6, <2>1
<1>8. row = [i \in 0..N |-> IF i = 0 THEN x ELSE RowStep(O, id, clears, row[i - 1], list[i])]
  <2> DEFINE E(g) == [i \in 0..N |-> IF i = 0 THEN x ELSE RowStep(O, id, clears, g[i - 1], list[i])]
  <2>1. \E g : g = E(g)
    BY <1>7
  <2> QED
    BY <2>1
<1> HIDE DEF row
<1>9. \A i \in 0..N : row[i] = f[i]
  <2> DEFINE T == {i \in 0..N : row[i] = f[i]}
  <2>1. 0 \in T
    BY <1>1, <1>5, <1>8
  <2>2. ASSUME NEW m \in 1..N, m - 1 \in T PROVE m \in T
    <3>1. m \in 0..N /\ m # 0
      BY <1>1
    <3>2. row[m] = RowStep(O, id, clears, row[m - 1], list[m])
      BY <1>8, <3>1
    <3>3. row[m - 1] = f[m - 1]
      BY <2>2
    <3> QED
      BY <1>6, <3>1, <3>2, <3>3
  <2> HIDE DEF T
  <2>3. \A m \in 0..N : m \in T
    BY <1>1, <2>1, <2>2, NumbersUpTo
  <2> QED
    BY <2>3 DEF T
<1>10. N \in 0..N
  BY <1>1
<1> QED
  BY <1>2, <1>5, <1>6, <1>9, <1>10 DEF N, RowRun

\* What a list and one more patch do to a row.
LEMMA RowBuilt ==
  ASSUME NEW O, NEW id, NEW clears, NEW x \in RowStates, NEW list \in Seq(PagePatches),
         NEW p \in PagePatches
  PROVE  /\ RowAfter(O, id, clears, x, <<>>) = x
         /\ RowAfter(O, id, clears, x, list) \in RowStates
         /\ RowAfter(O, id, clears, x, Append(list, p)) =
              RowStep(O, id, clears, RowAfter(O, id, clears, x, list), p)
PROOF
<1> DEFINE t == Append(list, p)
           N == Len(list)
<1>1. RowAfter(O, id, clears, x, <<>>) = x
  <2>1. <<>> \in Seq(PagePatches) /\ Len(<<>>) = 0
    OBVIOUS
  <2>2. PICK f : RowRun(f, O, id, clears, x, <<>>)
    BY <2>1, RowRuns
  <2> QED
    BY <2>1, <2>2 DEF RowRun
<1>2. /\ t \in Seq(PagePatches) /\ Len(t) = N + 1 /\ t[N + 1] = p /\ N \in Nat
      /\ \A i \in 1..N : t[i] = list[i]
  OBVIOUS
<1>3. PICK f : RowRun(f, O, id, clears, x, list)
  BY RowRuns
<1>4. /\ f \in [0..N -> RowStates] /\ f[0] = x
      /\ \A i \in 1..N : f[i] = RowStep(O, id, clears, f[i - 1], list[i])
      /\ RowAfter(O, id, clears, x, list) = f[N]
  BY <1>3 DEF RowRun
<1> HIDE DEF t, N
<1>5. PICK g : RowRun(g, O, id, clears, x, t)
  BY <1>2, RowRuns
<1>6. /\ g \in [0..(N + 1) -> RowStates] /\ g[0] = x
      /\ \A i \in 1..(N + 1) : g[i] = RowStep(O, id, clears, g[i - 1], t[i])
      /\ RowAfter(O, id, clears, x, t) = g[N + 1]
  BY <1>2, <1>5 DEF RowRun
<1>7. \A i \in 0..N : f[i] = g[i]
  <2> DEFINE T == {i \in 0..N : f[i] = g[i]}
  <2>1. 0 \in T
    BY <1>2, <1>4, <1>6
  <2>2. ASSUME NEW m \in 1..N, m - 1 \in T PROVE m \in T
    <3>1. m \in 0..N /\ m \in 1..(N + 1) /\ f[m - 1] = g[m - 1] /\ t[m] = list[m]
      BY <1>2, <2>2
    <3>2. f[m] = RowStep(O, id, clears, f[m - 1], list[m]) /\ g[m] = RowStep(O, id, clears, g[m - 1], t[m])
      BY <1>4, <1>6, <3>1
    <3> QED
      BY <3>1, <3>2
  <2> HIDE DEF T
  <2>3. \A m \in 0..N : m \in T
    BY <1>2, <2>1, <2>2, NumbersUpTo
  <2> QED
    BY <2>3 DEF T
<1>8. N + 1 \in 1..(N + 1) /\ (N + 1) - 1 = N /\ N \in 0..N
  BY <1>2
<1>9. g[N + 1] = RowStep(O, id, clears, g[N], p)
  BY <1>2, <1>6, <1>8
<1>10. f[N] = g[N] /\ f[N] \in RowStates
  BY <1>4, <1>7, <1>8
<1> QED
  BY <1>1, <1>4, <1>6, <1>9, <1>10 DEF t, N

LEMMA RowAppend ==
  ASSUME NEW O, NEW id, NEW clears, NEW x \in RowStates, NEW list \in Seq(PagePatches),
         NEW p \in PagePatches
  PROVE  RowAfter(O, id, clears, x, Append(list, p)) =
           RowStep(O, id, clears, RowAfter(O, id, clears, x, list), p)
PROOF
<1>1. /\ RowAfter(O, id, clears, x, <<>>) = x
      /\ RowAfter(O, id, clears, x, list) \in RowStates
      /\ RowAfter(O, id, clears, x, Append(list, p)) =
           RowStep(O, id, clears, RowAfter(O, id, clears, x, list), p)
  BY RowBuilt
<1> QED
  BY <1>1

LEMMA RowOfNothing ==
  ASSUME NEW O, NEW id, NEW clears, NEW x \in RowStates
  PROVE  RowAfter(O, id, clears, x, <<>>) = x
PROOF
<1>1. <<>> \in Seq(PagePatches) /\ Len(<<>>) = 0
  OBVIOUS
<1>2. PICK f : RowRun(f, O, id, clears, x, <<>>)
  BY <1>1, RowRuns
<1> QED
  BY <1>1, <1>2 DEF RowRun

\* The p-th element is moved before the q-th, or to the end.
LEMMA MovedTo ==
  ASSUME NEW s \in Seq(PageIds), Distinct(s), NEW p \in 1..Len(s), NEW q \in (p + 1)..(Len(s) + 1),
         NEW before, before = IF q = Len(s) + 1 THEN NoNode ELSE s[q]
  PROVE  /\ Len(Moved(s, s[p], before)) = Len(s)
         /\ Moved(s, s[p], before)[q - 1] = s[p]
         /\ \A j \in q..Len(s) : Moved(s, s[p], before)[j] = s[j]
PROOF
<1> DEFINE n == Len(s)
           id == s[p]
           rest == Cut(s, id)
<1>1. n \in Nat /\ p \in 1..n /\ q \in (p + 1)..(n + 1) /\ DOMAIN s = 1..n /\ id \in PageIds
  OBVIOUS
<1>2. /\ Len(rest) = n - 1
      /\ \A j \in p..(n - 1) : rest[j] = s[j + 1]
  BY CutPlaces
<1>3. rest \in Seq(PageIds) /\ Distinct(rest)
  BY CutFacts
<1>4. CASE q = n + 1
  <2>1. Moved(s, id, before) = Append(rest, id)
    BY <1>4 DEF Moved
  <2> HIDE DEF rest, id
  <2>2. Len(Append(rest, id)) = n /\ Append(rest, id)[n] = id
    <3>1. rest \in Seq(PageIds) /\ id \in PageIds /\ Len(rest) = n - 1 /\ n \in Nat
      BY <1>1, <1>2, <1>3
    <3> HIDE DEF n
    <3>2. Len(Append(rest, id)) = Len(rest) + 1 /\ Append(rest, id)[Len(rest) + 1] = id
      BY <3>1
    <3>3. Len(rest) + 1 = n
      BY <3>1
    <3> QED
      BY <3>2, <3>3
  <2>3. \A j \in q..n : FALSE
    BY <1>1, <1>4
  <2>4. q - 1 = n
    BY <1>1, <1>4
  <2> QED
    BY <2>1, <2>2, <2>3, <2>4 DEF id
<1>5. CASE q # n + 1
  <2>1. q \in 1..n /\ q - 1 \in p..(n - 1) /\ (q - 1) + 1 = q /\ before = s[q]
    BY <1>1, <1>5
  <2>2. before # NoNode
    <3>1. s[q] \in PageIds
      BY <2>1
    <3> QED
      BY <2>1, <3>1, PageAssumption
  <2>3. Moved(s, id, before) = InsertAt(rest, IndexOf(rest, before), id)
    BY <2>2 DEF Moved
  <2> HIDE DEF rest, id
  <2>4. rest[q - 1] = before /\ q - 1 \in DOMAIN rest
    BY <1>1, <1>2, <1>3, <2>1
  <2>5. IndexOf(rest, before) = q - 1
    BY <1>3, <2>4, IndexFacts
  <2> DEFINE i == q - 1
             t == InsertAt(rest, i, id)
  <2>6. i \in 1..(Len(rest) + 1) /\ id \in PageIds
    BY <1>1, <1>2, <2>1
  <2> HIDE DEF i
  <2>7. /\ InsertAt(rest, i, id) \in Seq(PageIds) /\ Len(InsertAt(rest, i, id)) = Len(rest) + 1
        /\ \A j \in 1..(i - 1) : InsertAt(rest, i, id)[j] = rest[j]
        /\ InsertAt(rest, i, id)[i] = id
        /\ \A j \in i..Len(rest) : InsertAt(rest, i, id)[j + 1] = rest[j]
    BY <1>3, <2>6, Inserted
  <2>8. Moved(s, id, before) = t
    BY <2>3, <2>5 DEF i
  <2> HIDE DEF t
  <2>9. Len(t) = n
    BY <1>1, <1>2, <2>7 DEF t
  <2>10. ASSUME NEW j \in q..n PROVE t[j] = s[j]
    <3>1. j - 1 \in i..Len(rest) /\ (j - 1) + 1 = j /\ j - 1 \in p..(n - 1)
      BY <1>1, <1>2, <2>1 DEF i
    <3>2. t[(j - 1) + 1] = rest[j - 1]
      BY <2>7, <3>1 DEF t
    <3>3. rest[j - 1] = s[(j - 1) + 1]
      BY <1>2, <3>1
    <3> QED
      BY <3>1, <3>2, <3>3
  <2> QED
    BY <2>7, <2>8, <2>9, <2>10 DEF t, i, id
<1> QED
  BY <1>4, <1>5

\* Patches that place children of the parent.
PlacesIn(list, parent, desired) ==
  \A p \in ToSet(list) :
    /\ p.kind = "place" /\ p.target = parent
    /\ p.child \in ToSet(desired) /\ p.before \in ToSet(desired) \cup {NoNode}

TurnStates(parent, desired) ==
  {t \in [order : Seq(PageIds), patches : Seq(PagePatches)] :
     Distinct(t.order) /\ ToSet(t.order) = ToSet(desired) /\ PlacesIn(t.patches, parent, desired)}

\* The last i children are in their order.
InPlaceFrom(order, desired, i) ==
  \A j \in 1..Len(desired) : j > Len(desired) - i => order[j] = desired[j]

PageNodes == PageIds \cup {HostRoot}

LEMMA PlaceIsPatch ==
  ASSUME NEW parent \in PageNodes, NEW id \in PageIds, NEW before \in PageIds \cup {NoNode}, before # id
  PROVE  \E p \in PagePatches :
           /\ PlacePatch(parent, id, before) = <<p>>
           /\ p.kind = "place" /\ p.target = parent /\ p.child = id /\ p.before = before
PROOF
<1> DEFINE p == [kind |-> "place", target |-> parent, child |-> id, before |-> before]
<1>1. p \in PagePatches
  BY DEF PagePatches, PageNodes
<1>2. PlacePatch(parent, id, before) = <<p>>
  BY DEF PlacePatch
<1>3. p.kind = "place" /\ p.target = parent /\ p.child = id /\ p.before = before
  OBVIOUS
<1> HIDE DEF p
<1> QED
  BY <1>1, <1>2, <1>3

LEMMA TurnStateFacts ==
  ASSUME NEW parent, NEW desired, NEW t \in TurnStates(parent, desired)
  PROVE  /\ t.order \in Seq(PageIds) /\ Distinct(t.order) /\ ToSet(t.order) = ToSet(desired)
         /\ t.patches \in Seq(PagePatches) /\ PlacesIn(t.patches, parent, desired)
BY DEF TurnStates

LEMMA TurnStateIs ==
  ASSUME NEW parent, NEW desired, NEW s \in Seq(PageIds), Distinct(s), ToSet(s) = ToSet(desired),
         NEW list \in Seq(PagePatches), PlacesIn(list, parent, desired)
  PROVE  /\ [order |-> s, patches |-> list] \in TurnStates(parent, desired)
         /\ [order |-> s, patches |-> list].order = s /\ [order |-> s, patches |-> list].patches = list
BY DEF TurnStates

\* What a turn from t to u does, also to the children of the parent.
TurnDone(O, parent, clears, desired, i, t, u) ==
  /\ u \in TurnStates(parent, desired)
  /\ InPlaceFrom(t.order, desired, i - 1) => InPlaceFrom(u.order, desired, i)
  /\ \A x \in RowStates :
       RowAfter(O, parent, clears, x, t.patches) = [kids |-> t.order, ok |-> TRUE]
         => RowAfter(O, parent, clears, x, u.patches) = [kids |-> u.order, ok |-> TRUE]

\* The child that the turn is about stands before its successor already.
LEMMA TurnCorrect ==
  ASSUME NEW parent \in PageNodes, NEW desired \in Seq(PageIds), Distinct(desired),
         NEW i \in 1..Len(desired), NEW t \in TurnStates(parent, desired),
         InPlaceFrom(t.order, desired, i - 1), Len(t.order) = Len(desired)
  PROVE  LET id == desired[Len(desired) + 1 - i]
             before == desired[Len(desired) + 2 - i]
             correct == IF i = 1 THEN IndexOf(t.order, id) = Len(t.order)
                        ELSE IndexOf(t.order, id) + 1 = IndexOf(t.order, before)
         IN  correct => InPlaceFrom(t.order, desired, i)
PROOF
<1> DEFINE n == Len(desired)
           a == n + 1 - i
           s == t.order
           id == desired[a]
<1>1. n \in Nat /\ a \in 1..n /\ DOMAIN desired = 1..n /\ id \in ToSet(s) /\ s \in Seq(PageIds) /\ Distinct(s)
  <2>1. n \in Nat /\ a \in 1..n /\ DOMAIN desired = 1..n
    OBVIOUS
  <2>2. id \in ToSet(desired)
    BY <2>1 DEF ToSet
  <2> QED
    BY <2>1, <2>2, TurnStateFacts
<1>2. PICK p \in DOMAIN s : s[p] = id
  BY <1>1 DEF ToSet
<1>3. IndexOf(s, id) = p
  <2> HIDE DEF s, id
  <2> QED
    BY <1>1, <1>2, IndexFacts
<1>4. ASSUME i = 1, IndexOf(s, id) = Len(s) PROVE s[a] = id
  BY <1>1, <1>2, <1>3, <1>4
<1>5. ASSUME i # 1, IndexOf(s, id) + 1 = IndexOf(s, desired[n + 2 - i]) PROVE s[a] = id
  <2>1. n + 2 - i \in 1..n /\ n + 2 - i > n - (i - 1) /\ DOMAIN s = 1..n
    BY <1>1, <1>5
  <2>2. s[n + 2 - i] = desired[n + 2 - i]
    BY <2>1 DEF InPlaceFrom
  <2>3. n + 2 - i \in DOMAIN s
    BY <2>1
  <2> DEFINE q == n + 2 - i
  <2> HIDE DEF s, q
  <2>4. IndexOf(s, s[q]) = q
    BY <1>1, <2>3, IndexFacts DEF q
  <2>5. IndexOf(s, s[p]) + 1 = q
    BY <1>2, <1>5, <2>2, <2>4 DEF q
  <2>6. p + 1 = q
    BY <1>2, <1>3, <2>5
  <2>7. p = a
    BY <1>1, <1>2, <2>1, <2>6 DEF q
  <2> QED
    BY <1>2, <2>7
<1>6. ASSUME s[a] = id PROVE InPlaceFrom(s, desired, i)
  <2> SUFFICES ASSUME NEW j \in 1..n, j > n - i PROVE s[j] = desired[j]
    BY DEF InPlaceFrom
  <2>1. j = a \/ j > n - (i - 1)
    BY <1>1
  <2> QED
    BY <1>6, <2>1 DEF InPlaceFrom
<1> QED
  BY <1>4, <1>5, <1>6

\* The child is moved there.
LEMMA TurnMoved ==
  ASSUME NEW desired \in Seq(PageIds), Distinct(desired), NEW i \in 1..Len(desired),
         NEW s \in Seq(PageIds), Distinct(s), ToSet(s) = ToSet(desired), InPlaceFrom(s, desired, i - 1),
         NEW before, before = IF i = 1 THEN NoNode ELSE desired[Len(desired) + 2 - i]
  PROVE  InPlaceFrom(Moved(s, desired[Len(desired) + 1 - i], before), desired, i)
PROOF
<1> DEFINE n == Len(desired)
           a == n + 1 - i
           q == n + 2 - i
           id == desired[a]
           m == Moved(s, id, before)
<1>1. n \in Nat /\ a \in 1..n /\ DOMAIN desired = 1..n /\ q = a + 1 /\ (i # 1 => q \in 1..n)
  OBVIOUS
<1>2. Len(s) = n /\ DOMAIN s = 1..n
  BY SameLength
<1>3. PICK p \in 1..n : s[p] = id
  BY <1>1, <1>2 DEF ToSet
<1>4. p <= a
  <2> SUFFICES ASSUME p > a PROVE FALSE
    BY <1>1, <1>3
  <2>1. p > n - (i - 1) /\ p # a
    BY <1>1, <1>3
  <2>2. s[p] = desired[p]
    BY <2>1 DEF InPlaceFrom
  <2> QED
    BY <1>1, <1>3, <2>1, <2>2 DEF Distinct
<1>5. q \in (p + 1)..(Len(s) + 1)
  BY <1>1, <1>2, <1>3, <1>4
<1>6. before = IF q = Len(s) + 1 THEN NoNode ELSE s[q]
  <2>1. CASE i = 1
    BY <1>1, <1>2, <2>1
  <2>2. CASE i # 1
    <3>1. q # Len(s) + 1 /\ q \in 1..n /\ q > n - (i - 1)
      BY <1>1, <1>2, <2>2
    <3>2. s[q] = desired[q]
      BY <3>1 DEF InPlaceFrom
    <3> QED
      BY <2>2, <3>1, <3>2
  <2> QED
    BY <2>1, <2>2
<1>7. p \in 1..Len(s)
  BY <1>2
<1> HIDE DEF q, id, a
<1>8. /\ Len(Moved(s, s[p], before)) = Len(s)
      /\ Moved(s, s[p], before)[q - 1] = s[p]
      /\ \A j \in q..Len(s) : Moved(s, s[p], before)[j] = s[j]
  BY <1>5, <1>6, <1>7, MovedTo
<1>9. m[a] = id /\ \A j \in q..n : m[j] = s[j]
  <2>1. q - 1 = a
    BY <1>1
  <2> QED
    BY <1>2, <1>3, <1>8, <2>1
<1> HIDE DEF m
<1>10. ASSUME NEW j \in 1..n, j > n - i
       PROVE  m[j] = desired[j]
  <2>1. j = a \/ (j \in q..n /\ j > n - (i - 1))
    <3>1. n \in Nat /\ i \in 1..n /\ j \in 1..n /\ j > n - i
      BY <1>1, <1>10
    <3> HIDE DEF n
    <3> QED
      BY <3>1 DEF a, q
  <2>2. CASE j = a
    BY <1>9, <2>2 DEF id
  <2>3. CASE j \in q..n /\ j > n - (i - 1)
    BY <1>9, <2>3 DEF InPlaceFrom
  <2> QED
    BY <2>1, <2>2, <2>3
<1> QED
  BY <1>10 DEF InPlaceFrom, m, id, a

\* Every turn brings one more child to its place.
LEMMA TurnStep ==
  ASSUME NEW O, NEW clears, NEW parent \in PageNodes, NEW desired \in Seq(PageIds), Distinct(desired),
         NEW i \in 1..Len(desired), NEW t \in TurnStates(parent, desired)
  PROVE  TurnDone(O, parent, clears, desired, i, t, Turn(parent, desired, i, t))
PROOF
<1> DEFINE n == Len(desired)
           s == t.order
           u == Turn(parent, desired, i, t)
           id == desired[n + 1 - i]
           before == IF i = 1 THEN NoNode ELSE desired[n + 2 - i]
           correct == IF i = 1 THEN IndexOf(s, id) = Len(s) ELSE IndexOf(s, id) + 1 = IndexOf(s, before)
<1>1. /\ t.order \in Seq(PageIds) /\ Distinct(t.order) /\ ToSet(t.order) = ToSet(desired)
      /\ t.patches \in Seq(PagePatches) /\ PlacesIn(t.patches, parent, desired)
  BY TurnStateFacts
<1>2. Len(s) = n
  BY <1>1, SameLength
<1>3. n + 1 - i \in 1..n /\ (i # 1 => n + 2 - i \in 1..n) /\ DOMAIN desired = 1..n
  OBVIOUS
<1>4. id \in ToSet(desired) /\ (i # 1 => before \in ToSet(desired))
  BY <1>3 DEF ToSet
<1>5. CASE correct
  <2>1. u = t
    BY <1>5 DEF Turn
  <2>2. InPlaceFrom(s, desired, i - 1) => InPlaceFrom(s, desired, i)
    BY <1>2, <1>5, TurnCorrect
  <2> HIDE DEF u
  <2> QED
    BY <2>1, <2>2 DEF TurnDone, u
<1>6. CASE ~correct
  <2>1. PICK p \in PagePatches :
          /\ PlacePatch(parent, id, before) = <<p>>
          /\ p.kind = "place" /\ p.target = parent /\ p.child = id /\ p.before = before
    <3>1. id \in PageIds /\ before \in PageIds \cup {NoNode} /\ before # id
      <4>1. NoNode \notin PageIds /\ id \in PageIds
        BY <1>3, PageAssumption
      <4>2. CASE i = 1
        BY <4>1, <4>2
      <4>3. CASE i # 1
        <5>1. before = desired[n + 2 - i] /\ n + 2 - i # n + 1 - i
          BY <4>3
        <5> QED
          BY <1>3, <4>1, <4>3, <5>1 DEF Distinct
      <4> QED
        BY <4>2, <4>3
    <3> HIDE DEF id, before
    <3> QED
      BY <3>1, PlaceIsPatch
  <2>2. u = [order |-> Moved(s, id, before), patches |-> t.patches \o PlacePatch(parent, id, before)]
    BY <1>6 DEF Turn
  <2>3. t.patches \o PlacePatch(parent, id, before) = Append(t.patches, p)
    <3> DEFINE l == t.patches
    <3>1. l \in Seq(PagePatches)
      BY <1>1
    <3> HIDE DEF l
    <3>2. l \o <<p>> = Append(l, p)
      BY <3>1
    <3> QED
      BY <2>1, <3>2 DEF l
  <2> DEFINE m == Moved(s, id, before)
             list == Append(t.patches, p)
  <2>4. /\ m \in Seq(PageIds) /\ Distinct(m) /\ ToSet(m) = ToSet(s) \cup {id}
    <3>1. before = NoNode \/ (before \in ToSet(s) /\ before # id)
      BY <1>1, <1>4, <2>1 DEF PagePatches
    <3>2. id \in PageIds
      BY <1>3
    <3> HIDE DEF id, before, s
    <3> QED
      BY <1>1, <3>1, <3>2, MovedFacts DEF s
  <2>5. ToSet(m) = ToSet(desired)
    BY <1>1, <1>4, <2>4
  <2>6. list \in Seq(PagePatches) /\ PlacesIn(list, parent, desired)
    <3>1. list \in Seq(PagePatches) /\ ToSet(list) = ToSet(t.patches) \cup {p}
      BY <1>1, SetOfAppend
    <3> HIDE DEF list
    <3> QED
      BY <1>1, <1>4, <2>1, <3>1 DEF PlacesIn
  <2>7. InPlaceFrom(s, desired, i - 1) => InPlaceFrom(m, desired, i)
    <3> HIDE DEF m
    <3> QED
      BY <1>1, TurnMoved DEF m
  <2>8. ASSUME NEW x \in RowStates,
               RowAfter(O, parent, clears, x, t.patches) = [kids |-> s, ok |-> TRUE]
        PROVE  RowAfter(O, parent, clears, x, list) = [kids |-> m, ok |-> TRUE]
    <3> DEFINE y == [kids |-> s, ok |-> TRUE]
    <3>1. RowAfter(O, parent, clears, x, list) = RowStep(O, parent, clears, y, p)
      BY <1>1, <2>8, RowAppend
    <3>2. y \in RowStates /\ y.kids = s /\ y.ok = TRUE
      BY <1>1, RowStateIs
    <3>3. p.before \in ToSet(s) \cup {NoNode}
      BY <1>1, <1>4, <2>1
    <3> HIDE DEF y
    <3>4. PlacedStep(RowStep(O, parent, clears, y, p), y, p)
      BY <2>1, <3>2, <3>3, RowPlaced
    <3>5. RowStep(O, parent, clears, y, p) = [kids |-> Moved(s, p.child, p.before), ok |-> TRUE]
      BY <3>2, <3>4 DEF PlacedStep
    <3> QED
      BY <2>1, <3>1, <3>5
  <2>9. u = [order |-> m, patches |-> list]
    BY <2>2, <2>3
  <2> HIDE DEF m, list, u, s
  <2>10. u \in TurnStates(parent, desired) /\ u.order = m /\ u.patches = list
    BY <2>4, <2>5, <2>6, <2>9, TurnStateIs
  <2> QED
    BY <2>7, <2>8, <2>10 DEF TurnDone, s, u
<1> QED
  BY <1>5, <1>6

\* What the placements list does to the children of the parent.
PlacementsDone(O, parent, clears, order, desired, list) ==
  /\ list \in Seq(PagePatches) /\ PlacesIn(list, parent, desired)
  /\ RowAfter(O, parent, clears, [kids |-> order, ok |-> TRUE], list) = [kids |-> desired, ok |-> TRUE]

\* The placements bring the children into the order that is wanted.
LEMMA PlacementsFacts ==
  ASSUME NEW O, NEW clears, NEW parent \in PageNodes,
         NEW order \in Seq(PageIds), NEW desired \in Seq(PageIds),
         Distinct(order), Distinct(desired), ToSet(order) = ToSet(desired)
  PROVE  PlacementsDone(O, parent, clears, order, desired, Placements(parent, order, desired))
PROOF
<1> DEFINE N == Len(desired)
           V == TurnStates(parent, desired)
           v == [order |-> order, patches |-> <<>>]
           x == [kids |-> order, ok |-> TRUE]
           step == [i \in 1..N |-> [t \in V |-> Turn(parent, desired, i, t)]]
           turn[i \in 0..N] == IF i = 0 THEN v ELSE Turn(parent, desired, i, turn[i - 1])
<1>1. N \in Nat /\ Placements(parent, order, desired) = turn[N].patches
  BY DEF Placements
<1>2. v \in V /\ v.order = order /\ v.patches = <<>>
  <2> DEFINE e == <<>>
  <2>1. e \in Seq(PagePatches) /\ PlacesIn(e, parent, desired)
    BY DEF PlacesIn, ToSet
  <2> HIDE DEF e
  <2>2. /\ [order |-> order, patches |-> e] \in TurnStates(parent, desired)
        /\ [order |-> order, patches |-> e].order = order /\ [order |-> order, patches |-> e].patches = e
    BY <2>1, TurnStateIs
  <2> QED
    BY <2>2 DEF e
<1>3. \A i \in 1..N : \A t \in V :
        TurnDone(O, parent, clears, desired, i, t, Turn(parent, desired, i, t))
  BY TurnStep
<1> HIDE DEF V, v, turn
<1>4. \A i \in 1..N : \A t \in V :
        step[i][t] \in V /\ step[i][t] = Turn(parent, desired, i, t)
  BY <1>3 DEF TurnDone, V
<1> HIDE DEF step, N
<1>5. PICK f : /\ f \in [0..N -> V] /\ f[0] = v
               /\ \A i \in 1..N : f[i] = step[i][f[i - 1]]
  <2>1. \A i \in 1..N : \A t \in V : step[i][t] \in V
    BY <1>4
  <2>2. \E f : Iteration(f, V, v, step, N)
    BY <1>1, <1>2, <2>1, Iterated
  <2> QED
    BY <2>2 DEF Iteration
<1>6. \A i \in 1..N : f[i] = Turn(parent, desired, i, f[i - 1]) /\ f[i - 1] \in V
  <2> SUFFICES ASSUME NEW i \in 1..N
               PROVE f[i] = Turn(parent, desired, i, f[i - 1]) /\ f[i - 1] \in V
    OBVIOUS
  <2>1. i - 1 \in 0..N
    BY <1>1
  <2> QED
    BY <1>4, <1>5, <2>1
<1>7. f = [i \in 0..N |-> IF i = 0 THEN v ELSE Turn(parent, desired, i, f[i - 1])]
  <2>1. \A i \in 0..N : i = 0 \/ i \in 1..N
    BY <1>1
  <2> QED
    BY <1>5, <1>6, <2>1
<1>8. turn = [i \in 0..N |-> IF i = 0 THEN v ELSE Turn(parent, desired, i, turn[i - 1])]
  <2> DEFINE E(g) == [i \in 0..N |-> IF i = 0 THEN v ELSE Turn(parent, desired, i, g[i - 1])]
  <2>1. \E g : g = E(g)
    BY <1>7
  <2> QED
    BY <2>1 DEF turn
<1>9. \A i \in 0..N : turn[i] = f[i]
  <2> DEFINE T == {i \in 0..N : turn[i] = f[i]}
  <2>1. 0 \in T
    BY <1>1, <1>5, <1>8
  <2>2. ASSUME NEW m \in 1..N, m - 1 \in T PROVE m \in T
    <3>1. m \in 0..N /\ m # 0
      BY <1>1
    <3>2. turn[m] = Turn(parent, desired, m, turn[m - 1])
      BY <1>8, <3>1
    <3>3. turn[m - 1] = f[m - 1]
      BY <2>2
    <3> QED
      BY <1>6, <3>1, <3>2, <3>3
  <2> HIDE DEF T
  <2>3. \A m \in 0..N : m \in T
    BY <1>1, <2>1, <2>2, NumbersUpTo
  <2> QED
    BY <2>3 DEF T
<1>10. x \in RowStates
  BY RowStateIs
<1> HIDE DEF x
<1>11. \A i \in 0..N : /\ InPlaceFrom(f[i].order, desired, i)
                       /\ RowAfter(O, parent, clears, x, f[i].patches) = [kids |-> f[i].order, ok |-> TRUE]
  <2> DEFINE T == {i \in 0..N : /\ InPlaceFrom(f[i].order, desired, i)
                                /\ RowAfter(O, parent, clears, x, f[i].patches) =
                                     [kids |-> f[i].order, ok |-> TRUE]}
  <2>1. 0 \in T
    <3>1. InPlaceFrom(order, desired, 0)
      BY <1>1 DEF InPlaceFrom, N
    <3>2. RowAfter(O, parent, clears, x, <<>>) = x
      BY <1>10, RowOfNothing
    <3>3. f[0].order = order /\ f[0].patches = <<>> /\ 0 \in 0..N
      BY <1>1, <1>2, <1>5
    <3>4. RowAfter(O, parent, clears, x, f[0].patches) = [kids |-> f[0].order, ok |-> TRUE]
      BY <3>2, <3>3 DEF x
    <3>5. InPlaceFrom(f[0].order, desired, 0)
      BY <3>1, <3>3
    <3> QED
      BY <3>3, <3>4, <3>5
  <2>2. ASSUME NEW m \in 1..N, m - 1 \in T PROVE m \in T
    <3>1. m \in 0..N
      BY <1>1
    <3>2. TurnDone(O, parent, clears, desired, m, f[m - 1], f[m])
      BY <1>3, <1>6
    <3>3. /\ InPlaceFrom(f[m - 1].order, desired, m - 1)
          /\ RowAfter(O, parent, clears, x, f[m - 1].patches) = [kids |-> f[m - 1].order, ok |-> TRUE]
      BY <2>2
    <3>4. /\ InPlaceFrom(f[m].order, desired, m)
          /\ RowAfter(O, parent, clears, x, f[m].patches) = [kids |-> f[m].order, ok |-> TRUE]
      BY <1>10, <3>2, <3>3 DEF TurnDone
    <3> QED
      BY <3>1, <3>4
  <2> HIDE DEF T
  <2>3. \A m \in 0..N : m \in T
    BY <1>1, <2>1, <2>2, NumbersUpTo
  <2> QED
    BY <2>3 DEF T
<1>12. N \in 0..N /\ f[N] \in TurnStates(parent, desired)
  BY <1>1, <1>5 DEF V
<1>13. /\ f[N].order \in Seq(PageIds) /\ Distinct(f[N].order) /\ ToSet(f[N].order) = ToSet(desired)
       /\ f[N].patches \in Seq(PagePatches) /\ PlacesIn(f[N].patches, parent, desired)
  BY <1>12, TurnStateFacts
<1>14. f[N].order = desired
  <2> DEFINE s == f[N].order
  <2>1. s \in Seq(PageIds) /\ Distinct(s) /\ ToSet(s) = ToSet(desired) /\ InPlaceFrom(s, desired, N)
    BY <1>11, <1>12, <1>13
  <2> HIDE DEF s
  <2>2. Len(s) = N
    BY <2>1, SameLength DEF N
  <2>3. \A j \in 1..N : s[j] = desired[j]
    <3>1. \A j \in 1..N : j > N - N
      BY <1>1
    <3> QED
      BY <2>1, <3>1 DEF InPlaceFrom, N
  <2> QED
    BY <2>1, <2>2, <2>3 DEF s, N
<1> QED
  <2>1. RowAfter(O, parent, clears, x, f[N].patches) = [kids |-> desired, ok |-> TRUE]
    BY <1>11, <1>12, <1>14
  <2>2. Placements(parent, order, desired) = f[N].patches
    BY <1>1, <1>9, <1>12
  <2> QED
    BY <1>13, <2>1, <2>2 DEF PlacementsDone, x
-----------------------------------------------------------------------------
(* What the reconciler emits for a node, from what it emits for its children. *)

LEMMA EmittedNothing ==
  ASSUME NEW of
  PROVE  EmittedBy(<<>>, of) = <<>>
PROOF
<1> DEFINE X == {}
           V == {}
<1>1. <<>> \in Seq(X) /\ ToSet(<<>>) = {} /\ Len(<<>>) = 0
  BY DEF ToSet
<1>2. \A x \in ToSet(<<>>) : of[x] \in Seq(V)
  BY <1>1
<1> HIDE DEF X, V
<1>3. PICK f : Emitting(f, V, <<>>, of)
  BY <1>1, <1>2, EmittingRun
<1> QED
  BY <1>1, <1>3 DEF Emitting

LEMMA EmittedTyped ==
  ASSUME NEW X, NEW list \in Seq(X), NEW V, NEW of, \A x \in ToSet(list) : of[x] \in Seq(V)
  PROVE  EmittedBy(list, of) \in Seq(V)
PROOF
<1>1. PICK f : Emitting(f, V, list, of)
  BY EmittingRun
<1>2. Len(list) \in 0..Len(list)
  OBVIOUS
<1> QED
  BY <1>1, <1>2 DEF Emitting

\* What a patch that is emitted stems from.
LEMMA EmittedFrom ==
  ASSUME NEW X, NEW list \in Seq(X), NEW V, NEW of, \A x \in ToSet(list) : of[x] \in Seq(V),
         NEW p \in ToSet(EmittedBy(list, of))
  PROVE  \E x \in ToSet(list) : p \in ToSet(of[x])
PROOF
<1> DEFINE T == {s \in Seq(X) :
                   (\A x \in ToSet(s) : of[x] \in Seq(V))
                     => \A q \in ToSet(EmittedBy(s, of)) : \E x \in ToSet(s) : q \in ToSet(of[x])}
<1>1. <<>> \in T
  <2>1. EmittedBy(<<>>, of) = <<>> /\ ToSet(<<>>) = {}
    BY EmittedNothing DEF ToSet
  <2> QED
    BY <2>1
<1>2. ASSUME NEW s \in Seq(X), NEW x \in X, s \in T PROVE Append(s, x) \in T
  <2> SUFFICES ASSUME \A k \in ToSet(Append(s, x)) : of[k] \in Seq(V),
                      NEW q \in ToSet(EmittedBy(Append(s, x), of))
               PROVE  \E k \in ToSet(Append(s, x)) : q \in ToSet(of[k])
    BY DEF T
  <2>1. ToSet(Append(s, x)) = ToSet(s) \cup {x}
    BY SetOfAppend
  <2>2. \A k \in ToSet(s) \cup {x} : of[k] \in Seq(V)
    BY <2>1
  <2>3. /\ EmittedBy(<<>>, of) = <<>>
        /\ EmittedBy(s, of) \in Seq(V)
        /\ EmittedBy(Append(s, x), of) = EmittedBy(s, of) \o of[x]
    BY <2>2, EmittedBuilt
  <2>4. ToSet(EmittedBy(s, of) \o of[x]) = ToSet(EmittedBy(s, of)) \cup ToSet(of[x])
    BY <2>2, <2>3, SetOfConcat
  <2>5. CASE q \in ToSet(of[x])
    BY <2>1, <2>5
  <2>6. CASE q \in ToSet(EmittedBy(s, of))
    <3>1. \E k \in ToSet(s) : q \in ToSet(of[k])
      BY <1>2, <2>1, <2>6
    <3> QED
      BY <2>1, <3>1
  <2> QED
    BY <2>3, <2>4, <2>5, <2>6
<1> HIDE DEF T
<1>3. list \in T
  BY <1>1, <1>2, SequencesBuilt
<1> QED
  BY <1>3 DEF T
-----------------------------------------------------------------------------
(* The creation of a tree. *)

LEMMA CreateIsPatch ==
  ASSUME NEW id \in PageIds, NEW tag \in Words
  PROVE  \E p \in PagePatches :
           CreatePatch(id, tag) = <<p>> /\ p.kind = "create" /\ p.target = id /\ p.tag = tag
PROOF
<1> DEFINE p == [kind |-> "create", target |-> id, tag |-> tag]
<1>1. p \in PagePatches
  BY DEF PagePatches
<1>2. CreatePatch(id, tag) = <<p>>
  BY DEF CreatePatch
<1>3. p.kind = "create" /\ p.target = id /\ p.tag = tag
  OBVIOUS
<1> HIDE DEF p
<1> QED
  BY <1>1, <1>2, <1>3

LEMMA TextIsPatch ==
  ASSUME NEW id \in PageIds, NEW text \in Words
  PROVE  \E p \in PagePatches :
           TextPatch(id, text) = <<p>> /\ p.kind = "text" /\ p.target = id /\ p.text = text
PROOF
<1> DEFINE p == [kind |-> "text", target |-> id, text |-> text]
<1>1. p \in PagePatches
  BY DEF PagePatches
<1>2. TextPatch(id, text) = <<p>>
  BY DEF TextPatch
<1>3. p.kind = "text" /\ p.target = id /\ p.text = text
  OBVIOUS
<1> HIDE DEF p
<1> QED
  BY <1>1, <1>2, <1>3

LEMMA RemoveIsPatch ==
  ASSUME NEW id \in PageIds
  PROVE  \E p \in PagePatches : RemovePatch(id) = <<p>> /\ p.kind = "remove" /\ p.target = id
PROOF
<1> DEFINE p == [kind |-> "remove", target |-> id]
<1>1. p \in PagePatches
  BY DEF PagePatches
<1>2. RemovePatch(id) = <<p>>
  BY DEF RemovePatch
<1>3. p.kind = "remove" /\ p.target = id
  OBVIOUS
<1> HIDE DEF p
<1> QED
  BY <1>1, <1>2, <1>3

\* What a node below the host's element has in a page.
LEMMA NodeFacts ==
  ASSUME NEW W, SoundPage(W), NEW id \in DOMAIN W \ {HostRoot}
  PROVE  /\ id \in PageIds /\ W[id].tag \in Words /\ W[id].text \in Words
         /\ W[id].kids \in Seq(PageIds) /\ Distinct(W[id].kids) /\ KidsOf(W, id) = ToSet(W[id].kids)
         /\ KidsOf(W, id) \subseteq DOMAIN W \ {HostRoot}
PROOF
<1>1. /\ W[id] = [tag |-> W[id].tag, text |-> W[id].text, kids |-> W[id].kids]
      /\ W[id].tag \in Words /\ W[id].text \in Words /\ W[id].kids \in Seq(PageIds)
      /\ Distinct(W[id].kids) /\ KidsOf(W, id) = ToSet(W[id].kids)
      /\ KidsOf(W, id) \subseteq PageIds \cap DOMAIN W
  BY SoundRow
<1>2. HostRoot \notin PageIds
  BY PageAssumption
<1>3. id \in PageIds
  BY DEF SoundPage
<1> QED
  BY <1>1, <1>2, <1>3

\* The patches of a node and, for each child, of what is created below it.
LEMMA CreationTyped ==
  ASSUME NEW W, SoundPage(W), NEW id \in DOMAIN W \ {HostRoot}, NEW created,
         \A k \in KidsOf(W, id) : created[k] \in Seq(PagePatches)
  PROVE  CreationOf(W, id, created) \in Seq(PagePatches)
PROOF
<1> DEFINE of == [k \in KidsOf(W, id) |-> created[k] \o PlacePatch(id, k, NoNode)]
           c == CreatePatch(id, W[id].tag)
           t == IF W[id].text = "" THEN <<>> ELSE TextPatch(id, W[id].text)
           e == EmittedBy(W[id].kids, of)
<1>1. /\ id \in PageIds /\ W[id].tag \in Words /\ W[id].text \in Words
      /\ W[id].kids \in Seq(PageIds) /\ Distinct(W[id].kids) /\ KidsOf(W, id) = ToSet(W[id].kids)
      /\ KidsOf(W, id) \subseteq DOMAIN W \ {HostRoot}
  BY NodeFacts
<1>2. c \in Seq(PagePatches)
  <2>1. \E p \in PagePatches : c = <<p>>
    BY <1>1, CreateIsPatch
  <2> QED
    BY <2>1
<1>3. t \in Seq(PagePatches)
  <2>1. \E p \in PagePatches : TextPatch(id, W[id].text) = <<p>>
    BY <1>1, TextIsPatch
  <2>2. TextPatch(id, W[id].text) \in Seq(PagePatches)
    BY <2>1
  <2>3. t = <<>> \/ t = TextPatch(id, W[id].text)
    OBVIOUS
  <2>4. <<>> \in Seq(PagePatches)
    OBVIOUS
  <2> HIDE DEF t
  <2> QED
    BY <2>2, <2>3, <2>4
<1>4. \A k \in KidsOf(W, id) : of[k] \in Seq(PagePatches)
  <2> SUFFICES ASSUME NEW k \in KidsOf(W, id) PROVE of[k] \in Seq(PagePatches)
    OBVIOUS
  <2>1. k \in PageIds /\ NoNode \in PageIds \cup {NoNode} /\ NoNode # k /\ id \in PageNodes
    BY <1>1, PageAssumption DEF SoundPage, PageNodes
  <2>2. \E p \in PagePatches : PlacePatch(id, k, NoNode) = <<p>>
    BY <2>1, PlaceIsPatch
  <2>3. PlacePatch(id, k, NoNode) \in Seq(PagePatches)
    BY <2>2
  <2>4. of[k] = created[k] \o PlacePatch(id, k, NoNode) /\ created[k] \in Seq(PagePatches)
    OBVIOUS
  <2> QED
    BY <2>3, <2>4
<1> HIDE DEF of, c, t
<1>5. e \in Seq(PagePatches)
  BY <1>1, <1>4, EmittedTyped
<1>6. CreationOf(W, id, created) = c \o t \o e
  BY DEF CreationOf, c, t, of
<1> HIDE DEF e
<1> QED
  BY <1>2, <1>3, <1>5, <1>6

LEMMA CreationSame ==
  ASSUME NEW W, NEW tree, NEW id, tree[id] = W[id], NEW f, NEW g, \A k \in KidsOf(W, id) : f[k] = g[k]
  PROVE  CreationOf(tree, id, f) = CreationOf(W, id, g)
PROOF
<1>1. KidsOf(tree, id) = KidsOf(W, id)
  BY DEF KidsOf
<1>2. [k \in KidsOf(W, id) |-> f[k] \o PlacePatch(id, k, NoNode)] =
      [k \in KidsOf(W, id) |-> g[k] \o PlacePatch(id, k, NoNode)]
  OBVIOUS
<1> QED
  BY <1>1, <1>2 DEF CreationOf

LEMMA CreationAgrees ==
  ASSUME NEW W, NEW id, NEW f, NEW g, \A k \in KidsOf(W, id) : f[k] = g[k]
  PROVE  CreationOf(W, id, f) = CreationOf(W, id, g)
PROOF
<1>1. [k \in KidsOf(W, id) |-> f[k] \o PlacePatch(id, k, NoNode)] =
      [k \in KidsOf(W, id) |-> g[k] \o PlacePatch(id, k, NoNode)]
  OBVIOUS
<1> QED
  BY <1>1 DEF CreationOf

\* created has the creation of every node of the tree W.
CreatedBy(W, created) ==
  /\ created \in [DOMAIN W \ {HostRoot} -> Seq(PagePatches)]
  /\ \A id \in DOMAIN W \ {HostRoot} : created[id] = CreationOf(W, id, created)

\* There are such creations, by the rank of the nodes.
LEMMA SomethingCreated ==
  ASSUME NEW W, NEW h, PageTree(W, h)
  PROVE  \E f : CreatedBy(W, f)
PROOF
<1> DEFINE D == DOMAIN W \ {HostRoot}
           V == [D -> Seq(PagePatches)]
           v == [id \in D |-> <<>>]
           N == h[HostRoot] + 2
           step == [m \in 1..N |-> [f \in V |-> [id \in D |-> CreationOf(W, id, f)]]]
<1>1. SoundPage(W) /\ HostRoot \in DOMAIN W
  BY DEF PageTree, SoundPage
<1>2. \A n \in DOMAIN W : h[n] \in Nat /\ h[n] <= h[HostRoot]
  BY DEF PageTree
<1>3. N \in Nat /\ v \in V
  BY <1>1, <1>2
<1>4. \A id \in D : KidsOf(W, id) \subseteq D /\ \A k \in KidsOf(W, id) : h[k] < h[id]
  <2> SUFFICES ASSUME NEW id \in D PROVE KidsOf(W, id) \subseteq D /\ \A k \in KidsOf(W, id) : h[k] < h[id]
    OBVIOUS
  <2>1. KidsOf(W, id) \subseteq DOMAIN W \ {HostRoot}
    BY <1>1, NodeFacts
  <2> QED
    BY <2>1 DEF PageTree
<1>5. \A f \in V : \A id \in D : CreationOf(W, id, f) \in Seq(PagePatches)
  <2> SUFFICES ASSUME NEW f \in V, NEW id \in D PROVE CreationOf(W, id, f) \in Seq(PagePatches)
    OBVIOUS
  <2>1. \A k \in KidsOf(W, id) : f[k] \in Seq(PagePatches)
    BY <1>4
  <2> QED
    BY <1>1, <2>1, CreationTyped
<1>6. \A m \in 1..N : \A f \in V : step[m][f] = [id \in D |-> CreationOf(W, id, f)] /\ step[m][f] \in V
  BY <1>5
<1> HIDE DEF step, N, V, v
<1>7. PICK g : /\ g \in [0..N -> V] /\ g[0] = v
               /\ \A m \in 1..N : g[m] = step[m][g[m - 1]]
  <2>1. \A m \in 1..N : \A f \in V : step[m][f] \in V
    BY <1>6
  <2>2. \E g : Iteration(g, V, v, step, N)
    BY <1>3, <2>1, Iterated
  <2> QED
    BY <2>2 DEF Iteration
<1>8. \A m \in 1..N : g[m] = [id \in D |-> CreationOf(W, id, g[m - 1])] /\ g[m - 1] \in V
  <2> SUFFICES ASSUME NEW m \in 1..N
               PROVE g[m] = [id \in D |-> CreationOf(W, id, g[m - 1])] /\ g[m - 1] \in V
    OBVIOUS
  <2>1. m - 1 \in 0..N
    BY <1>3
  <2> QED
    BY <1>6, <1>7, <2>1
<1> DEFINE M == N - 1
           T == {m \in 0..M : \A id \in D : h[id] < m => g[m][id] = g[m + 1][id]}
<1>9. M \in Nat /\ M + 1 = N /\ h[HostRoot] < M
  BY <1>1, <1>2 DEF N
<1> HIDE DEF M
<1>10. 0 \in T
  BY <1>2, <1>9
<1>11. ASSUME NEW m \in 1..M, m - 1 \in T PROVE m \in T
  <2>1. m \in 0..M /\ m \in 1..N /\ m + 1 \in 1..N /\ (m + 1) - 1 = m /\ m \in Nat /\ (m - 1) + 1 = m
    BY <1>9
  <2>2. ASSUME NEW id \in D, h[id] < m PROVE g[m][id] = g[m + 1][id]
    <3>1. g[m][id] = CreationOf(W, id, g[m - 1])
      BY <1>8, <2>1
    <3>2. g[m + 1][id] = CreationOf(W, id, g[m])
      <4>1. g[m + 1] = [i \in D |-> CreationOf(W, i, g[(m + 1) - 1])]
        BY <1>8, <2>1
      <4> QED
        BY <2>1, <4>1
    <3>3. \A k \in KidsOf(W, id) : g[m - 1][k] = g[m][k]
      <4> SUFFICES ASSUME NEW k \in KidsOf(W, id) PROVE g[m - 1][k] = g[m][k]
        OBVIOUS
      <4>1. k \in D /\ h[k] < h[id] /\ h[k] \in Nat /\ h[id] \in Nat
        BY <1>2, <1>4
      <4>2. h[k] < m - 1
        BY <2>1, <2>2, <4>1
      <4> QED
        BY <1>11, <2>1, <4>1, <4>2
    <3>4. CreationOf(W, id, g[m - 1]) = CreationOf(W, id, g[m])
      <4> DEFINE a == g[m - 1]
                 b == g[m]
      <4>1. \A k \in KidsOf(W, id) : a[k] = b[k]
        BY <3>3
      <4> HIDE DEF a, b
      <4>2. CreationOf(W, id, a) = CreationOf(W, id, b)
        BY <4>1, CreationAgrees
      <4> QED
        BY <4>2 DEF a, b
    <3> QED
      BY <3>1, <3>2, <3>4
  <2> QED
    BY <2>1, <2>2
<1>12. \A m \in 0..M : m \in T
  <2> HIDE DEF T
  <2> QED
    BY <1>9, <1>10, <1>11, NumbersUpTo
<1>13. \A id \in D : g[M][id] = g[N][id]
  <2>1. M \in T
    BY <1>9, <1>12
  <2>2. \A id \in D : h[id] < M
    <3> SUFFICES ASSUME NEW id \in D PROVE h[id] < M
      OBVIOUS
    <3>1. h[id] \in Nat /\ h[id] <= h[HostRoot] /\ h[HostRoot] \in Nat
      BY <1>1, <1>2
    <3> QED
      BY <1>9, <3>1
  <2> QED
    BY <1>9, <2>1, <2>2
<1>14. g[M] \in V
  BY <1>7, <1>9
<1>15. \A id \in D : g[N][id] = CreationOf(W, id, g[M])
  <2>1. N \in 1..N /\ N - 1 = M
    BY <1>3, <1>9
  <2> QED
    BY <1>8, <2>1
<1> QED
  BY <1>13, <1>14, <1>15 DEF CreatedBy, V

\* The creations of the reconciler are those.
LEMMA CreationsMade ==
  ASSUME NEW W, NEW h, PageTree(W, h), NEW tree, NEW root, RootedTree(W, tree, root)
  PROVE  CreatedBy(W, Creations(tree))
PROOF
<1> DEFINE D == DOMAIN W \ {HostRoot}
           E(f) == [id \in D |-> CreationOf(W, id, f)]
           c == Creations(tree)
<1>1. SoundPage(W) /\ DOMAIN tree = D /\ \A id \in D : tree[id] = W[id]
  BY DEF PageTree, RootedTree
<1>2. PICK f : CreatedBy(W, f)
  BY SomethingCreated
<1>3. f = E(f)
  BY <1>2 DEF CreatedBy
<1>4. \A g : [id \in DOMAIN tree |-> CreationOf(tree, id, g)] = E(g)
  <2> SUFFICES ASSUME NEW g PROVE [id \in DOMAIN tree |-> CreationOf(tree, id, g)] = E(g)
    OBVIOUS
  <2>1. \A id \in D : CreationOf(tree, id, g) = CreationOf(W, id, g)
    BY <1>1, CreationSame
  <2> QED
    BY <1>1, <2>1
<1>5. c = [id \in DOMAIN tree |-> CreationOf(tree, id, c)]
  <2> DEFINE G(g) == [id \in DOMAIN tree |-> CreationOf(tree, id, g)]
  <2>1. \E g : g = G(g)
    BY <1>3, <1>4
  <2>2. c = CHOOSE g : g = G(g)
    BY DEF Creations
  <2> HIDE DEF c
  <2> QED
    BY <2>1, <2>2
<1> HIDE DEF c
<1>6. c = E(c)
  BY <1>4, <1>5
<1>7. \A id \in D : c[id] \in Seq(PagePatches)
  <2> DEFINE T == {id \in D : c[id] \in Seq(PagePatches)}
  <2>1. ASSUME NEW id \in D, \A k \in D : h[k] < h[id] => k \in T PROVE id \in T
    <3>1. KidsOf(W, id) \subseteq D /\ \A k \in KidsOf(W, id) : h[k] < h[id]
      <4>1. KidsOf(W, id) \subseteq DOMAIN W \ {HostRoot}
        BY <1>1, NodeFacts
      <4> QED
        BY <4>1 DEF PageTree
    <3>2. \A k \in KidsOf(W, id) : c[k] \in Seq(PagePatches)
      BY <2>1, <3>1
    <3>3. CreationOf(W, id, c) \in Seq(PagePatches)
      BY <1>1, <3>2, CreationTyped
    <3> QED
      BY <1>6, <3>3
  <2>2. \A id \in D : h[id] \in Nat
    BY DEF PageTree
  <2> HIDE DEF T, D
  <2>3. D \subseteq T
    BY <2>1, <2>2, ByRank
  <2> QED
    BY <2>3 DEF T
<1> QED
  BY <1>6, <1>7 DEF CreatedBy, c
-----------------------------------------------------------------------------
(* What is emitted for the nodes of two trees. *)

LEMMA ConcatDistinct ==
  ASSUME NEW X, NEW s \in Seq(X), NEW t \in Seq(X), Distinct(s), Distinct(t), ToSet(s) \cap ToSet(t) = {}
  PROVE  Distinct(s \o t)
PROOF
<1> DEFINE T == {u \in Seq(X) : Distinct(u) /\ ToSet(s) \cap ToSet(u) = {} => Distinct(s \o u)}
<1>1. <<>> \in T
  <2>1. s \o <<>> = s
    OBVIOUS
  <2> QED
    BY <2>1
<1>2. ASSUME NEW u \in Seq(X), NEW x \in X, u \in T PROVE Append(u, x) \in T
  <2> SUFFICES ASSUME Distinct(Append(u, x)), ToSet(s) \cap ToSet(Append(u, x)) = {}
               PROVE  Distinct(s \o Append(u, x))
    BY DEF T
  <2>1. s \o Append(u, x) = Append(s \o u, x) /\ s \o u \in Seq(X)
    OBVIOUS
  <2>2. ToSet(Append(u, x)) = ToSet(u) \cup {x}
    BY SetOfAppend
  <2>3. Distinct(u) /\ x \notin ToSet(u)
    BY AppendDistinct
  <2>4. Distinct(s \o u)
    BY <1>2, <2>2, <2>3
  <2>5. ToSet(s \o u) = ToSet(s) \cup ToSet(u)
    BY SetOfConcat
  <2> DEFINE v == s \o u
  <2>6. x \notin ToSet(v) /\ v \in Seq(X) /\ Distinct(v)
    BY <2>1, <2>2, <2>3, <2>4, <2>5
  <2> HIDE DEF v
  <2>7. Distinct(Append(v, x))
    BY <2>6, AppendDistinct
  <2> QED
    BY <2>1, <2>7 DEF v
<1> HIDE DEF T
<1>3. t \in T
  BY <1>1, <1>2, SequencesBuilt
<1> QED
  BY <1>3 DEF T

LEMMA EmittedOne ==
  ASSUME NEW X, NEW x \in X, NEW V, NEW of, of[x] \in Seq(V)
  PROVE  EmittedBy(<<x>>, of) = of[x]
PROOF
<1> DEFINE e == <<>>
<1>1. e \in Seq(X) /\ ToSet(e) = {} /\ Append(e, x) = <<x>>
  BY DEF ToSet
<1>2. \A k \in ToSet(e) \cup {x} : of[k] \in Seq(V)
  BY <1>1
<1> HIDE DEF e
<1>3. /\ EmittedBy(<<>>, of) = <<>>
      /\ EmittedBy(e, of) \in Seq(V)
      /\ EmittedBy(Append(e, x), of) = EmittedBy(e, of) \o of[x]
  BY <1>1, <1>2, EmittedBuilt
<1>4. EmittedBy(e, of) = <<>>
  BY <1>3 DEF e
<1>5. <<>> \o of[x] = of[x]
  OBVIOUS
<1> QED
  BY <1>1, <1>3, <1>4, <1>5

(* The parts of what is emitted for a node with one tag in both trees. *)

PartChanges(O, W, id, k, created, changes) ==
  IF k \notin KidsOf(O, id) THEN created[k] \o PlacePatch(id, k, NoNode)
  ELSE IF O[k].tag # W[k].tag THEN RemovePatch(k) \o (created[k] \o PlacePatch(id, k, NoNode))
  ELSE changes[k]

GoneKids(O, W, id) == Among(O[id].kids, KidsOf(O, id) \ KidsOf(W, id))

TextPart(O, W, id) == IF O[id].text = W[id].text THEN <<>> ELSE TextPatch(id, W[id].text)

GonePart(O, W, id) ==
  EmittedBy(GoneKids(O, W, id), [k \in ToSet(GoneKids(O, W, id)) |-> RemovePatch(k)])

KidsPart(O, W, id, created, changes) ==
  EmittedBy(W[id].kids, [k \in KidsOf(W, id) |-> PartChanges(O, W, id, k, created, changes)])

OrderPart(O, W, id) ==
  IF CurrentOrder(O, W, id) = W[id].kids THEN <<>>
  ELSE Placements(id, CurrentOrder(O, W, id), W[id].kids)

Emission(O, W, id, created, changes) ==
  TextPart(O, W, id) \o GonePart(O, W, id) \o KidsPart(O, W, id, created, changes) \o OrderPart(O, W, id)

\* changes has what is emitted for every node of both trees.
HandledBy(O, W, created, changes) ==
  /\ changes \in [DOMAIN O \cap DOMAIN W -> Seq(PagePatches)]
  /\ \A id \in DOMAIN O \cap DOMAIN W : changes[id] = Emission(O, W, id, created, changes)

\* Two trees.
TwoTrees(O, W, g, h) == PageTree(O, g) /\ PageTree(W, h)

\* A row of a page tree.
LEMMA TreeRow ==
  ASSUME NEW E, NEW h, PageTree(E, h), NEW id \in DOMAIN E
  PROVE  /\ id \in PageNodes /\ E[id].tag \in Words /\ E[id].text \in Words
         /\ E[id].kids \in Seq(PageIds) /\ Distinct(E[id].kids) /\ KidsOf(E, id) = ToSet(E[id].kids)
         /\ KidsOf(E, id) \subseteq (DOMAIN E \ {HostRoot}) \cap PageIds
         /\ h[id] \in Nat /\ \A k \in KidsOf(E, id) : h[k] < h[id]
PROOF
<1>1. SoundPage(E)
  BY DEF PageTree
<1>2. /\ E[id] = [tag |-> E[id].tag, text |-> E[id].text, kids |-> E[id].kids]
      /\ E[id].tag \in Words /\ E[id].text \in Words /\ E[id].kids \in Seq(PageIds)
      /\ Distinct(E[id].kids) /\ KidsOf(E, id) = ToSet(E[id].kids)
      /\ KidsOf(E, id) \subseteq PageIds \cap DOMAIN E
  BY <1>1, SoundRow
<1>3. HostRoot \notin PageIds /\ id \in PageNodes
  BY <1>1, PageAssumption DEF SoundPage, PageNodes
<1>4. h[id] \in Nat /\ \A k \in KidsOf(E, id) : h[k] < h[id]
  BY DEF PageTree
<1> QED
  BY <1>2, <1>3, <1>4

\* The children when all have been handled are those of the new tree.
LEMMA CurrentOrderFacts ==
  ASSUME NEW O, NEW W, NEW g, NEW h, TwoTrees(O, W, g, h), NEW id \in DOMAIN O \cap DOMAIN W
  PROVE  /\ CurrentOrder(O, W, id) \in Seq(PageIds) /\ Distinct(CurrentOrder(O, W, id))
         /\ ToSet(CurrentOrder(O, W, id)) = ToSet(W[id].kids)
PROOF
<1> DEFINE o == O[id].kids
           w == W[id].kids
           a == Among(o, KidsOf(W, id))
           b == Among(w, KidsOf(W, id) \ KidsOf(O, id))
<1>1. o \in Seq(PageIds) /\ Distinct(o) /\ KidsOf(O, id) = ToSet(o)
  BY TreeRow DEF TwoTrees
<1>2. w \in Seq(PageIds) /\ Distinct(w) /\ KidsOf(W, id) = ToSet(w)
  BY TreeRow DEF TwoTrees
<1>3. CurrentOrder(O, W, id) = a \o b
  BY DEF CurrentOrder
<1> HIDE DEF o, w
<1>4. a \in Seq(PageIds) /\ ToSet(a) = ToSet(o) \cap KidsOf(W, id) /\ (Distinct(o) => Distinct(a))
  BY <1>1, AmongFacts
<1>5. b \in Seq(PageIds) /\ ToSet(b) = ToSet(w) \cap (KidsOf(W, id) \ KidsOf(O, id)) /\ (Distinct(w) => Distinct(b))
  <2> DEFINE S == KidsOf(W, id) \ KidsOf(O, id)
  <2> HIDE DEF S
  <2>1. Among(w, S) \in Seq(PageIds) /\ ToSet(Among(w, S)) = ToSet(w) \cap S
        /\ (Distinct(w) => Distinct(Among(w, S)))
    BY <1>2, AmongFacts
  <2> QED
    BY <2>1 DEF S
<1> HIDE DEF a, b
<1>6. ToSet(a) \cap ToSet(b) = {} /\ ToSet(a) \cup ToSet(b) = ToSet(w)
  BY <1>1, <1>2, <1>4, <1>5
<1>7. Distinct(a \o b)
  BY <1>1, <1>2, <1>4, <1>5, <1>6, ConcatDistinct
<1>8. ToSet(a \o b) = ToSet(a) \cup ToSet(b)
  BY <1>4, <1>5, SetOfConcat
<1>9. a \o b \in Seq(PageIds)
  BY <1>4, <1>5
<1> QED
  BY <1>3, <1>6, <1>7, <1>8, <1>9 DEF w

\* The text of a node, if it changed.
LEMMA TextPartIs ==
  ASSUME NEW O, NEW W, NEW g, NEW h, TwoTrees(O, W, g, h), NEW id \in DOMAIN O \cap DOMAIN W
  PROVE  \/ O[id].text = W[id].text /\ TextPart(O, W, id) = <<>>
         \/ /\ O[id].text # W[id].text /\ id \in PageIds
            /\ \E p \in PagePatches :
                 TextPart(O, W, id) = <<p>> /\ p.kind = "text" /\ p.target = id /\ p.text = W[id].text
PROOF
<1>1. CASE O[id].text = W[id].text
  BY <1>1 DEF TextPart
<1>2. CASE O[id].text # W[id].text
  <2>1. id # HostRoot
    BY <1>2 DEF TwoTrees, PageTree
  <2>2. id \in PageIds /\ W[id].text \in Words
    BY <2>1, TreeRow DEF TwoTrees, PageNodes
  <2>3. TextPart(O, W, id) = TextPatch(id, W[id].text)
    BY <1>2 DEF TextPart
  <2>4. \E p \in PagePatches :
          TextPatch(id, W[id].text) = <<p>> /\ p.kind = "text" /\ p.target = id /\ p.text = W[id].text
    BY <2>2, TextIsPatch
  <2> QED
    BY <1>2, <2>2, <2>3, <2>4
<1> QED
  BY <1>1, <1>2

LEMMA GoneKidsFacts ==
  ASSUME NEW O, NEW W, NEW g, NEW h, TwoTrees(O, W, g, h), NEW id \in DOMAIN O \cap DOMAIN W
  PROVE  /\ GoneKids(O, W, id) \in Seq(PageIds) /\ Distinct(GoneKids(O, W, id))
         /\ ToSet(GoneKids(O, W, id)) = KidsOf(O, id) \ KidsOf(W, id)
PROOF
<1> DEFINE o == O[id].kids
           S == KidsOf(O, id) \ KidsOf(W, id)
<1>1. o \in Seq(PageIds) /\ Distinct(o) /\ KidsOf(O, id) = ToSet(o)
  BY TreeRow DEF TwoTrees
<1>2. GoneKids(O, W, id) = Among(o, S) /\ ToSet(o) \cap S = S
  BY <1>1 DEF GoneKids
<1> HIDE DEF o, S
<1>3. /\ Among(o, S) \in Seq(PageIds)
      /\ ToSet(Among(o, S)) = ToSet(o) \cap S
      /\ Distinct(o) => Distinct(Among(o, S))
  BY <1>1, AmongFacts
<1> QED
  BY <1>1, <1>2, <1>3 DEF S

\* The removals are those of the children that are gone.
LEMMA GonePartFacts ==
  ASSUME NEW O, NEW W, NEW g, NEW h, TwoTrees(O, W, g, h), NEW id \in DOMAIN O \cap DOMAIN W
  PROVE  /\ GonePart(O, W, id) \in Seq(PagePatches)
         /\ \A p \in ToSet(GonePart(O, W, id)) :
              p.kind = "remove" /\ p.target \in KidsOf(O, id) \ KidsOf(W, id)
PROOF
<1> DEFINE list == GoneKids(O, W, id)
           of == [k \in ToSet(list) |-> RemovePatch(k)]
<1>1. list \in Seq(PageIds) /\ ToSet(list) = KidsOf(O, id) \ KidsOf(W, id)
  BY GoneKidsFacts
<1>2. GonePart(O, W, id) = EmittedBy(list, of)
  BY DEF GonePart
<1> HIDE DEF list
<1>3. ASSUME NEW k \in ToSet(list)
      PROVE  of[k] \in Seq(PagePatches) /\ \A p \in ToSet(of[k]) : p.kind = "remove" /\ p.target = k
  <2>1. k \in PageIds
    BY <1>1, SetTyped
  <2>2. PICK p \in PagePatches : RemovePatch(k) = <<p>> /\ p.kind = "remove" /\ p.target = k
    BY <2>1, RemoveIsPatch
  <2>3. of[k] = <<p>> /\ ToSet(<<p>>) = {p} /\ <<p>> \in Seq(PagePatches)
    BY <2>2 DEF ToSet
  <2> QED
    BY <2>2, <2>3
<1> HIDE DEF of
<1>4. \A k \in ToSet(list) : of[k] \in Seq(PagePatches)
  BY <1>3
<1>5. EmittedBy(list, of) \in Seq(PagePatches)
  BY <1>1, <1>4, EmittedTyped
<1>6. ASSUME NEW p \in ToSet(EmittedBy(list, of))
      PROVE  p.kind = "remove" /\ p.target \in KidsOf(O, id) \ KidsOf(W, id)
  <2>1. PICK k \in ToSet(list) : p \in ToSet(of[k])
    BY <1>1, <1>4, EmittedFrom
  <2>2. p.kind = "remove" /\ p.target = k
    BY <1>3, <2>1
  <2> QED
    BY <1>1, <2>2
<1> QED
  BY <1>2, <1>5, <1>6

\* The placements at the end bring the children into the order of the new tree.
LEMMA OrderPartFacts ==
  ASSUME NEW O, NEW W, NEW g, NEW h, TwoTrees(O, W, g, h), NEW id \in DOMAIN O \cap DOMAIN W,
         NEW B, NEW clears
  PROVE  PlacementsDone(B, id, clears, CurrentOrder(O, W, id), W[id].kids, OrderPart(O, W, id))
PROOF
<1> DEFINE order == CurrentOrder(O, W, id)
           desired == W[id].kids
           list == OrderPart(O, W, id)
<1>1. order \in Seq(PageIds) /\ Distinct(order) /\ ToSet(order) = ToSet(desired)
  BY CurrentOrderFacts
<1>2. desired \in Seq(PageIds) /\ Distinct(desired) /\ id \in PageNodes
  BY TreeRow DEF TwoTrees
<1>3. list = IF order = desired THEN <<>> ELSE Placements(id, order, desired)
  BY DEF OrderPart
<1> HIDE DEF order, desired, list
<1>4. CASE order # desired
  <2>1. PlacementsDone(B, id, clears, order, desired, Placements(id, order, desired))
    BY <1>1, <1>2, PlacementsFacts
  <2> QED
    BY <1>3, <1>4, <2>1 DEF order, desired, list
<1>5. CASE order = desired
  <2> DEFINE x == [kids |-> order, ok |-> TRUE]
             e == <<>>
  <2>1. x \in RowStates
    BY <1>1, RowStateIs
  <2>2. list = e /\ ToSet(e) = {} /\ e \in Seq(PagePatches)
    BY <1>3, <1>5 DEF ToSet
  <2> HIDE DEF x
  <2>3. RowAfter(B, id, clears, x, e) = x
    BY <2>1, RowOfNothing
  <2> HIDE DEF e
  <2>4. PlacesIn(list, id, desired) /\ list \in Seq(PagePatches)
    BY <2>2 DEF PlacesIn
  <2>5. RowAfter(B, id, clears, x, list) = [kids |-> desired, ok |-> TRUE]
    BY <1>5, <2>2, <2>3 DEF x
  <2> QED
    BY <2>4, <2>5 DEF PlacementsDone, x, order, desired, list
<1> QED
  BY <1>4, <1>5

\* A new child, or one of another tag, is created and placed.
PartEnds(id, k, created, p, q) ==
  /\ created[k] \o PlacePatch(id, k, NoNode) = Append(created[k], p)
  /\ p.kind = "place" /\ p.target = id /\ p.child = k /\ p.before = NoNode
  /\ RemovePatch(k) \o (created[k] \o PlacePatch(id, k, NoNode)) = <<q>> \o Append(created[k], p)
  /\ q.kind = "remove" /\ q.target = k

\* The patches around a creation.
LEMMA PartIs ==
  ASSUME NEW W, NEW h, PageTree(W, h), NEW id \in DOMAIN W, NEW k \in KidsOf(W, id),
         NEW created, created[k] \in Seq(PagePatches)
  PROVE  \E p, q \in PagePatches : PartEnds(id, k, created, p, q)
PROOF
<1>1. id \in PageNodes /\ k \in PageIds
  BY TreeRow
<1>2. NoNode \in PageIds \cup {NoNode} /\ NoNode # k
  BY <1>1, PageAssumption
<1>3. PICK p \in PagePatches :
        /\ PlacePatch(id, k, NoNode) = <<p>>
        /\ p.kind = "place" /\ p.target = id /\ p.child = k /\ p.before = NoNode
  BY <1>1, <1>2, PlaceIsPatch
<1>4. PICK q \in PagePatches : RemovePatch(k) = <<q>> /\ q.kind = "remove" /\ q.target = k
  BY <1>1, RemoveIsPatch
<1>5. created[k] \o <<p>> = Append(created[k], p)
  OBVIOUS
<1> QED
  BY <1>3, <1>4, <1>5 DEF PartEnds

LEMMA KidsPartTyped ==
  ASSUME NEW O, NEW W, NEW g, NEW h, TwoTrees(O, W, g, h), NEW id \in DOMAIN O \cap DOMAIN W,
         NEW created, \A k \in KidsOf(W, id) : created[k] \in Seq(PagePatches),
         NEW changes, \A k \in KidsOf(O, id) \cap KidsOf(W, id) : changes[k] \in Seq(PagePatches)
  PROVE  /\ \A k \in KidsOf(W, id) : PartChanges(O, W, id, k, created, changes) \in Seq(PagePatches)
         /\ KidsPart(O, W, id, created, changes) \in Seq(PagePatches)
PROOF
<1> DEFINE list == W[id].kids
           of == [k \in KidsOf(W, id) |-> PartChanges(O, W, id, k, created, changes)]
<1>1. list \in Seq(PageIds) /\ ToSet(list) = KidsOf(W, id)
  BY TreeRow DEF TwoTrees
<1>2. ASSUME NEW k \in KidsOf(W, id)
      PROVE  PartChanges(O, W, id, k, created, changes) \in Seq(PagePatches)
  <2>0. PageTree(W, h) /\ created[k] \in Seq(PagePatches)
    BY DEF TwoTrees
  <2>1. PICK p, q \in PagePatches : PartEnds(id, k, created, p, q)
    BY <2>0, PartIs
  <2>2. Append(created[k], p) \in Seq(PagePatches)
    BY <2>0
  <2>3. <<q>> \o Append(created[k], p) \in Seq(PagePatches)
    BY <2>2
  <2> QED
    BY <2>1, <2>2, <2>3 DEF PartChanges, PartEnds
<1>3. KidsPart(O, W, id, created, changes) = EmittedBy(list, of)
  BY DEF KidsPart
<1>4. \A k \in ToSet(list) : of[k] \in Seq(PagePatches)
  BY <1>1, <1>2
<1> HIDE DEF list, of
<1>5. EmittedBy(list, of) \in Seq(PagePatches)
  BY <1>1, <1>4, EmittedTyped
<1> QED
  BY <1>2, <1>3, <1>5

\* What is emitted for a node are patches.
LEMMA EmissionTyped ==
  ASSUME NEW O, NEW W, NEW g, NEW h, TwoTrees(O, W, g, h), NEW id \in DOMAIN O \cap DOMAIN W,
         NEW created, \A k \in KidsOf(W, id) : created[k] \in Seq(PagePatches),
         NEW changes, \A k \in KidsOf(O, id) \cap KidsOf(W, id) : changes[k] \in Seq(PagePatches)
  PROVE  Emission(O, W, id, created, changes) \in Seq(PagePatches)
PROOF
<1> DEFINE a == TextPart(O, W, id)
           b == GonePart(O, W, id)
           c == KidsPart(O, W, id, created, changes)
           d == OrderPart(O, W, id)
<1>1. a \in Seq(PagePatches)
  <2>1. a = <<>> \/ \E p \in PagePatches : a = <<p>>
    BY TextPartIs
  <2> HIDE DEF a
  <2>2. <<>> \in Seq(PagePatches) /\ \A p \in PagePatches : <<p>> \in Seq(PagePatches)
    OBVIOUS
  <2> QED
    BY <2>1, <2>2
<1>2. b \in Seq(PagePatches)
  BY GonePartFacts
<1>3. c \in Seq(PagePatches)
  BY KidsPartTyped
<1>4. d \in Seq(PagePatches)
  <2>1. PlacementsDone(O, id, TRUE, CurrentOrder(O, W, id), W[id].kids, OrderPart(O, W, id))
    BY OrderPartFacts
  <2> QED
    BY <2>1 DEF PlacementsDone
<1>5. Emission(O, W, id, created, changes) = a \o b \o c \o d
  BY DEF Emission
<1> HIDE DEF a, b, c, d
<1> QED
  BY <1>1, <1>2, <1>3, <1>4, <1>5

\* What is emitted for a node depends on its children alone.
LEMMA EmissionAgrees ==
  ASSUME NEW O, NEW W, NEW id, NEW created, NEW f, NEW g,
         \A k \in KidsOf(O, id) \cap KidsOf(W, id) : f[k] = g[k]
  PROVE  Emission(O, W, id, created, f) = Emission(O, W, id, created, g)
PROOF
<1>1. \A k \in KidsOf(W, id) : PartChanges(O, W, id, k, created, f) = PartChanges(O, W, id, k, created, g)
  BY DEF PartChanges
<1>2. [k \in KidsOf(W, id) |-> PartChanges(O, W, id, k, created, f)] =
      [k \in KidsOf(W, id) |-> PartChanges(O, W, id, k, created, g)]
  BY <1>1
<1> QED
  BY <1>2 DEF Emission, KidsPart

\* There are such changes, by the rank of the nodes.
LEMMA SomethingHandled ==
  ASSUME NEW O, NEW W, NEW g, NEW h, TwoTrees(O, W, g, h), NEW created, CreatedBy(W, created)
  PROVE  \E f : HandledBy(O, W, created, f)
PROOF
<1> DEFINE D == DOMAIN O \cap DOMAIN W
           V == [D -> Seq(PagePatches)]
           v == [id \in D |-> <<>>]
           N == h[HostRoot] + 2
           step == [m \in 1..N |-> [f \in V |-> [id \in D |-> Emission(O, W, id, created, f)]]]
<1>1. PageTree(W, h) /\ HostRoot \in DOMAIN W
  BY DEF TwoTrees, PageTree, SoundPage
<1>2. \A n \in DOMAIN W : h[n] \in Nat /\ h[n] <= h[HostRoot]
  BY <1>1 DEF PageTree
<1>3. N \in Nat /\ v \in V
  BY <1>1, <1>2
<1>4. \A id \in D : /\ KidsOf(O, id) \cap KidsOf(W, id) \subseteq D
                    /\ \A k \in KidsOf(W, id) : h[k] < h[id] /\ created[k] \in Seq(PagePatches)
  <2> SUFFICES ASSUME NEW id \in D
               PROVE  /\ KidsOf(O, id) \cap KidsOf(W, id) \subseteq D
                      /\ \A k \in KidsOf(W, id) : h[k] < h[id] /\ created[k] \in Seq(PagePatches)
    OBVIOUS
  <2>1. KidsOf(W, id) \subseteq (DOMAIN W \ {HostRoot}) \cap PageIds /\ \A k \in KidsOf(W, id) : h[k] < h[id]
    BY <1>1, TreeRow
  <2>2. KidsOf(O, id) \subseteq (DOMAIN O \ {HostRoot}) \cap PageIds
    BY TreeRow DEF TwoTrees
  <2> QED
    BY <2>1, <2>2 DEF CreatedBy
<1>5. \A f \in V : \A id \in D : Emission(O, W, id, created, f) \in Seq(PagePatches)
  <2> SUFFICES ASSUME NEW f \in V, NEW id \in D PROVE Emission(O, W, id, created, f) \in Seq(PagePatches)
    OBVIOUS
  <2>1. \A k \in KidsOf(O, id) \cap KidsOf(W, id) : f[k] \in Seq(PagePatches)
    BY <1>4
  <2>2. \A k \in KidsOf(W, id) : created[k] \in Seq(PagePatches)
    BY <1>4
  <2> QED
    BY <2>1, <2>2, EmissionTyped
<1>6. \A m \in 1..N : \A f \in V : step[m][f] = [id \in D |-> Emission(O, W, id, created, f)] /\ step[m][f] \in V
  BY <1>5
<1> HIDE DEF step, N, V, v
<1>7. PICK r : /\ r \in [0..N -> V] /\ r[0] = v
               /\ \A m \in 1..N : r[m] = step[m][r[m - 1]]
  <2>1. \A m \in 1..N : \A f \in V : step[m][f] \in V
    BY <1>6
  <2>2. \E r : Iteration(r, V, v, step, N)
    BY <1>3, <2>1, Iterated
  <2> QED
    BY <2>2 DEF Iteration
<1>8. \A m \in 1..N : r[m] = [id \in D |-> Emission(O, W, id, created, r[m - 1])] /\ r[m - 1] \in V
  <2> SUFFICES ASSUME NEW m \in 1..N
               PROVE r[m] = [id \in D |-> Emission(O, W, id, created, r[m - 1])] /\ r[m - 1] \in V
    OBVIOUS
  <2>1. m - 1 \in 0..N
    BY <1>3
  <2> QED
    BY <1>6, <1>7, <2>1
<1> DEFINE M == N - 1
           T == {m \in 0..M : \A id \in D : h[id] < m => r[m][id] = r[m + 1][id]}
<1>9. M \in Nat /\ M + 1 = N /\ h[HostRoot] < M
  BY <1>1, <1>2 DEF N
<1> HIDE DEF M
<1>10. 0 \in T
  <2>1. \A id \in D : ~(h[id] < 0)
    BY <1>2
  <2> QED
    BY <1>9, <2>1
<1>11. ASSUME NEW m \in 1..M, m - 1 \in T PROVE m \in T
  <2>1. m \in 0..M /\ m \in 1..N /\ m + 1 \in 1..N /\ (m + 1) - 1 = m /\ m \in Nat /\ (m - 1) + 1 = m
    BY <1>9
  <2>2. ASSUME NEW id \in D, h[id] < m PROVE r[m][id] = r[m + 1][id]
    <3>1. r[m][id] = Emission(O, W, id, created, r[m - 1])
      BY <1>8, <2>1
    <3>2. r[m + 1][id] = Emission(O, W, id, created, r[m])
      <4>1. r[m + 1] = [i \in D |-> Emission(O, W, i, created, r[(m + 1) - 1])]
        BY <1>8, <2>1
      <4> QED
        BY <2>1, <4>1
    <3>3. \A k \in KidsOf(O, id) \cap KidsOf(W, id) : r[m - 1][k] = r[m][k]
      <4> SUFFICES ASSUME NEW k \in KidsOf(O, id) \cap KidsOf(W, id) PROVE r[m - 1][k] = r[m][k]
        OBVIOUS
      <4>1. k \in D /\ h[k] < h[id] /\ h[k] \in Nat /\ h[id] \in Nat
        BY <1>2, <1>4
      <4>2. h[k] < m - 1
        BY <2>1, <2>2, <4>1
      <4> QED
        BY <1>11, <2>1, <4>1, <4>2
    <3>4. Emission(O, W, id, created, r[m - 1]) = Emission(O, W, id, created, r[m])
      <4> DEFINE a == r[m - 1]
                 b == r[m]
      <4>1. \A k \in KidsOf(O, id) \cap KidsOf(W, id) : a[k] = b[k]
        BY <3>3
      <4> HIDE DEF a, b
      <4>2. Emission(O, W, id, created, a) = Emission(O, W, id, created, b)
        BY <4>1, EmissionAgrees
      <4> QED
        BY <4>2 DEF a, b
    <3> QED
      BY <3>1, <3>2, <3>4
  <2> QED
    BY <2>1, <2>2
<1>12. \A m \in 0..M : m \in T
  <2> HIDE DEF T
  <2> QED
    BY <1>9, <1>10, <1>11, NumbersUpTo
<1>13. \A id \in D : r[M][id] = r[N][id]
  <2>1. M \in T
    BY <1>9, <1>12
  <2>2. \A id \in D : h[id] < M
    <3> SUFFICES ASSUME NEW id \in D PROVE h[id] < M
      OBVIOUS
    <3>1. h[id] \in Nat /\ h[id] <= h[HostRoot] /\ h[HostRoot] \in Nat
      BY <1>1, <1>2
    <3> QED
      BY <1>9, <3>1
  <2> QED
    BY <1>9, <2>1, <2>2
<1>14. r[M] \in V
  BY <1>7, <1>9
<1>15. \A id \in D : r[N][id] = Emission(O, W, id, created, r[M])
  <2>1. N \in 1..N /\ N - 1 = M
    BY <1>3, <1>9
  <2> QED
    BY <1>8, <2>1
<1> QED
  BY <1>13, <1>14, <1>15 DEF HandledBy, V
-----------------------------------------------------------------------------
(* The patches of two trees. *)

\* The reconciler emits these parts.
LEMMA ChangesAre ==
  ASSUME NEW O, NEW W, NEW g, NEW h, TwoTrees(O, W, g, h),
         NEW old, NEW new, NEW q, NEW r, RootedTree(O, old, q), RootedTree(W, new, r),
         NEW id \in DOMAIN old \cap DOMAIN new, NEW f
  PROVE  ChangesOf(old, new, id, f) = Emission(O, W, id, Creations(new), f)
PROOF
<1>1. /\ \A i \in DOMAIN old : old[i] = O[i]
      /\ \A i \in DOMAIN new : new[i] = W[i]
      /\ DOMAIN old = DOMAIN O \ {HostRoot} /\ DOMAIN new = DOMAIN W \ {HostRoot}
  BY DEF RootedTree
<1>2. old[id] = O[id] /\ new[id] = W[id] /\ id \in DOMAIN O /\ id \in DOMAIN W
  BY <1>1
<1>3. KidsOf(old, id) = KidsOf(O, id) /\ KidsOf(new, id) = KidsOf(W, id)
  BY <1>2 DEF KidsOf
<1>4. KidsOf(O, id) \subseteq DOMAIN old /\ KidsOf(W, id) \subseteq DOMAIN new
  <2>1. KidsOf(O, id) \subseteq (DOMAIN O \ {HostRoot}) \cap PageIds
    BY <1>2, TreeRow DEF TwoTrees
  <2>2. KidsOf(W, id) \subseteq (DOMAIN W \ {HostRoot}) \cap PageIds
    BY <1>2, TreeRow DEF TwoTrees
  <2> QED
    BY <1>1, <2>1, <2>2
<1>5. CurrentOrder(old, new, id) = CurrentOrder(O, W, id)
  BY <1>2, <1>3 DEF CurrentOrder
<1>6. \A k \in KidsOf(W, id) : ChildChanges(old, new, id, k, f) = PartChanges(O, W, id, k, Creations(new), f)
  <2> SUFFICES ASSUME NEW k \in KidsOf(W, id)
               PROVE  ChildChanges(old, new, id, k, f) = PartChanges(O, W, id, k, Creations(new), f)
    OBVIOUS
  <2>1. k \in KidsOf(O, id) => old[k].tag = O[k].tag /\ new[k].tag = W[k].tag
    BY <1>1, <1>4
  <2> QED
    BY <1>3, <2>1 DEF ChildChanges, PartChanges, Creation
<1>7. Among(old[id].kids, KidsOf(old, id) \ KidsOf(new, id)) = GoneKids(O, W, id)
  BY <1>2, <1>3 DEF GoneKids
<1>8. [k \in KidsOf(new, id) |-> ChildChanges(old, new, id, k, f)] =
      [k \in KidsOf(W, id) |-> PartChanges(O, W, id, k, Creations(new), f)]
  BY <1>3, <1>6
<1>9. ChangesOf(old, new, id, f) =
        (IF old[id].text = new[id].text THEN <<>> ELSE TextPatch(id, new[id].text))
        \o EmittedBy(GoneKids(O, W, id), [k \in ToSet(GoneKids(O, W, id)) |-> RemovePatch(k)])
        \o EmittedBy(new[id].kids, [k \in KidsOf(new, id) |-> ChildChanges(old, new, id, k, f)])
        \o (IF CurrentOrder(old, new, id) = new[id].kids THEN <<>>
            ELSE Placements(id, CurrentOrder(old, new, id), new[id].kids))
  BY <1>7 DEF ChangesOf
<1> QED
  BY <1>2, <1>5, <1>8, <1>9 DEF Emission, TextPart, GonePart, KidsPart, OrderPart

\* The element of the host, which both have, keeps its look; what is emitted for it is
\* what the reconciler begins with.
LEMMA AmongOne ==
  ASSUME NEW x \in PageIds, NEW S
  PROVE  Among(<<x>>, S) = IF x \in S THEN <<x>> ELSE <<>>
PROOF
<1> DEFINE e == <<>>
<1>1. e \in Seq(PageIds) /\ Append(e, x) = <<x>>
  OBVIOUS
<1> HIDE DEF e
<1>2. /\ Among(<<>>, S) = <<>>
      /\ Among(e, S) \in Seq(PageIds)
      /\ Among(Append(e, x), S) = IF x \in S THEN Append(Among(e, S), x) ELSE Among(e, S)
  BY <1>1, AmongBuilt
<1>3. Among(e, S) = e
  BY <1>2 DEF e
<1> QED
  BY <1>1, <1>2, <1>3 DEF e

LEMMA AmongNothing ==
  ASSUME NEW S
  PROVE  Among(<<>>, S) = <<>>
PROOF
<1> DEFINE X == {0}
<1>1. <<>> \in Seq(X) /\ 0 \in X
  OBVIOUS
<1> HIDE DEF X
<1>2. /\ Among(<<>>, S) = <<>>
      /\ Among(<<>>, S) \in Seq(X)
      /\ Among(Append(<<>>, 0), S) = IF 0 \in S THEN Append(Among(<<>>, S), 0) ELSE Among(<<>>, S)
  BY <1>1, AmongBuilt
<1> QED
  BY <1>2

HostEmits(O, W, root, created, f, all) ==
  LET add == created[root] \o PlacePatch(HostRoot, root, NoNode) IN
  /\ O[HostRoot].kids = <<>> => all = add
  /\ \A q \in PageIds : O[HostRoot].kids = <<q>> =>
       all = IF q = root
             THEN IF O[root].tag # W[root].tag THEN RemovePatch(root) \o add ELSE f[root]
             ELSE RemovePatch(q) \o add

\* What is emitted for the element of the host is the creation of the root, its
\* replacement, or its changes.
LEMMA HostHandled ==
  ASSUME NEW O, NEW W, NEW g, NEW h, TwoTrees(O, W, g, h), NEW root \in PageIds,
         W[HostRoot].kids = <<root>>, NEW created, CreatedBy(W, created), NEW f,
         root \in KidsOf(O, HostRoot) => f[root] \in Seq(PagePatches)
  PROVE  HostEmits(O, W, root, created, f, Emission(O, W, HostRoot, created, f))
PROOF
<1> DEFINE add == created[root] \o PlacePatch(HostRoot, root, NoNode)
           of == [k \in {root} |-> PartChanges(O, W, HostRoot, k, created, f)]
           e == <<>>
<1>1. HostRoot \in DOMAIN O \cap DOMAIN W /\ PageTree(O, g) /\ PageTree(W, h)
  BY DEF TwoTrees, PageTree, SoundPage
<1>2. KidsOf(W, HostRoot) = {root}
  BY DEF KidsOf, ToSet
<1>3. created[root] \in Seq(PagePatches)
  <2>1. KidsOf(W, HostRoot) \subseteq (DOMAIN W \ {HostRoot}) \cap PageIds
    BY <1>1, TreeRow
  <2> QED
    BY <1>2, <2>1 DEF CreatedBy
<1>4. PICK p, q \in PagePatches : PartEnds(HostRoot, root, created, p, q)
  BY <1>1, <1>2, <1>3, PartIs
<1>5. add = Append(created[root], p) /\ RemovePatch(root) \o add = <<q>> \o Append(created[root], p)
  BY <1>4 DEF PartEnds
<1>6. add \in Seq(PagePatches) /\ RemovePatch(root) \o add \in Seq(PagePatches)
  <2>1. Append(created[root], p) \in Seq(PagePatches)
    BY <1>3
  <2>2. <<q>> \o Append(created[root], p) \in Seq(PagePatches)
    BY <2>1
  <2> QED
    BY <1>5, <2>1, <2>2
<1> HIDE DEF add
<1>7. TextPart(O, W, HostRoot) = e
  BY <1>1 DEF PageTree, TextPart
<1>8. of[root] \in Seq(PagePatches) /\ PartChanges(O, W, HostRoot, root, created, f) = of[root]
  <2>1. of[root] = PartChanges(O, W, HostRoot, root, created, f)
    OBVIOUS
  <2> HIDE DEF of
  <2> QED
    BY <1>6, <2>1 DEF PartChanges, add
<1>9. KidsPart(O, W, HostRoot, created, f) = of[root]
  <2>1. KidsPart(O, W, HostRoot, created, f) = EmittedBy(<<root>>, of)
    BY <1>2 DEF KidsPart
  <2> HIDE DEF of
  <2> QED
    BY <1>8, <2>1, EmittedOne
<1>10. OrderPart(O, W, HostRoot) = e
  <2>1. /\ CurrentOrder(O, W, HostRoot) \in Seq(PageIds) /\ Distinct(CurrentOrder(O, W, HostRoot))
        /\ ToSet(CurrentOrder(O, W, HostRoot)) = ToSet(W[HostRoot].kids)
    BY <1>1, CurrentOrderFacts
  <2> DEFINE s == CurrentOrder(O, W, HostRoot)
             t == <<root>>
  <2>2. s \in Seq(PageIds) /\ t \in Seq(PageIds) /\ Distinct(s) /\ Distinct(t) /\ ToSet(s) = ToSet(t) /\ ToSet(t) = {root}
        /\ Len(t) = 1
    <3>1. t \in Seq(PageIds) /\ Distinct(t) /\ ToSet(t) = {root} /\ Len(t) = 1
      BY DEF Distinct, ToSet
    <3>2. W[HostRoot].kids = t
      OBVIOUS
    <3> HIDE DEF t
    <3> QED
      BY <2>1, <3>1, <3>2
  <2> HIDE DEF s
  <2>3. Len(s) = Len(t)
    <3> HIDE DEF t
    <3> QED
      BY <2>2, SameLength
  <2>4. s[1] = root /\ Len(s) = 1
    <3>1. 1 \in DOMAIN s
      BY <2>2, <2>3
    <3>2. s[1] \in ToSet(s)
      BY <3>1 DEF ToSet
    <3> QED
      BY <2>2, <2>3, <3>2
  <2>5. s = t
    BY <2>2, <2>4
  <2> QED
    BY <2>5 DEF s, OrderPart
<1>11. ASSUME O[HostRoot].kids = <<>>
       PROVE  GonePart(O, W, HostRoot) = e /\ of[root] = add
  <2>1. KidsOf(O, HostRoot) = {}
    BY <1>11 DEF KidsOf, ToSet
  <2>2. GoneKids(O, W, HostRoot) = <<>>
    BY <1>11, AmongNothing DEF GoneKids
  <2>3. GonePart(O, W, HostRoot) = <<>>
    BY <2>2, EmittedNothing DEF GonePart
  <2>4. of[root] = add
    BY <2>1 DEF PartChanges, add
  <2> QED
    BY <2>3, <2>4
<1>12. ASSUME NEW r \in PageIds, O[HostRoot].kids = <<r>>, r = root
       PROVE  /\ GonePart(O, W, HostRoot) = e
              /\ of[root] = IF O[root].tag # W[root].tag THEN RemovePatch(root) \o add ELSE f[root]
  <2>1. KidsOf(O, HostRoot) = {root}
    BY <1>12 DEF KidsOf, ToSet
  <2>2. GoneKids(O, W, HostRoot) = <<>>
    BY <1>2, <1>12, <2>1, AmongOne DEF GoneKids
  <2>3. GonePart(O, W, HostRoot) = <<>>
    BY <2>2, EmittedNothing DEF GonePart
  <2>4. of[root] = IF O[root].tag # W[root].tag THEN RemovePatch(root) \o add ELSE f[root]
    BY <2>1 DEF PartChanges, add
  <2> QED
    BY <2>3, <2>4
<1>13. ASSUME NEW r \in PageIds, O[HostRoot].kids = <<r>>, r # root
       PROVE  GonePart(O, W, HostRoot) = RemovePatch(r) /\ of[root] = add
  <2>1. KidsOf(O, HostRoot) = {r}
    BY <1>13 DEF KidsOf, ToSet
  <2>2. GoneKids(O, W, HostRoot) = <<r>>
    BY <1>2, <1>13, <2>1, AmongOne DEF GoneKids
  <2>3. ToSet(<<r>>) = {r}
    BY DEF ToSet
  <2> DEFINE b == [k \in {r} |-> RemovePatch(k)]
  <2>4. GonePart(O, W, HostRoot) = EmittedBy(<<r>>, b)
    BY <2>2, <2>3 DEF GonePart
  <2>5. b[r] = RemovePatch(r)
    OBVIOUS
  <2>6. RemovePatch(r) \in Seq(PagePatches)
    <3>1. \E x \in PagePatches : RemovePatch(r) = <<x>> /\ x.kind = "remove" /\ x.target = r
      BY RemoveIsPatch
    <3> QED
      BY <3>1
  <2> HIDE DEF b
  <2>7. EmittedBy(<<r>>, b) = RemovePatch(r)
    BY <2>5, <2>6, EmittedOne
  <2>8. of[root] = add
    BY <1>13, <2>1 DEF PartChanges, add
  <2> QED
    BY <2>4, <2>7, <2>8
<1>14. Emission(O, W, HostRoot, created, f) = e \o GonePart(O, W, HostRoot) \o of[root] \o e
  BY <1>7, <1>9, <1>10 DEF Emission
<1>15. \A s \in Seq(PagePatches) : e \o e \o s \o e = s
  OBVIOUS
<1>16. \A r \in PageIds : \A s \in Seq(PagePatches) : e \o RemovePatch(r) \o s \o e = RemovePatch(r) \o s
  <2> SUFFICES ASSUME NEW r \in PageIds, NEW s \in Seq(PagePatches)
               PROVE  e \o RemovePatch(r) \o s \o e = RemovePatch(r) \o s
    OBVIOUS
  <2>1. PICK x \in PagePatches : RemovePatch(r) = <<x>> /\ x.kind = "remove" /\ x.target = r
    BY RemoveIsPatch
  <2>2. e \o <<x>> = <<x>> /\ <<x>> \o s \in Seq(PagePatches)
    OBVIOUS
  <2>3. (<<x>> \o s) \o e = <<x>> \o s
    BY <2>2
  <2> QED
    BY <2>1, <2>2, <2>3
<1> HIDE DEF of, e
<1>17. ASSUME O[HostRoot].kids = <<>> PROVE Emission(O, W, HostRoot, created, f) = add
  BY <1>6, <1>11, <1>14, <1>15, <1>17
<1>18. ASSUME NEW r \in PageIds, O[HostRoot].kids = <<r>>, r = root
       PROVE  Emission(O, W, HostRoot, created, f) =
                IF O[root].tag # W[root].tag THEN RemovePatch(root) \o add ELSE f[root]
  BY <1>8, <1>12, <1>14, <1>15, <1>18
<1>19. ASSUME NEW r \in PageIds, O[HostRoot].kids = <<r>>, r # root
       PROVE  Emission(O, W, HostRoot, created, f) = RemovePatch(r) \o add
  BY <1>6, <1>13, <1>14, <1>16, <1>19
<1> QED
  BY <1>17, <1>18, <1>19 DEF add, HostEmits

\* What the tree O is of.
TreeOf(O, tree) ==
  \/ tree = NoTree /\ DOMAIN O = {HostRoot} /\ O[HostRoot].kids = <<>>
  \/ \E root : RootedTree(O, tree, root)

\* L has the patches from O to W.
MadeFrom(O, W, created, changes, L) ==
  /\ CreatedBy(W, created) /\ HandledBy(O, W, created, changes)
  /\ L = changes[HostRoot]

\* The patches of the reconciler are the changes of the element of the host.
LEMMA PatchesMade ==
  ASSUME NEW O, NEW W, NEW g, NEW h, TwoTrees(O, W, g, h),
         NEW old, NEW new, NEW root, TreeOf(O, old), RootedTree(W, new, root)
  PROVE  \E changes : MadeFrom(O, W, Creations(new), changes, Patches(old, new))
PROOF
<1> DEFINE created == Creations(new)
           L == Patches(old, new)
           D == DOMAIN old \cap DOMAIN new
           add == created[root] \o PlacePatch(HostRoot, root, NoNode)
<1>1. CreatedBy(W, created)
  BY CreationsMade DEF TwoTrees
<1>2. /\ root \in Roots /\ RootOf(new) = root /\ W[HostRoot].kids = <<root>> /\ root \in PageIds
      /\ DOMAIN new = DOMAIN W \ {HostRoot} /\ new[root] = W[root] /\ root \in DOMAIN new
  BY DEF RootedTree, PageIds
<1>3. HostRoot \in DOMAIN O \cap DOMAIN W
  BY DEF TwoTrees, PageTree, SoundPage
<1>4. PICK f : HandledBy(O, W, created, f)
  BY <1>1, SomethingHandled
<1>5. f \in [DOMAIN O \cap DOMAIN W -> Seq(PagePatches)] /\ f[HostRoot] = Emission(O, W, HostRoot, created, f)
  BY <1>3, <1>4 DEF HandledBy
<1>6. CASE old = NoTree /\ DOMAIN O = {HostRoot} /\ O[HostRoot].kids = <<>>
  <2>1. L = add
    BY <1>2, <1>6 DEF Patches, Creation
  <2>2. root \notin KidsOf(O, HostRoot)
    BY <1>6 DEF KidsOf, ToSet
  <2>3. Emission(O, W, HostRoot, created, f) = add
    <3>1. root \in KidsOf(O, HostRoot) => f[root] \in Seq(PagePatches)
      BY <2>2
    <3> HIDE DEF created
    <3>2. HostEmits(O, W, root, created, f, Emission(O, W, HostRoot, created, f))
      BY <1>1, <1>2, <3>1, HostHandled
    <3> QED
      BY <1>6, <3>2 DEF HostEmits
  <2> QED
    BY <1>1, <1>4, <1>5, <2>1, <2>3 DEF MadeFrom
<1>7. CASE \E q : RootedTree(O, old, q)
  <2>1. PICK q : RootedTree(O, old, q)
    BY <1>7
  <2>2. /\ q \in Roots /\ RootOf(old) = q /\ O[HostRoot].kids = <<q>> /\ q \in PageIds /\ old # NoTree
        /\ DOMAIN old = DOMAIN O \ {HostRoot} /\ old[q] = O[q] /\ q \in DOMAIN old
    BY <2>1 DEF RootedTree, PageIds
  <2> DEFINE E(c) == [id \in D |-> Emission(O, W, id, created, c)]
             G(c) == [id \in D |-> ChangesOf(old, new, id, c)]
             c == Changes(old, new)
  <2>3. \A x : G(x) = E(x)
    <3> SUFFICES ASSUME NEW x PROVE G(x) = E(x)
      OBVIOUS
    <3>1. \A id \in D : ChangesOf(old, new, id, x) = Emission(O, W, id, created, x)
      BY <2>1, ChangesAre
    <3> QED
      BY <3>1
  <2>4. D = (DOMAIN O \cap DOMAIN W) \ {HostRoot}
    BY <1>2, <2>2
  <2>5. \A id \in D : KidsOf(O, id) \cap KidsOf(W, id) \subseteq D
    <3> SUFFICES ASSUME NEW id \in D PROVE KidsOf(O, id) \cap KidsOf(W, id) \subseteq D
      OBVIOUS
    <3>1. KidsOf(O, id) \subseteq (DOMAIN O \ {HostRoot}) \cap PageIds
      BY <2>4, TreeRow DEF TwoTrees
    <3>2. KidsOf(W, id) \subseteq (DOMAIN W \ {HostRoot}) \cap PageIds
      BY <2>4, TreeRow DEF TwoTrees
    <3> QED
      BY <2>4, <3>1, <3>2
  <2>6. \E x : x = G(x)
    <3> DEFINE x == [id \in D |-> f[id]]
    <3>1. \A id \in D : x[id] = Emission(O, W, id, created, f)
      BY <1>4, <2>4 DEF HandledBy
    <3>2. \A id \in D : Emission(O, W, id, created, f) = Emission(O, W, id, created, x)
      <4> SUFFICES ASSUME NEW id \in D PROVE Emission(O, W, id, created, f) = Emission(O, W, id, created, x)
        OBVIOUS
      <4>1. \A k \in KidsOf(O, id) \cap KidsOf(W, id) : f[k] = x[k]
        BY <2>5
      <4> HIDE DEF x
      <4> QED
        BY <4>1, EmissionAgrees
    <3>3. x = E(x)
      <4>1. x = [id \in D |-> x[id]]
        OBVIOUS
      <4> HIDE DEF x
      <4> QED
        BY <3>1, <3>2, <4>1
    <3> QED
      BY <2>3, <3>3
  <2>7. c = G(c)
    <3>1. c = CHOOSE x : x = G(x)
      BY DEF Changes
    <3> HIDE DEF c
    <3> QED
      BY <2>6, <3>1
  <2> HIDE DEF c
  <2>8. c = E(c)
    BY <2>3, <2>7
  <2>9. \A id \in D : c[id] \in Seq(PagePatches)
    <3> DEFINE T == {id \in D : c[id] \in Seq(PagePatches)}
    <3>1. ASSUME NEW id \in D, \A k \in D : h[k] < h[id] => k \in T PROVE id \in T
      <4>1. KidsOf(W, id) \subseteq (DOMAIN W \ {HostRoot}) \cap PageIds /\ \A k \in KidsOf(W, id) : h[k] < h[id]
        BY <2>4, TreeRow DEF TwoTrees
      <4>2. \A k \in KidsOf(O, id) \cap KidsOf(W, id) : c[k] \in Seq(PagePatches)
        BY <2>5, <3>1, <4>1
      <4>3. \A k \in KidsOf(W, id) : created[k] \in Seq(PagePatches)
        BY <1>1, <4>1 DEF CreatedBy
      <4>4. id \in DOMAIN O \cap DOMAIN W
        BY <2>4
      <4>5. Emission(O, W, id, created, c) \in Seq(PagePatches)
        BY <4>2, <4>3, <4>4, EmissionTyped
      <4> QED
        BY <2>8, <4>5
    <3>2. \A id \in D : h[id] \in Nat
      BY <2>4 DEF TwoTrees, PageTree
    <3> HIDE DEF T, D
    <3>3. D \subseteq T
      BY <3>1, <3>2, ByRank
    <3> QED
      BY <3>3 DEF T
  <2> DEFINE x == [id \in DOMAIN O \cap DOMAIN W |->
                     IF id = HostRoot THEN Emission(O, W, HostRoot, created, c) ELSE c[id]]
  <2>10. x[HostRoot] = Emission(O, W, HostRoot, created, c) /\ \A id \in D : x[id] = c[id]
    BY <1>3, <2>4
  <2>11. KidsOf(O, HostRoot) = {q} /\ KidsOf(W, HostRoot) = {root}
    BY <1>2, <2>2 DEF KidsOf, ToSet
  <2>12. HandledBy(O, W, created, x)
    <3>1. \A k \in KidsOf(O, HostRoot) \cap KidsOf(W, HostRoot) : k \in D
      BY <1>2, <2>2, <2>11
    <3>2. Emission(O, W, HostRoot, created, c) \in Seq(PagePatches)
      <4>1. \A k \in KidsOf(O, HostRoot) \cap KidsOf(W, HostRoot) : c[k] \in Seq(PagePatches)
        BY <2>9, <3>1
      <4>2. \A k \in KidsOf(W, HostRoot) : created[k] \in Seq(PagePatches)
        BY <1>1, <1>2, <2>11 DEF CreatedBy
      <4> QED
        BY <1>3, <4>1, <4>2, EmissionTyped
    <3>3. x \in [DOMAIN O \cap DOMAIN W -> Seq(PagePatches)]
      BY <2>4, <2>9, <3>2
    <3>4. ASSUME NEW id \in DOMAIN O \cap DOMAIN W PROVE x[id] = Emission(O, W, id, created, x)
      <4>1. \A k \in KidsOf(O, id) \cap KidsOf(W, id) : c[k] = x[k]
        BY <2>4, <2>5, <2>10, <3>1
      <4>2. x[id] = Emission(O, W, id, created, c)
        BY <2>4, <2>8, <2>10
      <4> HIDE DEF x
      <4>3. Emission(O, W, id, created, c) = Emission(O, W, id, created, x)
        BY <4>1, EmissionAgrees
      <4> QED
        BY <4>2, <4>3
    <3> QED
      BY <3>3, <3>4 DEF HandledBy
  <2>13. L = Emission(O, W, HostRoot, created, c)
    <3> DEFINE all == Emission(O, W, HostRoot, created, c)
    <3>1. root \in KidsOf(O, HostRoot) => c[root] \in Seq(PagePatches)
      BY <1>2, <2>2, <2>9, <2>11
    <3>2. /\ O[HostRoot].kids = <<>> => all = add
          /\ \A r \in PageIds : O[HostRoot].kids = <<r>> =>
               all = IF r = root
                     THEN IF O[root].tag # W[root].tag THEN RemovePatch(root) \o add ELSE c[root]
                     ELSE RemovePatch(r) \o add
      <4>1. HostEmits(O, W, root, created, c, Emission(O, W, HostRoot, created, c))
        <5> HIDE DEF created
        <5> QED
          BY <1>1, <1>2, <3>1, HostHandled
      <4> QED
        BY <4>1 DEF HostEmits
    <3>3. all = IF q = root
                THEN IF O[root].tag # W[root].tag THEN RemovePatch(root) \o add ELSE c[root]
                ELSE RemovePatch(q) \o add
      BY <2>2, <3>2
    <3>4. L = IF q # root \/ old[q].tag # new[root].tag
              THEN RemovePatch(q) \o add ELSE c[root]
      BY <1>2, <2>2 DEF Patches, Creation, c
    <3>5. q = root => old[q].tag = O[root].tag /\ new[root].tag = W[root].tag
      BY <1>2, <2>2
    <3> HIDE DEF all, L, add
    <3> QED
      BY <3>3, <3>4, <3>5 DEF all
  <2> QED
    BY <1>1, <2>10, <2>12, <2>13 DEF MadeFrom
<1> QED
  BY <1>6, <1>7 DEF TreeOf
-----------------------------------------------------------------------------
(* The page stays typed. *)

\* The nodes of both trees with one tag.
SameNodes(old, new) == {id \in DOMAIN old \cap DOMAIN new : old[id].tag = new[id].tag}

\* Trees, and no tree, have nodes of the page.
LEMMA ShownTree ==
  ASSUME NEW tree \in PageTrees \cup {NoTree}
  PROVE  /\ \E g : PageTree(Expected(tree), g)
         /\ TreeOf(Expected(tree), tree)
         /\ DOMAIN tree = DOMAIN Expected(tree) \ {HostRoot} /\ DOMAIN tree \subseteq PageIds
         /\ \A id \in DOMAIN tree : tree[id] = Expected(tree)[id]
PROOF
<1> DEFINE O == Expected(tree)
<1>1. CASE tree = NoTree
  <2>1. \E g : PageTree(O, g)
    BY <1>1, NoTreeBuilt
  <2>2. DOMAIN O = {HostRoot} /\ O[HostRoot] = [tag |-> "div", text |-> "", kids |-> <<>>]
    BY <1>1 DEF Expected, Blank
  <2>3. O[HostRoot].kids = <<>>
    <3>1. \A a, b, c : [tag |-> a, text |-> b, kids |-> c].kids = c
      OBVIOUS
    <3> DEFINE a == "div"
               b == ""
               c == <<>>
    <3>2. O[HostRoot] = [tag |-> a, text |-> b, kids |-> c]
      BY <2>2
    <3> HIDE DEF a, b, c, O
    <3> QED
      BY <3>1, <3>2 DEF c
  <2>4. DOMAIN tree = {}
    BY <1>1 DEF NoTree
  <2> HIDE DEF O
  <2> QED
    BY <1>1, <2>1, <2>2, <2>3, <2>4 DEF TreeOf, O
<1>2. CASE tree \in PageTrees
  <2>1. PICK g, root : PageTree(O, g) /\ RootedTree(O, tree, root)
    BY <1>2, TreeBuilt
  <2>2. DOMAIN tree \subseteq PageIds
    BY <2>1 DEF PageTree, SoundPage, RootedTree
  <2> HIDE DEF O
  <2> QED
    BY <2>1, <2>2 DEF RootedTree, TreeOf, O
<1> QED
  BY <1>1, <1>2

\* The nodes that are kept: the root, if it is, and what they keep of their children.
LEMMA KeptFacts ==
  ASSUME NEW old \in PageTrees \cup {NoTree}, NEW new
  PROVE  /\ KeptNodes(old, new) \subseteq SameNodes(old, new)
         /\ Roots \cap SameNodes(old, new) \subseteq KeptNodes(old, new)
         /\ \A id \in KeptNodes(old, new) :
              Staying(old, new, id) \cap SameNodes(old, new) \subseteq KeptNodes(old, new)
         /\ \A Z : /\ Roots \cap SameNodes(old, new) \subseteq Z
                   /\ \A id \in Z \cap SameNodes(old, new) :
                        Staying(old, new, id) \cap SameNodes(old, new) \subseteq Z
                   => KeptNodes(old, new) \subseteq Z
PROOF
<1> DEFINE same == SameNodes(old, new)
           next == [id \in same |-> Staying(old, new, id) \cap same]
           K == KeptNodes(old, new)
<1>1. K = Reached(next, Roots \cap same)
  BY DEF KeptNodes, SameNodes
<1>2. same \subseteq PageIds
  BY ShownTree DEF SameNodes
<1>3. IsFiniteSet(same)
  BY <1>2, PageAssumption, FS_Subset
<1>4. DOMAIN next = same /\ \A id \in same : next[id] = Staying(old, new, id) \cap same
  OBVIOUS
<1> HIDE DEF same, next, K
<1>5. /\ Roots \cap same \subseteq Reached(next, Roots \cap same)
      /\ Closed(next, Reached(next, Roots \cap same))
      /\ \A Z : Roots \cap same \subseteq Z /\ Closed(next, Z) => Reached(next, Roots \cap same) \subseteq Z
  BY <1>3, <1>4, ReachedFacts
<1>6. Closed(next, same)
  BY <1>4 DEF Closed
<1>7. K \subseteq same
  BY <1>1, <1>5, <1>6
<1>8. \A id \in K : Staying(old, new, id) \cap same \subseteq K
  BY <1>1, <1>4, <1>5, <1>7 DEF Closed
<1>9. ASSUME NEW Z, Roots \cap same \subseteq Z,
             \A id \in Z \cap same : Staying(old, new, id) \cap same \subseteq Z
      PROVE  K \subseteq Z
  <2>1. Closed(next, Z)
    BY <1>4, <1>9 DEF Closed
  <2> QED
    BY <1>1, <1>5, <1>9, <2>1
<1> QED
  BY <1>1, <1>5, <1>7, <1>8, <1>9 DEF same, K

\* The patches are patches.
LEMMA PatchesTyped ==
  ASSUME NEW old \in PageTrees \cup {NoTree}, NEW new \in PageTrees
  PROVE  Patches(old, new) \in Seq(PagePatches)
PROOF
<1>1. PICK g : PageTree(Expected(old), g)
  BY ShownTree
<1>2. TreeOf(Expected(old), old)
  BY ShownTree
<1>3. PICK h, root : PageTree(Expected(new), h) /\ RootedTree(Expected(new), new, root)
  BY TreeBuilt
<1>4. TwoTrees(Expected(old), Expected(new), g, h)
  BY <1>1, <1>3 DEF TwoTrees
<1>5. PICK changes : MadeFrom(Expected(old), Expected(new), Creations(new), changes, Patches(old, new))
  BY <1>2, <1>3, <1>4, PatchesMade
<1>6. HostRoot \in DOMAIN Expected(old) \cap DOMAIN Expected(new)
  BY <1>4 DEF TwoTrees, PageTree, SoundPage
<1> QED
  BY <1>5, <1>6 DEF MadeFrom, HandledBy

\* What a batch leads to.
LEMMA BatchTyped ==
  ASSUME NEW P, SoundPage(P), NEW L \in Seq(PagePatches), NEW clears \in BOOLEAN
  PROVE  After(P, L, clears) \in RunStates
PROOF
<1>1. PICK f : Batching(f, RunStates, P, L, clears)
  BY BatchRuns
<1>2. Len(L) \in 0..Len(L)
  OBVIOUS
<1> QED
  BY <1>1, <1>2 DEF Batching

\* The page is sound: a node has one parent, its children are there.
PageSound ==
  /\ shown \in PageTrees \cup {NoTree} /\ SoundPage(page)
  /\ displaced \subseteq PageIds /\ harm \in {"none", "torn", "broken"}
  /\ pageRenders \in 0..MaxPageRenders

\* The first page is sound.
LEMMA PageSoundInit ==
  PageInit => PageSound
PROOF
<1> SUFFICES ASSUME PageInit PROVE PageSound
  OBVIOUS
<1>1. SoundPage(Blank)
  <2>1. \E h : PageTree(Expected(NoTree), h)
    BY NoTreeBuilt
  <2>2. Expected(NoTree) = Blank
    BY DEF Expected
  <2> QED
    BY <2>1, <2>2 DEF PageTree
<1>2. 0 \in 0..MaxPageRenders
  BY PageAssumption
<1> QED
  BY <1>1, <1>2 DEF PageInit, PageSound

\* Every batch leaves the page sound, whether it is applied as a whole or not.
LEMMA PageSoundStep ==
  PageSound /\ [PageNext]_pageVars => PageSound'
PROOF
<1> SUFFICES ASSUME PageSound, [PageNext]_pageVars PROVE PageSound'
  OBVIOUS
<1>1. CASE UNCHANGED pageVars
  BY <1>1 DEF PageSound, pageVars
<1>2. ASSUME NEW new \in PageTrees, RenderPage(new) PROVE PageSound'
  <2> DEFINE L == Patches(shown, new)
             after == After(page, L, TRUE)
             kept == KeptNodes(shown, new)
  <2>1. L \in Seq(PagePatches)
    BY PatchesTyped DEF PageSound
  <2> HIDE DEF L
  <2>2. after \in RunStates
    BY <2>1, BatchTyped DEF PageSound
  <2>3. SoundPage(after.page)
    BY <2>2, SoundIsTyped DEF RunStates
  <2>4. kept \subseteq PageIds
    <3>1. shown \in PageTrees \cup {NoTree}
      BY DEF PageSound
    <3>2. KeptNodes(shown, new) \subseteq SameNodes(shown, new)
      BY <3>1, KeptFacts
    <3>3. DOMAIN shown \subseteq PageIds
      BY <3>1, ShownTree
    <3> QED
      BY <3>2, <3>3 DEF SameNodes
  <2>5. pageRenders' \in 0..MaxPageRenders
    BY <1>2, PageAssumption DEF RenderPage, PageSound
  <2>6. CASE ~Admitted(page, L)
    BY <1>2, <2>5, <2>6 DEF RenderPage, PageSound, L
  <2>7. CASE Admitted(page, L)
    <3>1. /\ page' = after.page
          /\ shown' = IF after.whole THEN new ELSE shown
          /\ harm' = IF ~after.whole THEN "broken"
                     ELSE IF harm = "none" /\ Tears(shown, new) THEN "torn" ELSE harm
          /\ displaced' = (displaced \cap kept)
               \cup {id \in kept : \E k \in Staying(shown, new, id) : k \notin kept}
      BY <1>2, <2>7 DEF RenderPage, L
    <3> HIDE DEF after, kept
    <3>2. displaced' \subseteq PageIds
      BY <2>4, <3>1
    <3>3. shown' \in PageTrees \cup {NoTree} /\ harm' \in {"none", "torn", "broken"}
      BY <3>1 DEF PageSound
    <3> QED
      BY <2>3, <2>5, <3>1, <3>2, <3>3 DEF PageSound
  <2> QED
    BY <2>6, <2>7
<1> QED
  BY <1>1, <1>2 DEF PageNext

\* A sound page has its type.
LEMMA PageSoundTyped ==
  PageSound => PageTypeOK
PROOF
<1> SUFFICES ASSUME PageSound PROVE PageTypeOK
  OBVIOUS
<1>1. SoundPage(page) /\ HostRoot \notin PageIds
  BY PageAssumption DEF PageSound
<1>2. \A id \in DOMAIN page : KidsOf(page, id) \subseteq DOMAIN page \ {HostRoot}
  <2> SUFFICES ASSUME NEW id \in DOMAIN page PROVE KidsOf(page, id) \subseteq DOMAIN page \ {HostRoot}
    OBVIOUS
  <2>1. KidsOf(page, id) \subseteq PageIds \cap DOMAIN page
    BY <1>1, SoundRow
  <2> QED
    BY <1>1, <2>1
<1>3. HostRoot \in DOMAIN page /\ DOMAIN page \subseteq PageIds \cup {HostRoot}
  BY <1>1 DEF SoundPage
<1> QED
  BY <1>2, <1>3 DEF PageSound, PageTypeOK

\* The page has the nodes of trees, each with children that are there.
THEOREM PageTypeCorrect == PageSpec => []PageTypeOK
PROOF
<1>1. PageInit => PageSound
  BY PageSoundInit
<1>2. PageSound /\ [PageNext]_pageVars => PageSound'
  BY PageSoundStep
<1>3. PageSound => PageTypeOK
  BY PageSoundTyped
<1> QED
  BY <1>1, <1>2, <1>3, PTL DEF PageSpec
(* What is below the nodes of a tree. *)

\* Below a node are the node, nodes of lower rank, and what is below its children.
LEMMA BelowFacts ==
  ASSUME NEW E, NEW h, PageTree(E, h), NEW id \in DOMAIN E
  PROVE  /\ id \in Under(E, id) /\ Under(E, id) \subseteq DOMAIN E
         /\ \A n \in Under(E, id) : h[n] <= h[id] /\ KidsOf(E, n) \subseteq Under(E, id)
         /\ \A Z : id \in Z /\ ClosedIn(E, Z) => Under(E, id) \subseteq Z
PROOF
<1>1. SoundPage(E) /\ \A n \in DOMAIN E : KidsOf(E, n) \subseteq DOMAIN E
  BY DEF PageTree, SoundPage
<1>2. /\ id \in Under(E, id) /\ ClosedIn(E, Under(E, id))
      /\ \A Z : id \in Z /\ ClosedIn(E, Z) => Under(E, id) \subseteq Z
  BY <1>1, PageIsFinite, UnderFacts
<1> DEFINE Z == {n \in DOMAIN E : h[n] <= h[id]}
<1>3. id \in Z
  <2>1. h[id] \in Nat
    BY DEF PageTree
  <2> QED
    BY <2>1
<1>4. ClosedIn(E, Z)
  <2> SUFFICES ASSUME NEW n \in Z \cap DOMAIN E, NEW k \in KidsOf(E, n) PROVE k \in Z
    BY DEF ClosedIn
  <2>1. k \in DOMAIN E /\ h[k] < h[n] /\ h[n] <= h[id] /\ h[k] \in Nat /\ h[n] \in Nat /\ h[id] \in Nat
    BY <1>1 DEF PageTree
  <2> QED
    BY <2>1
<1>5. Under(E, id) \subseteq Z
  BY <1>2, <1>3, <1>4
<1>6. \A n \in Under(E, id) : n \in DOMAIN E /\ h[n] <= h[id]
  BY <1>5
<1>7. \A n \in Under(E, id) : KidsOf(E, n) \subseteq Under(E, id)
  BY <1>2, <1>6 DEF ClosedIn
<1> QED
  BY <1>2, <1>6, <1>7

\* What is below a child is below the node, and the node is not.
LEMMA BelowKid ==
  ASSUME NEW E, NEW h, PageTree(E, h), NEW id \in DOMAIN E, NEW k \in KidsOf(E, id)
  PROVE  /\ k \in DOMAIN E /\ Under(E, k) \subseteq Under(E, id) /\ id \notin Under(E, k)
PROOF
<1>1. k \in DOMAIN E
  BY DEF PageTree, SoundPage
<1>2. k \in Under(E, id) /\ ClosedIn(E, Under(E, id))
  BY BelowFacts DEF ClosedIn
<1>3. Under(E, k) \subseteq Under(E, id)
  BY <1>1, <1>2, BelowFacts
<1>4. h[k] < h[id] /\ h[k] \in Nat /\ h[id] \in Nat
  BY <1>1 DEF PageTree
<1>5. id \in Under(E, k) => h[id] <= h[k]
  BY <1>1, BelowFacts
<1> QED
  BY <1>1, <1>3, <1>4, <1>5

\* Below a node are the node and what is below its children.
LEMMA BelowKids ==
  ASSUME NEW E, NEW h, PageTree(E, h), NEW id \in DOMAIN E
  PROVE  Under(E, id) = {id} \cup UNION {Under(E, k) : k \in KidsOf(E, id)}
PROOF
<1> DEFINE Z == {id} \cup UNION {Under(E, k) : k \in KidsOf(E, id)}
<1>1. ClosedIn(E, Z)
  <2> SUFFICES ASSUME NEW n \in Z \cap DOMAIN E, NEW c \in KidsOf(E, n) PROVE c \in Z
    BY DEF ClosedIn
  <2>1. CASE n = id
    <3>1. c \in DOMAIN E /\ c \in Under(E, c)
      BY <2>1, BelowKid, BelowFacts
    <3> QED
      BY <2>1, <3>1
  <2>2. CASE n # id
    <3>1. PICK k \in KidsOf(E, id) : n \in Under(E, k)
      BY <2>2
    <3>2. k \in DOMAIN E
      BY BelowKid
    <3>3. c \in Under(E, k)
      BY <3>1, <3>2, BelowFacts
    <3> QED
      BY <3>3
  <2> QED
    BY <2>1, <2>2
<1>2. Under(E, id) \subseteq Z
  <2> HIDE DEF Z
  <2>1. id \in Z
    BY DEF Z
  <2> QED
    BY <1>1, <2>1, BelowFacts
<1>3. \A k \in KidsOf(E, id) : Under(E, k) \subseteq Under(E, id)
  BY BelowKid
<1>4. id \in Under(E, id)
  BY BelowFacts
<1> QED
  BY <1>2, <1>3, <1>4

\* Nothing is below two children of a node.
LEMMA BelowApart ==
  ASSUME NEW E, NEW h, PageTree(E, h), NEW id \in DOMAIN E,
         NEW k \in KidsOf(E, id), NEW m \in KidsOf(E, id), k # m
  PROVE  Under(E, k) \cap Under(E, m) = {}
PROOF
<1>1. /\ k \in DOMAIN E /\ m \in DOMAIN E /\ id \notin Under(E, k) /\ id \notin Under(E, m)
      /\ SoundPage(E)
  BY BelowKid DEF PageTree
<1> DEFINE Z == Under(E, k) \ Under(E, m)
<1>2. k \in Z
  <2>1. k \in Under(E, k)
    BY <1>1, BelowFacts
  <2>2. k \in Under(E, m) => id \in Under(E, m)
    BY <1>1, UnderParent
  <2> QED
    BY <1>1, <2>1, <2>2
<1>3. ClosedIn(E, Z)
  <2> SUFFICES ASSUME NEW n \in Z \cap DOMAIN E, NEW c \in KidsOf(E, n), c \in Under(E, m) PROVE FALSE
    <3>1. \A n \in Z : KidsOf(E, n) \subseteq Under(E, k)
      BY <1>1, BelowFacts
    <3> QED
      BY <3>1 DEF ClosedIn
  <2>1. c # m => n \in Under(E, m)
    BY <1>1, UnderParent
  <2>2. c = m => n = id
    BY <1>1 DEF SoundPage
  <2> QED
    BY <1>1, <2>1, <2>2
<1>4. Under(E, k) \subseteq Z
  <2> HIDE DEF Z
  <2> QED
    BY <1>1, <1>2, <1>3, BelowFacts
<1> QED
  BY <1>4

\* All is below the element of the host.
LEMMA BelowHost ==
  ASSUME NEW E, NEW h, PageTree(E, h)
  PROVE  Under(E, HostRoot) = DOMAIN E
PROOF
<1>1. /\ HostRoot \in DOMAIN E /\ SoundPage(E)
      /\ \A n \in DOMAIN E : h[n] \in Nat /\ h[n] <= h[HostRoot] /\ \A k \in KidsOf(E, n) : h[k] < h[n]
      /\ \A k \in DOMAIN E \ {HostRoot} : \E n \in DOMAIN E : k \in KidsOf(E, n)
  BY DEF PageTree, SoundPage
<1> DEFINE d == [n \in DOMAIN E |-> h[HostRoot] - h[n]]
           T == Under(E, HostRoot)
<1>2. \A n \in DOMAIN E : d[n] \in Nat
  BY <1>1
<1>3. ASSUME NEW k \in DOMAIN E, \A n \in DOMAIN E : d[n] < d[k] => n \in T PROVE k \in T
  <2>1. CASE k = HostRoot
    BY <1>1, <2>1, BelowFacts
  <2>2. CASE k # HostRoot
    <3>1. PICK n \in DOMAIN E : k \in KidsOf(E, n)
      BY <1>1, <2>2
    <3>2. h[k] < h[n] /\ h[k] \in Nat /\ h[n] \in Nat /\ h[HostRoot] \in Nat
      BY <1>1, <3>1
    <3>3. d[n] < d[k]
      BY <3>2
    <3>4. n \in T
      BY <1>3, <3>3
    <3> QED
      BY <1>1, <3>1, <3>4, BelowFacts
  <2> QED
    BY <2>1, <2>2
<1>4. DOMAIN E \subseteq T
  <2> HIDE DEF d, T
  <2> QED
    BY <1>2, <1>3, ByRank
<1> QED
  BY <1>1, <1>4, BelowFacts
-----------------------------------------------------------------------------
(* The nodes that a batch keeps. *)

\* K has the host's element and, below a node of K, the children that both trees have
\* there with one tag.
KeepsNodes(O, W, K) ==
  /\ HostRoot \in K /\ K \subseteq DOMAIN O \cap DOMAIN W
  /\ \A n \in K : O[n].tag = W[n].tag
  /\ \A p \in K : \A k \in KidsOf(O, p) \cap KidsOf(W, p) : O[k].tag = W[k].tag => k \in K
  /\ \A k \in K \ {HostRoot} : \E p \in K : k \in KidsOf(O, p) \cap KidsOf(W, p)

\* What is below a node that is not kept is not kept.
LEMMA BelowUnkept ==
  ASSUME NEW O, NEW W, NEW g, NEW h, TwoTrees(O, W, g, h), NEW K, KeepsNodes(O, W, K),
         NEW k, k \notin K
  PROVE  /\ k \in DOMAIN O => Under(O, k) \cap K = {}
         /\ k \in DOMAIN W => Under(W, k) \cap K = {}
PROOF
<1>1. ASSUME NEW E, NEW r, PageTree(E, r), NEW c \in DOMAIN E, c \notin K,
             K \subseteq DOMAIN E, \A n \in K \ {HostRoot} : \E p \in K : n \in KidsOf(E, p)
      PROVE  Under(E, c) \cap K = {}
  <2> DEFINE Z == Under(E, c) \ K
  <2>1. c \in Z
    BY <1>1, BelowFacts
  <2>2. ClosedIn(E, Z)
    <3> SUFFICES ASSUME NEW n \in Z \cap DOMAIN E, NEW m \in KidsOf(E, n), m \in K PROVE FALSE
      <4>1. \A n \in Z : KidsOf(E, n) \subseteq Under(E, c)
        BY <1>1, BelowFacts
      <4> QED
        BY <4>1 DEF ClosedIn
    <3>1. m # HostRoot
      BY <1>1, TreeRow
    <3>2. PICK p \in K : m \in KidsOf(E, p)
      BY <1>1, <3>1
    <3>3. p = n
      BY <1>1, <3>2 DEF PageTree, SoundPage
    <3> QED
      BY <3>2, <3>3
  <2>3. Under(E, c) \subseteq Z
    <3> HIDE DEF Z
    <3> QED
      BY <1>1, <2>1, <2>2, BelowFacts
  <2> QED
    BY <2>3
<1>2. K \subseteq DOMAIN O /\ K \subseteq DOMAIN W /\ PageTree(O, g) /\ PageTree(W, h)
  BY DEF KeepsNodes, TwoTrees
<1>3. \A k1 \in K \ {HostRoot} : (\E p \in K : k1 \in KidsOf(O, p)) /\ (\E p \in K : k1 \in KidsOf(W, p))
  BY DEF KeepsNodes
<1>4. k \in DOMAIN O => Under(O, k) \cap K = {}
  BY <1>1, <1>2, <1>3
<1>5. k \in DOMAIN W => Under(W, k) \cap K = {}
  BY <1>1, <1>2, <1>3
<1> QED
  BY <1>4, <1>5
(* Batches, one after the other. *)

\* The batch of a list, on the page P, is applied as a whole and leaves the page Q.
LeadsTo(P, list, clears, Q) == After(P, list, clears) = [page |-> Q, whole |-> TRUE]

LEMMA OutcomeIs ==
  ASSUME NEW a, NEW w \in BOOLEAN
  PROVE  /\ [page |-> a, whole |-> w].page = a /\ ([page |-> a, whole |-> w].whole <=> w)
         /\ \A Q : [page |-> a, whole |-> w] = [page |-> Q, whole |-> TRUE] <=> a = Q /\ w
PROOF
<1>1. [page |-> a, whole |-> w].page = a /\ [page |-> a, whole |-> w].whole = w
  OBVIOUS
<1>2. ASSUME NEW Q PROVE [page |-> Q, whole |-> TRUE].page = Q /\ [page |-> Q, whole |-> TRUE].whole = TRUE
  OBVIOUS
<1>3. CASE w = TRUE
  BY <1>1, <1>2, <1>3
<1>4. CASE w = FALSE
  BY <1>1, <1>2, <1>4
<1> QED
  BY <1>3, <1>4

\* A batch is whole where it leads somewhere.
LEMMA WholeIs ==
  ASSUME NEW P, SoundPage(P), NEW list \in Seq(PagePatches), NEW clears \in BOOLEAN
  PROVE  /\ After(P, list, clears).whole <=> LeadsTo(P, list, clears, After(P, list, clears).page)
         /\ \A Q : LeadsTo(P, list, clears, Q) =>
              SoundPage(Q) /\ After(P, list, clears).whole /\ After(P, list, clears).page = Q
PROOF
<1>1. After(P, list, clears) \in RunStates
  BY BatchTyped
<1>2. PICK a \in SoundPages, w \in BOOLEAN : After(P, list, clears) = [page |-> a, whole |-> w]
  BY <1>1 DEF RunStates
<1>3. SoundPage(a)
  BY SoundIsTyped
<1> DEFINE r == After(P, list, clears)
<1>4. r.page = a /\ (r.whole <=> w) /\ \A Q : r = [page |-> Q, whole |-> TRUE] <=> a = Q /\ w
  BY <1>2, OutcomeIs
<1>5. \A Q : LeadsTo(P, list, clears, Q) <=> r = [page |-> Q, whole |-> TRUE]
  BY DEF LeadsTo
<1> HIDE DEF r
<1>6. /\ r.whole <=> LeadsTo(P, list, clears, r.page)
      /\ \A Q : LeadsTo(P, list, clears, Q) => SoundPage(Q) /\ r.whole /\ r.page = Q
  BY <1>3, <1>4, <1>5
<1> QED
  BY <1>6 DEF r

\* What a batch does with one more patch.
LEMMA LeadsBuilt ==
  ASSUME NEW P, SoundPage(P), NEW s \in Seq(PagePatches), NEW p \in PagePatches,
         NEW clears \in BOOLEAN
  PROVE  /\ After(P, <<>>, clears) = [page |-> P, whole |-> TRUE]
         /\ After(P, Append(s, p), clears) = Then(After(P, s, clears), p, clears)
PROOF
<1> DEFINE T == {t \in Seq(PagePatches) : TRUE}
<1>1. Append(s, p) \in Seq(PagePatches) /\ Len(Append(s, p)) = Len(s) + 1 /\ Len(s) \in Nat
      /\ Append(s, p)[Len(s) + 1] = p /\ \A i \in 1..Len(s) : Append(s, p)[i] = s[i]
  OBVIOUS
<1>2. PICK f : Batching(f, RunStates, P, Append(s, p), clears)
  BY <1>1, BatchRuns
<1>3. PICK g : Batching(g, RunStates, P, s, clears)
  BY BatchRuns
<1>4. PICK e : Batching(e, RunStates, P, <<>>, clears)
  <2>1. <<>> \in Seq(PagePatches)
    OBVIOUS
  <2> QED
    BY <2>1, BatchRuns
<1>5. \A i \in 0..Len(s) : f[i] = g[i]
  <2> DEFINE S == {i \in 0..Len(s) : f[i] = g[i]}
  <2>1. 0 \in S
    <3>1. f[0] = [page |-> P, whole |-> TRUE] /\ g[0] = [page |-> P, whole |-> TRUE]
      BY <1>2, <1>3 DEF Batching
    <3> QED
      BY <1>1, <3>1
  <2>2. ASSUME NEW m \in 1..Len(s), m - 1 \in S PROVE m \in S
    <3>1. m \in 0..Len(s) /\ m \in 1..Len(Append(s, p)) /\ Append(s, p)[m] = s[m]
      BY <1>1
    <3>2. f[m] = Then(f[m - 1], s[m], clears)
      BY <1>2, <3>1 DEF Batching
    <3>3. g[m] = Then(g[m - 1], s[m], clears)
      BY <1>3 DEF Batching
    <3> QED
      BY <2>2, <3>1, <3>2, <3>3
  <2> HIDE DEF S
  <2>3. \A m \in 0..Len(s) : m \in S
    BY <1>1, <2>1, <2>2, NumbersUpTo
  <2> QED
    BY <2>3 DEF S
<1>6. f[Len(s) + 1] = Then(f[Len(s)], p, clears)
  <2>1. Len(s) + 1 \in 1..Len(Append(s, p)) /\ Len(s) + 1 - 1 = Len(s)
    BY <1>1
  <2>2. f[Len(s) + 1] = Then(f[Len(s) + 1 - 1], Append(s, p)[Len(s) + 1], clears)
    BY <1>2, <2>1 DEF Batching
  <2> QED
    BY <1>1, <2>1, <2>2
<1>7. After(P, <<>>, clears) = e[0] /\ e[0] = [page |-> P, whole |-> TRUE]
  <2>1. Len(<<>>) = 0
    OBVIOUS
  <2> QED
    BY <1>4, <2>1 DEF Batching
<1>8. After(P, Append(s, p), clears) = f[Len(s) + 1] /\ After(P, s, clears) = g[Len(s)]
  BY <1>1, <1>2, <1>3 DEF Batching
<1>9. f[Len(s)] = g[Len(s)]
  BY <1>1, <1>5
<1> QED
  BY <1>6, <1>7, <1>8, <1>9

\* What one patch does that is admitted.
PatchedPage(P, p, clears) == IF p.kind = "text" /\ ~clears THEN P ELSE Applied(P, p)

\* A batch and one more patch.
LEMMA LeadsAppend ==
  ASSUME NEW P, SoundPage(P), NEW s \in Seq(PagePatches), NEW p \in PagePatches,
         NEW clears \in BOOLEAN, NEW Q
  PROVE  LeadsTo(P, Append(s, p), clears, Q) <=>
           \E R : LeadsTo(P, s, clears, R) /\ Admits(R, p) /\ Q = PatchedPage(R, p, clears)
PROOF
<1>1. After(P, s, clears) \in RunStates
  BY BatchTyped
<1>2. PICK R \in SoundPages, w \in BOOLEAN : After(P, s, clears) = [page |-> R, whole |-> w]
  BY <1>1 DEF RunStates
<1>3. After(P, Append(s, p), clears) = Then([page |-> R, whole |-> w], p, clears)
  BY <1>2, LeadsBuilt
<1>4. CASE w /\ Admits(R, p)
  <2>1. Then([page |-> R, whole |-> TRUE], p, clears) = [page |-> PatchedPage(R, p, clears), whole |-> TRUE]
    BY <1>4 DEF Then, PatchedPage
  <2>2. \A M : LeadsTo(P, s, clears, M) <=> M = R
    <3>1. \A M : [page |-> R, whole |-> w] = [page |-> M, whole |-> TRUE] <=> R = M /\ w
      BY OutcomeIs
    <3>2. \A M : LeadsTo(P, s, clears, M) <=> [page |-> R, whole |-> w] = [page |-> M, whole |-> TRUE]
      BY <1>2 DEF LeadsTo
    <3> QED
      BY <1>4, <3>1, <3>2
  <2>3. LeadsTo(P, Append(s, p), clears, Q) <=> Q = PatchedPage(R, p, clears)
    <3> DEFINE S == PatchedPage(R, p, clears)
    <3>1. w = TRUE
      BY <1>4
    <3>2. After(P, Append(s, p), clears) = [page |-> S, whole |-> TRUE]
      BY <1>3, <2>1, <3>1
    <3> HIDE DEF S
    <3>3. [page |-> S, whole |-> TRUE] = [page |-> Q, whole |-> TRUE] <=> S = Q
      <4>1. TRUE \in BOOLEAN
        OBVIOUS
      <4> QED
        BY <4>1, OutcomeIs
    <3>4. LeadsTo(P, Append(s, p), clears, Q) <=> S = Q
      BY <3>2, <3>3 DEF LeadsTo
    <3> QED
      BY <3>4 DEF S
  <2> QED
    BY <1>4, <2>2, <2>3
<1>5. CASE ~(w /\ Admits(R, p))
  <2>1. Then([page |-> R, whole |-> w], p, clears) = [page |-> R, whole |-> FALSE]
    BY <1>5 DEF Then
  <2>2. \A M : LeadsTo(P, s, clears, M) => M = R /\ w
    BY <1>2, OutcomeIs DEF LeadsTo
  <2>3. ~LeadsTo(P, Append(s, p), clears, Q)
    BY <1>3, <2>1, OutcomeIs DEF LeadsTo
  <2> QED
    BY <1>5, <2>2, <2>3
<1> QED
  BY <1>4, <1>5

LEMMA LeadsNowhere ==
  ASSUME NEW P, SoundPage(P), NEW clears \in BOOLEAN, NEW Q
  PROVE  LeadsTo(P, <<>>, clears, Q) <=> Q = P
PROOF
<1>1. PICK e : Batching(e, RunStates, P, <<>>, clears)
  <2>1. <<>> \in Seq(PagePatches)
    OBVIOUS
  <2> QED
    BY <2>1, BatchRuns
<1>3. After(P, <<>>, clears) = [page |-> P, whole |-> TRUE]
  <2>1. Len(<<>>) = 0
    OBVIOUS
  <2> QED
    BY <1>1, <2>1 DEF Batching
<1> QED
  BY <1>3, OutcomeIs DEF LeadsTo

LEMMA LeadsOne ==
  ASSUME NEW P, SoundPage(P), NEW p \in PagePatches, NEW clears \in BOOLEAN, NEW Q
  PROVE  LeadsTo(P, <<p>>, clears, Q) <=> Admits(P, p) /\ Q = PatchedPage(P, p, clears)
PROOF
<1>1. <<>> \in Seq(PagePatches) /\ <<p>> = Append(<<>>, p)
  OBVIOUS
<1>2. \A R : LeadsTo(P, <<>>, clears, R) <=> R = P
  BY LeadsNowhere
<1> DEFINE none == <<>>
<1>3. none \in Seq(PagePatches)
  OBVIOUS
<1> HIDE DEF none
<1>4. LeadsTo(P, Append(none, p), clears, Q) <=>
        \E R : LeadsTo(P, none, clears, R) /\ Admits(R, p) /\ Q = PatchedPage(R, p, clears)
  BY <1>3, LeadsAppend
<1> QED
  BY <1>1, <1>2, <1>4 DEF none

\* One batch after the other.
LEMMA LeadsConcat ==
  ASSUME NEW P, SoundPage(P), NEW a \in Seq(PagePatches), NEW b \in Seq(PagePatches),
         NEW clears \in BOOLEAN, NEW Q
  PROVE  LeadsTo(P, a \o b, clears, Q) <=> \E R : LeadsTo(P, a, clears, R) /\ LeadsTo(R, b, clears, Q)
PROOF
<1> DEFINE Good(t) == \A S : LeadsTo(P, a \o t, clears, S) <=>
                        \E R : LeadsTo(P, a, clears, R) /\ LeadsTo(R, t, clears, S)
           T == {t \in Seq(PagePatches) : Good(t)}
<1>0. \A R : LeadsTo(P, a, clears, R) => SoundPage(R)
  BY WholeIs
<1>1. <<>> \in T
  <2>1. <<>> \in Seq(PagePatches) /\ a \o <<>> = a
    OBVIOUS
  <2>2. \A R, S : LeadsTo(P, a, clears, R) => (LeadsTo(R, <<>>, clears, S) <=> S = R)
    BY <1>0, LeadsNowhere
  <2>3. Good(<<>>)
    BY <2>1, <2>2
  <2> QED
    BY <2>1, <2>3
<1>2. \A t \in Seq(PagePatches) : \A p \in PagePatches : t \in T => Append(t, p) \in T
  <2> SUFFICES ASSUME NEW t \in Seq(PagePatches), NEW p \in PagePatches, t \in T
               PROVE  Append(t, p) \in T
    OBVIOUS
  <2>1. /\ Append(t, p) \in Seq(PagePatches) /\ a \o Append(t, p) = Append(a \o t, p)
        /\ a \o t \in Seq(PagePatches)
    OBVIOUS
  <2>2. ASSUME NEW S
        PROVE  LeadsTo(P, a \o Append(t, p), clears, S) <=>
                 \E R : LeadsTo(P, a, clears, R) /\ LeadsTo(R, Append(t, p), clears, S)
    <3>1. LeadsTo(P, Append(a \o t, p), clears, S) <=>
            \E M : LeadsTo(P, a \o t, clears, M) /\ Admits(M, p) /\ S = PatchedPage(M, p, clears)
      <4> DEFINE at == a \o t
      <4>1. at \in Seq(PagePatches)
        BY <2>1
      <4> HIDE DEF T, at
      <4>2. LeadsTo(P, Append(at, p), clears, S) <=>
              \E M : LeadsTo(P, at, clears, M) /\ Admits(M, p) /\ S = PatchedPage(M, p, clears)
        BY <4>1, LeadsAppend
      <4> QED
        BY <4>2 DEF at
    <3>2. \A M : LeadsTo(P, a \o t, clears, M) <=>
            \E R : LeadsTo(P, a, clears, R) /\ LeadsTo(R, t, clears, M)
      OBVIOUS
    <3>3. \A R : LeadsTo(P, a, clears, R) =>
            (LeadsTo(R, Append(t, p), clears, S) <=>
               \E M : LeadsTo(R, t, clears, M) /\ Admits(M, p) /\ S = PatchedPage(M, p, clears))
      <4> HIDE DEF T
      <4> QED
        BY <1>0, LeadsAppend
    <3> HIDE DEF T
    <3> QED
      BY <2>1, <3>1, <3>2, <3>3
  <2> QED
    BY <2>1, <2>2
<1> HIDE DEF T
<1>3. \A t \in Seq(PagePatches) : t \in T
  BY <1>1, <1>2, SequencesBuilt
<1>4. b \in T
  BY <1>3
<1> QED
  BY <1>4 DEF T

\* A page with the patch p is what PatchSound says.
LEMMA PatchedFacts ==
  ASSUME NEW P, SoundPage(P), NEW p \in PagePatches, Admits(P, p), NEW clears \in BOOLEAN
  PROVE  /\ SoundPage(PatchedPage(P, p, clears))
         /\ p.kind = "create" => CreateDone(P, PatchedPage(P, p, clears), p)
         /\ p.kind = "text" /\ clears => TextDone(P, PatchedPage(P, p, clears), p)
         /\ p.kind = "text" /\ ~clears => PatchedPage(P, p, clears) = P
         /\ p.kind = "remove" => RemoveDone(P, PatchedPage(P, p, clears), p)
         /\ p.kind = "place" => PlaceDone(P, PatchedPage(P, p, clears), p)
PROOF
<1>1. CASE p.kind = "text" /\ ~clears
  BY <1>1 DEF PatchedPage
<1>2. CASE ~(p.kind = "text" /\ ~clears)
  <2>1. PatchedPage(P, p, clears) = Applied(P, p)
    BY <1>2 DEF PatchedPage
  <2> QED
    BY <1>2, <2>1, PatchSound
<1> QED
  BY <1>1, <1>2
(* Single patches. *)

\* The child k came to the children of id, before another one; Q after P.
HungPage(P, Q, id, k, before) ==
  /\ SoundPage(Q) /\ DOMAIN Q = DOMAIN P
  /\ \A n \in DOMAIN P \ {id} : Q[n] = P[n]
  /\ Q[id].tag = P[id].tag /\ Q[id].text = P[id].text
  /\ Q[id].kids = Moved(P[id].kids, k, before)
  /\ KidsOf(Q, id) = KidsOf(P, id) \cup {k}

\* A child that hung nowhere else is placed.
LEMMA Hangs ==
  ASSUME NEW P, SoundPage(P), NEW clears \in BOOLEAN, NEW p \in PagePatches, Admits(P, p), p.kind = "place",
         \A n \in DOMAIN P \ {p.target} : p.child \notin KidsOf(P, n)
  PROVE  HungPage(P, PatchedPage(P, p, clears), p.target, p.child, p.before)
PROOF
<1> DEFINE Q == PatchedPage(P, p, clears)
           id == p.target
           k == p.child
           b == p.before
<1>1. SoundPage(Q) /\ PlaceDone(P, Q, p)
  BY PatchedFacts
<1>2. b \in KidsOf(P, id) \cup {NoNode} /\ k \in DOMAIN P \ {HostRoot}
  BY DEF Admits
<1>3. id \in DOMAIN P /\ DOMAIN Q = DOMAIN P
  BY <1>1 DEF PlaceDone
<1>4. b # k
  BY DEF PagePatches
<1>5. k \in PageIds
  BY <1>2 DEF SoundPage
<1> HIDE DEF Q
<1>6. ASSUME NEW n \in DOMAIN P \ {id} PROVE Q[n] = P[n]
  <2>1. Q[n] = [tag |-> P[n].tag, text |-> P[n].text, kids |-> Cut(P[n].kids, k)]
    BY <1>1, <1>6 DEF PlaceDone
  <2>2. /\ P[n] = [tag |-> P[n].tag, text |-> P[n].text, kids |-> P[n].kids]
        /\ P[n].kids \in Seq(PageIds) /\ Distinct(P[n].kids) /\ KidsOf(P, n) = ToSet(P[n].kids)
    BY <1>6, SoundRow
  <2>3. Cut(P[n].kids, k) = P[n].kids
    BY <1>6, <2>2, CutFacts
  <2> QED
    BY <2>1, <2>2, <2>3
<1> DEFINE s == P[id].kids
<1>7. s \in Seq(PageIds) /\ Distinct(s) /\ KidsOf(P, id) = ToSet(s)
  BY <1>3, SoundRow
<1>8. Q[id].tag = P[id].tag /\ Q[id].text = P[id].text /\ Q[id].kids = Moved(Cut(s, k), k, b)
  BY <1>1, <1>3 DEF PlaceDone
<1> HIDE DEF s
<1>9. Cut(Cut(s, k), k) = Cut(s, k)
  <2> DEFINE r == Cut(s, k)
  <2>1. r \in Seq(PageIds) /\ Distinct(r) /\ ToSet(r) = ToSet(s) \ {k}
    BY <1>7, CutFacts
  <2> HIDE DEF r
  <2>2. Cut(r, k) = r
    BY <2>1, CutFacts
  <2> QED
    BY <2>2 DEF r
<1>10. Moved(Cut(s, k), k, b) = Moved(s, k, b)
  BY <1>9 DEF Moved
<1>11. ToSet(Moved(s, k, b)) = ToSet(s) \cup {k}
  BY <1>2, <1>4, <1>5, <1>7, MovedFacts
<1>12. KidsOf(Q, id) = KidsOf(P, id) \cup {k}
  BY <1>7, <1>8, <1>10, <1>11 DEF KidsOf
<1> QED
  BY <1>1, <1>3, <1>6, <1>8, <1>10, <1>12 DEF HungPage, Q, s

\* A child may be placed if what is below it does not have the parent.
LEMMA MayHang ==
  ASSUME NEW P, NEW p \in PagePatches, p.kind = "place", p.target \in DOMAIN P,
         p.child \in DOMAIN P \ {HostRoot}, p.before \in KidsOf(P, p.target) \cup {NoNode},
         NEW Z, p.child \in Z, ClosedIn(P, Z), p.target \notin Z, IsFiniteSet(DOMAIN P)
  PROVE  Admits(P, p)
PROOF
<1>1. Under(P, p.child) \subseteq Z
  BY UnderFacts
<1> QED
  BY <1>1 DEF Admits

\* The node k went, a child of id at most; Q after P.
DroppedPage(P, Q, id, k) ==
  /\ SoundPage(Q) /\ DOMAIN Q = DOMAIN P \ Under(P, k)
  /\ \A n \in DOMAIN Q \ {id} : Q[n] = P[n]
  /\ id \in DOMAIN Q =>
       /\ Q[id].tag = P[id].tag /\ Q[id].text = P[id].text
       /\ Q[id].kids = Among(P[id].kids, KidsOf(P, id) \ {k})
       /\ KidsOf(Q, id) = KidsOf(P, id) \ {k}

\* A node is removed with what is below it.
LEMMA Drops ==
  ASSUME NEW P, SoundPage(P), NEW clears \in BOOLEAN, NEW p \in PagePatches, p.kind = "remove",
         p.target \in DOMAIN P \ {HostRoot}, NEW id, \A n \in DOMAIN P \ {id} : p.target \notin KidsOf(P, n)
  PROVE  Admits(P, p) /\ DroppedPage(P, PatchedPage(P, p, clears), id, p.target)
PROOF
<1> DEFINE Q == PatchedPage(P, p, clears)
           k == p.target
<1>1. Admits(P, p)
  BY DEF Admits
<1>2. SoundPage(Q) /\ RemoveDone(P, Q, p)
  BY <1>1, PatchedFacts
<1> HIDE DEF Q
<1>3. /\ DOMAIN Q = DOMAIN P \ Under(P, k)
      /\ \A n \in DOMAIN Q : Q[n] = [tag |-> P[n].tag, text |-> P[n].text, kids |-> Cut(P[n].kids, k)]
  BY <1>2 DEF RemoveDone
<1>4. ASSUME NEW n \in DOMAIN P
      PROVE  /\ P[n] = [tag |-> P[n].tag, text |-> P[n].text, kids |-> P[n].kids]
             /\ P[n].kids \in Seq(PageIds) /\ KidsOf(P, n) = ToSet(P[n].kids)
             /\ ToSet(Cut(P[n].kids, k)) = KidsOf(P, n) \ {k}
             /\ k \notin KidsOf(P, n) => Cut(P[n].kids, k) = P[n].kids
             /\ Cut(P[n].kids, k) = Among(P[n].kids, KidsOf(P, n) \ {k})
  <2>1. /\ P[n] = [tag |-> P[n].tag, text |-> P[n].text, kids |-> P[n].kids]
        /\ P[n].kids \in Seq(PageIds) /\ Distinct(P[n].kids) /\ KidsOf(P, n) = ToSet(P[n].kids)
    BY <1>4, SoundRow
  <2>2. /\ ToSet(Cut(P[n].kids, k)) = ToSet(P[n].kids) \ {k}
        /\ k \notin ToSet(P[n].kids) => Cut(P[n].kids, k) = P[n].kids
    BY <2>1, CutFacts
  <2>3. Cut(P[n].kids, k) = Among(P[n].kids, ToSet(P[n].kids) \ {k})
    BY <2>1, CutIsAmong
  <2> QED
    BY <2>1, <2>2, <2>3
<1>5. ASSUME NEW n \in DOMAIN Q \ {id} PROVE Q[n] = P[n]
  <2>1. n \in DOMAIN P /\ k \notin KidsOf(P, n)
    BY <1>3, <1>5
  <2> QED
    BY <1>3, <1>4, <1>5, <2>1
<1>6. ASSUME id \in DOMAIN Q
      PROVE  /\ Q[id].tag = P[id].tag /\ Q[id].text = P[id].text
             /\ Q[id].kids = Among(P[id].kids, KidsOf(P, id) \ {k})
             /\ KidsOf(Q, id) = KidsOf(P, id) \ {k}
  <2>1. id \in DOMAIN P
    BY <1>3, <1>6
  <2>2. Q[id] = [tag |-> P[id].tag, text |-> P[id].text, kids |-> Cut(P[id].kids, k)]
    BY <1>3, <1>6
  <2>3. Q[id].tag = P[id].tag /\ Q[id].text = P[id].text /\ Q[id].kids = Cut(P[id].kids, k)
    BY <2>2
  <2> QED
    BY <1>4, <2>1, <2>3 DEF KidsOf
<1> QED
  BY <1>1, <1>2, <1>3, <1>5, <1>6 DEF DroppedPage, Q

\* The node id has another text, and no children unless the text clears nothing.
WordedPage(P, Q, id, text, clears) ==
  /\ SoundPage(Q) /\ DOMAIN Q = DOMAIN P
  /\ \A n \in DOMAIN P \ {id} : Q[n] = P[n]
  /\ Q[id].tag = P[id].tag
  /\ clears => Q[id].text = text /\ Q[id].kids = <<>>
  /\ ~clears => Q[id] = P[id]

\* A text takes the children away, if it clears.
LEMMA Worded ==
  ASSUME NEW P, SoundPage(P), NEW clears \in BOOLEAN, NEW p \in PagePatches, p.kind = "text",
         p.target \in DOMAIN P
  PROVE  Admits(P, p) /\ WordedPage(P, PatchedPage(P, p, clears), p.target, p.text, clears)
PROOF
<1> DEFINE Q == PatchedPage(P, p, clears)
<1>1. Admits(P, p)
  BY DEF Admits
<1>2. CASE clears
  <2>1. SoundPage(Q) /\ TextDone(P, Q, p)
    BY <1>1, <1>2, PatchedFacts
  <2> HIDE DEF Q
  <2> DEFINE id == p.target
             none == <<>>
             tag == P[id].tag
             text == p.text
  <2>2. /\ DOMAIN Q = DOMAIN P /\ Q[id] = [tag |-> tag, text |-> text, kids |-> none]
        /\ \A n \in DOMAIN P \ {id} : Q[n] = P[n]
    BY <2>1 DEF TextDone
  <2> HIDE DEF id, none, tag, text
  <2>3. Q[id].tag = tag /\ Q[id].text = text /\ Q[id].kids = none
    BY <2>2
  <2>4. WordedPage(P, Q, p.target, p.text, clears)
    BY <1>2, <2>1, <2>2, <2>3 DEF WordedPage, id, none, tag, text
  <2> QED
    BY <1>1, <2>4 DEF Q
<1>3. CASE ~clears
  <2>1. Q = P
    BY <1>1, <1>3, PatchedFacts
  <2> HIDE DEF Q
  <2> QED
    BY <1>1, <1>3, <2>1 DEF WordedPage, Q
<1> QED
  BY <1>2, <1>3
(* What a creation leads to. *)

\* The node n looks as in the tree W, with its children in their order.
Shaped(P, W, n, clears) ==
  P[n].tag = W[n].tag /\ P[n].kids = W[n].kids /\ (clears => P[n].text = W[n].text)

\* The nodes V of W came to the page; Q after P.
BuiltPage(P, Q, W, V, clears) ==
  /\ SoundPage(Q) /\ V \cap DOMAIN P = {} /\ DOMAIN Q = DOMAIN P \cup V
  /\ \A n \in DOMAIN P : Q[n] = P[n]
  /\ \A n \in V : Shaped(Q, W, n, clears)

\* The creation of id builds what is below it, and may be refused only for a node that
\* is there already.
Makes(W, id, created, clears) ==
  \A P : SoundPage(P) =>
    /\ \A Q : LeadsTo(P, created[id], clears, Q) => BuiltPage(P, Q, W, Under(W, id), clears)
    /\ Under(W, id) \cap DOMAIN P = {} => \E Q : LeadsTo(P, created[id], clears, Q)

\* The child k of id came to the page with what is below it.
JoinedPage(P, Q, W, id, k, clears) ==
  /\ SoundPage(Q) /\ Under(W, k) \cap DOMAIN P = {} /\ DOMAIN Q = DOMAIN P \cup Under(W, k)
  /\ \A n \in DOMAIN P \ {id} : Q[n] = P[n]
  /\ Q[id].tag = P[id].tag /\ Q[id].text = P[id].text /\ Q[id].kids = Append(P[id].kids, k)
  /\ KidsOf(Q, id) = KidsOf(P, id) \cup {k}
  /\ \A n \in Under(W, k) : Shaped(Q, W, n, clears)

\* What was built is placed as the last child.
LEMMA PlaceLast ==
  ASSUME NEW W, NEW h, PageTree(W, h), NEW id \in DOMAIN W, NEW k \in KidsOf(W, id),
         NEW clears \in BOOLEAN, NEW P, SoundPage(P), id \in DOMAIN P, NEW M,
         BuiltPage(P, M, W, Under(W, k), clears),
         NEW p \in PagePatches, p.kind = "place", p.target = id, p.child = k, p.before = NoNode
  PROVE  Admits(M, p) /\ JoinedPage(P, PatchedPage(M, p, clears), W, id, k, clears)
PROOF
<1> DEFINE V == Under(W, k)
           Q == PatchedPage(M, p, clears)
<1>1. /\ k \in DOMAIN W /\ k \in V /\ id \notin V /\ k # HostRoot
      /\ \A n \in V : KidsOf(W, n) \subseteq V
      /\ \A n \in V : k \notin KidsOf(W, n)
  <2>1. k \in DOMAIN W /\ id \notin V
    BY BelowKid
  <2>2. k \in V /\ V \subseteq DOMAIN W /\ \A n \in V : KidsOf(W, n) \subseteq V
    BY <2>1, BelowFacts
  <2>3. k # HostRoot
    BY TreeRow
  <2>4. \A n \in V : k \notin KidsOf(W, n)
    BY <2>1, <2>2 DEF PageTree, SoundPage
  <2> QED
    BY <2>1, <2>2, <2>3, <2>4
<1>2. /\ SoundPage(M) /\ V \cap DOMAIN P = {} /\ DOMAIN M = DOMAIN P \cup V
      /\ \A n \in DOMAIN P : M[n] = P[n] /\ KidsOf(M, n) = KidsOf(P, n)
      /\ \A n \in V : Shaped(M, W, n, clears) /\ KidsOf(M, n) = KidsOf(W, n)
  BY DEF BuiltPage, Shaped, KidsOf
<1>3. \A n \in DOMAIN P : KidsOf(P, n) \subseteq DOMAIN P
  BY DEF SoundPage
<1> HIDE DEF V
<1>4. Admits(M, p)
  <2>1. ClosedIn(M, V)
    BY <1>1, <1>2 DEF ClosedIn
  <2>2. IsFiniteSet(DOMAIN M)
    BY <1>2, PageIsFinite
  <2> QED
    BY <1>1, <1>2, <2>1, <2>2, MayHang
<1>5. \A n \in DOMAIN M \ {id} : k \notin KidsOf(M, n)
  BY <1>1, <1>2, <1>3
<1>6. HungPage(M, Q, id, k, NoNode)
  BY <1>2, <1>4, <1>5, Hangs
<1> HIDE DEF Q
<1>7. Moved(P[id].kids, k, NoNode) = Append(P[id].kids, k)
  <2>1. P[id].kids \in Seq(PageIds) /\ Distinct(P[id].kids) /\ KidsOf(P, id) = ToSet(P[id].kids)
    BY SoundRow
  <2>2. k \notin ToSet(P[id].kids)
    BY <1>1, <1>2, <1>3, <2>1
  <2>3. Cut(P[id].kids, k) = P[id].kids
    BY <2>1, <2>2, CutFacts
  <2> QED
    BY <2>3 DEF Moved
<1>8. \A n \in V : Shaped(Q, W, n, clears)
  BY <1>1, <1>2, <1>6 DEF HungPage, Shaped
<1>9. JoinedPage(P, Q, W, id, k, clears)
  BY <1>1, <1>2, <1>6, <1>7, <1>8 DEF HungPage, JoinedPage, V
<1> QED
  BY <1>4, <1>9 DEF Q

\* A child is created and placed, where nothing of it is on the page.
LEMMA ChildCreated ==
  ASSUME NEW W, NEW h, PageTree(W, h), NEW id \in DOMAIN W, NEW k \in KidsOf(W, id),
         NEW created, created[k] \in Seq(PagePatches), NEW clears \in BOOLEAN, Makes(W, k, created, clears),
         NEW P, SoundPage(P), id \in DOMAIN P
  PROVE  /\ \A Q : LeadsTo(P, created[k] \o PlacePatch(id, k, NoNode), clears, Q)
                     => JoinedPage(P, Q, W, id, k, clears)
         /\ Under(W, k) \cap DOMAIN P = {}
              => \E Q : LeadsTo(P, created[k] \o PlacePatch(id, k, NoNode), clears, Q)
PROOF
<1> DEFINE list == created[k] \o PlacePatch(id, k, NoNode)
<1>0. \E p, q \in PagePatches : PartEnds(id, k, created, p, q)
  BY PartIs
<1>1. PICK p \in PagePatches : /\ list = Append(created[k], p)
                               /\ p.kind = "place" /\ p.target = id /\ p.child = k /\ p.before = NoNode
  BY <1>0 DEF PartEnds
<1> HIDE DEF list
<1>2. \A Q : LeadsTo(P, Append(created[k], p), clears, Q) <=>
        \E M : LeadsTo(P, created[k], clears, M) /\ Admits(M, p) /\ Q = PatchedPage(M, p, clears)
  BY LeadsAppend
<1>3. \A M : LeadsTo(P, created[k], clears, M) =>
        Admits(M, p) /\ JoinedPage(P, PatchedPage(M, p, clears), W, id, k, clears)
  <2> SUFFICES ASSUME NEW M, LeadsTo(P, created[k], clears, M)
               PROVE  Admits(M, p) /\ JoinedPage(P, PatchedPage(M, p, clears), W, id, k, clears)
    OBVIOUS
  <2>1. BuiltPage(P, M, W, Under(W, k), clears)
    BY DEF Makes
  <2> QED
    BY <1>1, <2>1, PlaceLast
<1>4. Under(W, k) \cap DOMAIN P = {} => \E M : LeadsTo(P, created[k], clears, M)
  BY DEF Makes
<1>5. /\ \A Q : LeadsTo(P, list, clears, Q) => JoinedPage(P, Q, W, id, k, clears)
      /\ Under(W, k) \cap DOMAIN P = {} => \E Q : LeadsTo(P, list, clears, Q)
  BY <1>1, <1>2, <1>3, <1>4
<1> QED
  BY <1>5 DEF list

\* The node id came to the page, without children.
StartedPage(P, R, W, id, clears) ==
  /\ SoundPage(R) /\ id \notin DOMAIN P /\ DOMAIN R = DOMAIN P \cup {id}
  /\ \A n \in DOMAIN P : R[n] = P[n]
  /\ R[id].tag = W[id].tag /\ R[id].kids = <<>> /\ (clears => R[id].text = W[id].text)

StartPatches(W, id) ==
  CreatePatch(id, W[id].tag) \o (IF W[id].text = "" THEN <<>> ELSE TextPatch(id, W[id].text))

\* A node came to the page; Q after P.
BlankPage(P, Q, id, tag) ==
  /\ SoundPage(Q) /\ DOMAIN Q = DOMAIN P \cup {id}
  /\ \A n \in DOMAIN P : Q[n] = P[n]
  /\ Q[id].tag = tag /\ Q[id].text = "" /\ Q[id].kids = <<>>

LEMMA CreateStarts ==
  ASSUME NEW P, SoundPage(P), NEW p \in PagePatches, p.kind = "create", NEW clears \in BOOLEAN
  PROVE  /\ Admits(P, p) <=> p.target \notin DOMAIN P
         /\ Admits(P, p) => BlankPage(P, PatchedPage(P, p, clears), p.target, p.tag)
PROOF
<1>1. Admits(P, p) <=> p.target \notin DOMAIN P
  BY DEF Admits
<1>2. ASSUME Admits(P, p)
      PROVE  BlankPage(P, PatchedPage(P, p, clears), p.target, p.tag)
  <2> DEFINE Q == PatchedPage(P, p, clears)
             id == p.target
             none == <<>>
             blank == ""
             tag == p.tag
  <2>1. SoundPage(Q) /\ CreateDone(P, Q, p)
    BY <1>2, PatchedFacts
  <2> HIDE DEF Q
  <2>2. /\ DOMAIN Q = DOMAIN P \cup {id} /\ Q[id] = [tag |-> tag, text |-> blank, kids |-> none]
        /\ \A n \in DOMAIN P : Q[n] = P[n]
    BY <2>1 DEF CreateDone
  <2> HIDE DEF id, none, blank, tag
  <2>3. Q[id].tag = tag /\ Q[id].text = blank /\ Q[id].kids = none
    BY <2>2
  <2> QED
    BY <2>1, <2>2, <2>3 DEF BlankPage, id, none, blank, tag, Q
<1> QED
  BY <1>1, <1>2

\* A node is created with its text.
LEMMA StartLeads ==
  ASSUME NEW W, SoundPage(W), NEW id \in DOMAIN W \ {HostRoot}, NEW P, SoundPage(P), NEW clears \in BOOLEAN
  PROVE  /\ StartPatches(W, id) \in Seq(PagePatches)
         /\ \A R : LeadsTo(P, StartPatches(W, id), clears, R) => StartedPage(P, R, W, id, clears)
         /\ id \notin DOMAIN P => \E R : LeadsTo(P, StartPatches(W, id), clears, R)
PROOF
<1> DEFINE list == StartPatches(W, id)
<1>1. id \in PageIds /\ W[id].tag \in Words /\ W[id].text \in Words
  BY NodeFacts
<1>2. PICK p \in PagePatches :
        CreatePatch(id, W[id].tag) = <<p>> /\ p.kind = "create" /\ p.target = id /\ p.tag = W[id].tag
  BY <1>1, CreateIsPatch
<1> DEFINE M == PatchedPage(P, p, clears)
<1>3. \A R : LeadsTo(P, <<p>>, clears, R) <=> Admits(P, p) /\ R = M
  BY LeadsOne
<1>4. /\ Admits(P, p) <=> id \notin DOMAIN P
      /\ Admits(P, p) => BlankPage(P, M, id, W[id].tag)
  BY <1>2, CreateStarts
<1>5. CASE W[id].text = ""
  <2>1. list = <<p>> /\ list \in Seq(PagePatches)
    <3>1. list = CreatePatch(id, W[id].tag) \o <<>>
      BY <1>5 DEF StartPatches
    <3>2. <<p>> \o <<>> = <<p>> /\ <<p>> \in Seq(PagePatches)
      OBVIOUS
    <3> HIDE DEF list
    <3> QED
      BY <1>2, <3>1, <3>2
  <2>2. Admits(P, p) => StartedPage(P, M, W, id, clears)
    BY <1>4, <1>5 DEF StartedPage, BlankPage
  <2> HIDE DEF list, M
  <2> QED
    BY <1>3, <1>4, <2>1, <2>2 DEF list
<1>6. CASE W[id].text # ""
  <2>1. PICK q \in PagePatches :
          TextPatch(id, W[id].text) = <<q>> /\ q.kind = "text" /\ q.target = id /\ q.text = W[id].text
    BY <1>1, TextIsPatch
  <2>2. list = <<p>> \o <<q>>
    BY <1>2, <1>6, <2>1 DEF StartPatches
  <2>3. <<p>> \in Seq(PagePatches) /\ <<p>> \o <<q>> = Append(<<p>>, q)
        /\ Append(<<p>>, q) \in Seq(PagePatches)
    OBVIOUS
  <2> DEFINE one == <<p>>
  <2> HIDE DEF list, one
  <2>4. \A R : LeadsTo(P, Append(one, q), clears, R) <=>
          \E N : LeadsTo(P, one, clears, N) /\ Admits(N, q) /\ R = PatchedPage(N, q, clears)
    <3>1. one \in Seq(PagePatches)
      BY <2>3 DEF one
    <3> QED
      BY <3>1, LeadsAppend
  <2>5. \A N : LeadsTo(P, one, clears, N) <=> Admits(P, p) /\ N = M
    BY <1>3 DEF one
  <2>6. ASSUME Admits(P, p)
        PROVE  Admits(M, q) /\ StartedPage(P, PatchedPage(M, q, clears), W, id, clears)
    <3> DEFINE N == PatchedPage(M, q, clears)
    <3>1. SoundPage(M) /\ id \in DOMAIN M
      BY <1>4, <2>6 DEF BlankPage
    <3> HIDE DEF M
    <3>2. Admits(M, q) /\ WordedPage(M, N, id, W[id].text, clears)
      BY <2>1, <3>1, Worded
    <3> HIDE DEF N
    <3>3. StartedPage(P, N, W, id, clears)
      BY <1>4, <2>6, <3>2 DEF WordedPage, StartedPage, BlankPage
    <3> QED
      BY <3>2, <3>3 DEF N
  <2>7. list = Append(one, q) /\ list \in Seq(PagePatches)
    BY <2>2, <2>3 DEF one
  <2> DEFINE N == PatchedPage(M, q, clears)
  <2>8. Admits(P, p) => Admits(M, q) /\ StartedPage(P, N, W, id, clears)
    BY <2>6
  <2>9. \A R : LeadsTo(P, list, clears, R) <=> Admits(P, p) /\ Admits(M, q) /\ R = N
    BY <2>4, <2>5, <2>7
  <2> HIDE DEF M, N
  <2> QED
    BY <1>4, <2>7, <2>8, <2>9 DEF list
<1> QED
  BY <1>5, <1>6
-----------------------------------------------------------------------------
\* What is below the children of a list.
BelowAll(E, S) == UNION {Under(E, k) : k \in S}

\* The node id came to the page with the children s.
GrownPage(P, R, W, id, s, clears) ==
  LET V == BelowAll(W, ToSet(s)) IN
  /\ SoundPage(R) /\ id \notin DOMAIN P /\ V \cap DOMAIN P = {}
  /\ DOMAIN R = DOMAIN P \cup {id} \cup V
  /\ \A n \in DOMAIN P : R[n] = P[n]
  /\ R[id].tag = W[id].tag /\ R[id].kids = s /\ (clears => R[id].text = W[id].text)
  /\ \A n \in V : Shaped(R, W, n, clears)

\* One more child of a node that is created.
LEMMA GrowsByKid ==
  ASSUME NEW W, NEW h, PageTree(W, h), NEW id \in DOMAIN W, NEW s \in Seq(KidsOf(W, id)),
         NEW k \in KidsOf(W, id), NEW P, NEW R, NEW Q, NEW clears \in BOOLEAN,
         SoundPage(P), GrownPage(P, R, W, id, s, clears), JoinedPage(R, Q, W, id, k, clears)
  PROVE  GrownPage(P, Q, W, id, Append(s, k), clears)
PROOF
<1> DEFINE V == BelowAll(W, ToSet(s))
           V1 == BelowAll(W, ToSet(Append(s, k)))
           Y == Under(W, k)
<1>1. ToSet(Append(s, k)) = ToSet(s) \cup {k} /\ ToSet(s) \subseteq KidsOf(W, id)
  BY SetOfAppend, SetTyped
<1>2. V1 = V \cup Y
  BY <1>1 DEF BelowAll
<1>3. id \notin V /\ id \notin Y
  BY <1>1, BelowKid DEF BelowAll
<1>4. /\ id \notin DOMAIN P /\ V \cap DOMAIN P = {} /\ DOMAIN R = DOMAIN P \cup {id} \cup V
      /\ \A n \in DOMAIN P : R[n] = P[n]
      /\ R[id].tag = W[id].tag /\ R[id].kids = s /\ (clears => R[id].text = W[id].text)
      /\ \A n \in V : Shaped(R, W, n, clears)
  BY DEF GrownPage
<1>5. /\ SoundPage(Q) /\ Y \cap DOMAIN R = {} /\ DOMAIN Q = DOMAIN R \cup Y
      /\ \A n \in DOMAIN R \ {id} : Q[n] = R[n]
      /\ Q[id].tag = R[id].tag /\ Q[id].text = R[id].text /\ Q[id].kids = Append(R[id].kids, k)
      /\ \A n \in Y : Shaped(Q, W, n, clears)
  BY DEF JoinedPage
<1> HIDE DEF V, Y, V1
<1>6. \A n \in V : Shaped(Q, W, n, clears)
  BY <1>3, <1>4, <1>5 DEF Shaped
<1>7. V1 \cap DOMAIN P = {} /\ DOMAIN Q = DOMAIN P \cup {id} \cup V1
  BY <1>2, <1>4, <1>5
<1>8. \A n \in V1 : Shaped(Q, W, n, clears)
  BY <1>2, <1>5, <1>6
<1>9. \A n \in DOMAIN P : Q[n] = P[n]
  BY <1>4, <1>5
<1>10. Q[id].tag = W[id].tag /\ Q[id].kids = Append(s, k) /\ (clears => Q[id].text = W[id].text)
  BY <1>4, <1>5
<1> QED
  BY <1>4, <1>5, <1>7, <1>8, <1>9, <1>10 DEF GrownPage, V1

\* What creates the children of a list.
KidsCreated(W, id, created, s) ==
  EmittedBy(s, [k \in KidsOf(W, id) |-> created[k] \o PlacePatch(id, k, NoNode)])

\* All children of a node that is created, one after the other.
LEMMA KidsGrow ==
  ASSUME NEW W, NEW h, PageTree(W, h), NEW id \in DOMAIN W \ {HostRoot},
         NEW created, \A k \in KidsOf(W, id) : created[k] \in Seq(PagePatches),
         NEW clears \in BOOLEAN, \A k \in KidsOf(W, id) : Makes(W, k, created, clears),
         NEW P, SoundPage(P), NEW s \in Seq(KidsOf(W, id)), Distinct(s)
  PROVE  LET list == StartPatches(W, id) \o KidsCreated(W, id, created, s) IN
         /\ KidsCreated(W, id, created, s) \in Seq(PagePatches)
         /\ \A R : LeadsTo(P, list, clears, R) => GrownPage(P, R, W, id, s, clears)
         /\ id \notin DOMAIN P /\ BelowAll(W, ToSet(s)) \cap DOMAIN P = {}
              => \E R : LeadsTo(P, list, clears, R)
PROOF
<1> DEFINE K == KidsOf(W, id)
           of == [k \in K |-> created[k] \o PlacePatch(id, k, NoNode)]
           a == StartPatches(W, id)
           e(t) == EmittedBy(t, of)
           Good(t) == /\ e(t) \in Seq(PagePatches)
                      /\ \A R : LeadsTo(P, a \o e(t), clears, R) => GrownPage(P, R, W, id, t, clears)
                      /\ id \notin DOMAIN P /\ BelowAll(W, ToSet(t)) \cap DOMAIN P = {}
                           => \E R : LeadsTo(P, a \o e(t), clears, R)
           T == {t \in Seq(K) : Distinct(t) => Good(t)}
<1>1. SoundPage(W) /\ id \in DOMAIN W
  BY DEF PageTree
<1>2. /\ a \in Seq(PagePatches)
      /\ \A R : LeadsTo(P, a, clears, R) => StartedPage(P, R, W, id, clears)
      /\ id \notin DOMAIN P => \E R : LeadsTo(P, a, clears, R)
  BY <1>1, StartLeads
<1>3. \A k \in K : of[k] = created[k] \o PlacePatch(id, k, NoNode) /\ of[k] \in Seq(PagePatches)
  <2> SUFFICES ASSUME NEW k \in K
               PROVE  of[k] = created[k] \o PlacePatch(id, k, NoNode) /\ of[k] \in Seq(PagePatches)
    OBVIOUS
  <2>1. \E p, q \in PagePatches : PartEnds(id, k, created, p, q)
    BY <1>1, PartIs
  <2>2. PICK p \in PagePatches : created[k] \o PlacePatch(id, k, NoNode) = Append(created[k], p)
    BY <2>1 DEF PartEnds
  <2>3. created[k] \in Seq(PagePatches)
    OBVIOUS
  <2>4. Append(created[k], p) \in Seq(PagePatches)
    BY <2>3
  <2> QED
    BY <2>2, <2>4
<1> HIDE DEF of, a
<1>4. e(<<>>) = <<>>
  BY EmittedNothing
<1>5. <<>> \in T
  <2>1. a \o e(<<>>) = a
    BY <1>2, <1>4
  <2>2. ToSet(<<>>) = {}
    BY DEF ToSet
  <2>3. ASSUME NEW R, StartedPage(P, R, W, id, clears) PROVE GrownPage(P, R, W, id, <<>>, clears)
    BY <2>2, <2>3 DEF StartedPage, GrownPage, BelowAll
  <2>4. e(<<>>) \in Seq(PagePatches) /\ <<>> \in Seq(K)
    <3>1. <<>> \in Seq(PagePatches) /\ <<>> \in Seq(K)
      OBVIOUS
    <3> HIDE DEF e
    <3> QED
      BY <1>4, <3>1
  <2> HIDE DEF e
  <2> QED
    BY <1>2, <2>1, <2>3, <2>4
<1>6. \A t \in Seq(K) : \A k \in K : t \in T => Append(t, k) \in T
  <2> SUFFICES ASSUME NEW t \in Seq(K), NEW k \in K, t \in T, Distinct(Append(t, k))
               PROVE  Good(Append(t, k))
    OBVIOUS
  <2>1. Distinct(t) /\ k \notin ToSet(t) /\ ToSet(Append(t, k)) = ToSet(t) \cup {k} /\ ToSet(t) \subseteq K
    BY AppendDistinct, SetOfAppend, SetTyped
  <2>2. Good(t)
    BY <2>1
  <2>3. e(Append(t, k)) = e(t) \o of[k] /\ e(Append(t, k)) \in Seq(PagePatches)
    <3>1. \A x \in ToSet(t) \cup {k} : of[x] \in Seq(PagePatches)
      BY <1>3, <2>1
    <3>2. EmittedBy(Append(t, k), of) = EmittedBy(t, of) \o of[k]
      BY <3>1, EmittedBuilt
    <3>3. e(t) \o of[k] \in Seq(PagePatches)
      <4>1. e(t) \in Seq(PagePatches) /\ of[k] \in Seq(PagePatches)
        BY <1>3, <2>2
      <4> HIDE DEF e
      <4> QED
        BY <4>1
    <3> QED
      BY <3>2, <3>3
  <2> DEFINE et == e(t)
             both == a \o et
             ek == e(Append(t, k))
             made == of[k]
  <2>4. /\ et \in Seq(PagePatches)
        /\ \A R : LeadsTo(P, both, clears, R) => GrownPage(P, R, W, id, t, clears)
        /\ id \notin DOMAIN P /\ BelowAll(W, ToSet(t)) \cap DOMAIN P = {}
             => \E R : LeadsTo(P, both, clears, R)
    BY <2>2
  <2>5. ek = et \o made /\ ek \in Seq(PagePatches) /\ made \in Seq(PagePatches)
        /\ made = created[k] \o PlacePatch(id, k, NoNode)
    BY <1>3, <2>3
  <2> HIDE DEF T, e, et, ek, made
  <2>6. a \o ek = both \o made /\ both \in Seq(PagePatches)
    <3>1. a \in Seq(PagePatches) /\ et \in Seq(PagePatches) /\ made \in Seq(PagePatches)
      BY <1>2, <2>4, <2>5
    <3>2. a \o (et \o made) = (a \o et) \o made /\ a \o et \in Seq(PagePatches)
      BY <3>1
    <3> QED
      BY <2>5, <3>2
  <2> HIDE DEF both
  <2>7. \A Q : LeadsTo(P, both \o made, clears, Q) <=>
          \E R : LeadsTo(P, both, clears, R) /\ LeadsTo(R, made, clears, Q)
    <3>1. made \in Seq(PagePatches) /\ both \in Seq(PagePatches) /\ SoundPage(P)
      BY <2>5, <2>6
    <3> QED
      BY <3>1, LeadsConcat
  <2>8. ASSUME NEW R, LeadsTo(P, both, clears, R)
        PROVE  /\ GrownPage(P, R, W, id, t, clears)
               /\ \A Q : LeadsTo(R, made, clears, Q) => GrownPage(P, Q, W, id, Append(t, k), clears)
               /\ Under(W, k) \cap DOMAIN R = {} => \E Q : LeadsTo(R, made, clears, Q)
    <3>1. GrownPage(P, R, W, id, t, clears)
      BY <2>4, <2>8
    <3>2. SoundPage(R) /\ id \in DOMAIN R
      BY <3>1 DEF GrownPage
    <3>3. /\ \A Q : LeadsTo(R, made, clears, Q) => JoinedPage(R, Q, W, id, k, clears)
          /\ Under(W, k) \cap DOMAIN R = {} => \E Q : LeadsTo(R, made, clears, Q)
      <4>1. created[k] \in Seq(PagePatches) /\ Makes(W, k, created, clears)
        OBVIOUS
      <4>2. /\ \A Q : LeadsTo(R, created[k] \o PlacePatch(id, k, NoNode), clears, Q)
                        => JoinedPage(R, Q, W, id, k, clears)
            /\ Under(W, k) \cap DOMAIN R = {}
                 => \E Q : LeadsTo(R, created[k] \o PlacePatch(id, k, NoNode), clears, Q)
        BY <3>2, <4>1, ChildCreated
      <4> QED
        BY <2>5, <4>2
    <3> QED
      BY <3>1, <3>3, GrowsByKid
  <2>9. ASSUME id \notin DOMAIN P, BelowAll(W, ToSet(Append(t, k))) \cap DOMAIN P = {}
        PROVE  \E Q : LeadsTo(P, both \o made, clears, Q)
    <3>1. BelowAll(W, ToSet(t)) \cap DOMAIN P = {} /\ Under(W, k) \cap DOMAIN P = {}
      BY <2>1, <2>9 DEF BelowAll
    <3>2. PICK R : LeadsTo(P, both, clears, R)
      BY <2>4, <2>9, <3>1
    <3>3. DOMAIN R = DOMAIN P \cup {id} \cup BelowAll(W, ToSet(t))
      BY <2>8, <3>2 DEF GrownPage
    <3>4. Under(W, k) \cap BelowAll(W, ToSet(t)) = {} /\ id \notin Under(W, k)
      BY <2>1, BelowApart, BelowKid DEF BelowAll
    <3>5. Under(W, k) \cap DOMAIN R = {}
      BY <3>1, <3>3, <3>4
    <3> QED
      BY <2>7, <2>8, <3>2, <3>5
  <2>10. \A Q : LeadsTo(P, both \o made, clears, Q) => GrownPage(P, Q, W, id, Append(t, k), clears)
    BY <2>7, <2>8
  <2> QED
    BY <2>5, <2>6, <2>9, <2>10 DEF ek
<1> HIDE DEF T
<1>7. \A t \in Seq(K) : t \in T
  BY <1>5, <1>6, SequencesBuilt
<1>8. Good(s)
  BY <1>7 DEF T
<1> QED
  BY <1>8 DEF KidsCreated, of, a

\* Every creation builds its tree.
LEMMA CreationMakes ==
  ASSUME NEW W, NEW h, PageTree(W, h), NEW created, CreatedBy(W, created), NEW clears \in BOOLEAN
  PROVE  \A id \in DOMAIN W \ {HostRoot} : Makes(W, id, created, clears)
PROOF
<1> DEFINE D == DOMAIN W \ {HostRoot}
           T == {id \in D : Makes(W, id, created, clears)}
<1>1. \A id \in D : h[id] \in Nat
  BY DEF PageTree
<1>2. ASSUME NEW id \in D, \A k \in D : h[k] < h[id] => k \in T PROVE id \in T
  <2>1. /\ W[id].kids \in Seq(PageIds) /\ Distinct(W[id].kids) /\ KidsOf(W, id) = ToSet(W[id].kids)
        /\ KidsOf(W, id) \subseteq D
    BY NodeFacts DEF PageTree
  <2>2. \A k \in KidsOf(W, id) : Makes(W, k, created, clears)
    BY <1>2, <2>1 DEF PageTree
  <2>3. \A k \in KidsOf(W, id) : created[k] \in Seq(PagePatches)
    BY <2>1 DEF CreatedBy
  <2>4. W[id].kids \in Seq(KidsOf(W, id))
    BY <2>1, SeqOverSet
  <2> DEFINE s == W[id].kids
             list == StartPatches(W, id) \o KidsCreated(W, id, created, s)
  <2>5. created[id] = list
    BY DEF CreatedBy, CreationOf, StartPatches, KidsCreated
  <2>6. Under(W, id) = {id} \cup BelowAll(W, ToSet(s))
    BY <2>1, BelowKids DEF BelowAll
  <2>7. ASSUME NEW P, SoundPage(P)
        PROVE  /\ \A R : LeadsTo(P, list, clears, R) => GrownPage(P, R, W, id, s, clears)
               /\ id \notin DOMAIN P /\ BelowAll(W, ToSet(s)) \cap DOMAIN P = {}
                    => \E R : LeadsTo(P, list, clears, R)
    BY <2>1, <2>2, <2>3, <2>4, <2>7, KidsGrow
  <2> HIDE DEF list
  <2>8. ASSUME NEW P, NEW R, GrownPage(P, R, W, id, s, clears)
        PROVE  BuiltPage(P, R, W, Under(W, id), clears)
    BY <2>6, <2>8 DEF GrownPage, BuiltPage, Shaped
  <2>9. Makes(W, id, created, clears)
    BY <2>5, <2>6, <2>7, <2>8 DEF Makes
  <2> QED
    BY <2>9
<1> HIDE DEF T
<1>3. D \subseteq T
  <2> HIDE DEF D
  <2> QED
    BY <1>1, <1>2, ByRank
<1> QED
  BY <1>3 DEF T
(* A page between two trees. *)

\* The node n is as in the tree E: with its look, and with children of E; if exact, with
\* all of them, and in their order unless the node is loose.
LikeNode(P, E, n, clears, exact, loose) ==
  /\ n \in DOMAIN P /\ P[n].tag = E[n].tag /\ (clears => P[n].text = E[n].text)
  /\ KidsOf(P, n) \subseteq KidsOf(E, n)
  /\ exact => KidsOf(E, n) \subseteq KidsOf(P, n)
  /\ exact /\ n \notin loose => P[n].kids = E[n].kids

\* What may be counted on between O and W, of which K is kept: children of a node that
\* will not be loose are kept and were in order, and on an exact page no text tears.
Reconciling(O, W, K, clears, exact, old, new) ==
  /\ KeepsNodes(O, W, K) /\ clears \in BOOLEAN /\ exact \in BOOLEAN
  /\ \A n \in K \ new : n \notin old /\ KidsOf(O, n) \cap KidsOf(W, n) \subseteq K
  /\ exact /\ clears =>
       \A n \in K : O[n].text # W[n].text => KidsOf(O, n) \cap KidsOf(W, n) = {}

\* The page has what is below id in O, and nothing of it below another node.
ReadyPage(P, O, id, clears, exact, old) ==
  /\ SoundPage(P)
  /\ \A n \in Under(O, id) : LikeNode(P, O, n, clears, exact, old)
  /\ \A n \in DOMAIN P \ Under(O, id) : KidsOf(P, n) \cap Under(O, id) \subseteq {id}

\* The page has what is below id in W instead, and besides what it had; if it is not
\* exact, what a text took away stays among the nodes, and has no children of W.
DonePage(P, Q, O, W, id, clears, exact, new) ==
  /\ SoundPage(Q)
  /\ \A n \in Under(W, id) : LikeNode(Q, W, n, clears, exact, new)
  /\ \A n \in DOMAIN P \ Under(O, id) : n \in DOMAIN Q \ Under(W, id) /\ Q[n] = P[n]
  /\ \A n \in DOMAIN Q \ Under(W, id) :
       /\ n \in DOMAIN P
       /\ n \in Under(O, id) => ~exact /\ KidsOf(Q, n) \subseteq Under(O, id) \ Under(W, id)

\* The children of id while some are as in O and s are as in W.
MidRow(R, O, W, id, todo, s, clears, exact, new) ==
  LET wanted == KidsOf(W, id) IN
  /\ id \in DOMAIN R /\ R[id].tag = W[id].tag /\ (clears => R[id].text = W[id].text)
  /\ KidsOf(R, id) \subseteq todo \cup ToSet(s)
  /\ exact => ToSet(s) \cup (todo \cap wanted) \subseteq KidsOf(R, id)
  /\ exact /\ id \notin new =>
       Among(R[id].kids, wanted) = Among(O[id].kids, wanted) \o Among(s, wanted \ KidsOf(O, id))

MidNodes(O, W, id, todo, s) == {id} \cup BelowAll(O, todo) \cup BelowAll(W, ToSet(s))

\* The page R, after P, when the children `todo` of id are as in O and s are as in W.
MidPage(P, R, O, W, id, todo, s, clears, exact, old, new) ==
  LET T == MidNodes(O, W, id, todo, s) IN
  /\ SoundPage(R) /\ todo \subseteq KidsOf(O, id) /\ s \in Seq(KidsOf(W, id))
  /\ BelowAll(O, todo) \cap BelowAll(W, ToSet(s)) = {}
  /\ \A n \in BelowAll(O, todo) : LikeNode(R, O, n, clears, exact, old)
  /\ \A n \in BelowAll(W, ToSet(s)) : LikeNode(R, W, n, clears, exact, new)
  /\ MidRow(R, O, W, id, todo, s, clears, exact, new)
  /\ \A n \in DOMAIN P \ Under(O, id) : n \in DOMAIN R \ T /\ R[n] = P[n]
  /\ \A n \in DOMAIN R \ T :
       n \in DOMAIN P /\ (n \in Under(O, id) => ~exact /\ KidsOf(R, n) \subseteq Under(O, id) \ T)

\* The nodes below children of a node.
LEMMA BelowSome ==
  ASSUME NEW E, NEW h, PageTree(E, h), NEW id \in DOMAIN E, NEW S, S \subseteq KidsOf(E, id)
  PROVE  /\ S \subseteq BelowAll(E, S) /\ id \notin BelowAll(E, S)
         /\ BelowAll(E, S) \subseteq Under(E, id) /\ BelowAll(E, S) \subseteq DOMAIN E
         /\ \A n \in BelowAll(E, S) : KidsOf(E, n) \subseteq BelowAll(E, S)
         /\ \A n \in BelowAll(E, S) : \A k \in KidsOf(E, id) : k \notin KidsOf(E, n)
         /\ \A k \in KidsOf(E, id) \ S : Under(E, k) \cap BelowAll(E, S) = {}
         /\ \A k \in S : BelowAll(E, S \ {k}) = BelowAll(E, S) \ Under(E, k)
         /\ \A k \in S : Under(E, k) \subseteq BelowAll(E, S)
PROOF
<1>1. ASSUME NEW k \in S
      PROVE  /\ k \in DOMAIN E /\ k \in Under(E, k) /\ id \notin Under(E, k)
             /\ Under(E, k) \subseteq Under(E, id)
             /\ Under(E, k) \subseteq DOMAIN E
             /\ \A n \in Under(E, k) : KidsOf(E, n) \subseteq Under(E, k)
  <2>1. k \in KidsOf(E, id)
    OBVIOUS
  <2>2. k \in DOMAIN E /\ Under(E, k) \subseteq Under(E, id) /\ id \notin Under(E, k)
    BY <2>1, BelowKid
  <2> QED
    BY <2>2, BelowFacts
<1>2. \A k, m \in KidsOf(E, id) : k # m => Under(E, k) \cap Under(E, m) = {}
  BY BelowApart
<1>3. S \subseteq BelowAll(E, S) /\ id \notin BelowAll(E, S)
      /\ BelowAll(E, S) \subseteq Under(E, id) /\ BelowAll(E, S) \subseteq DOMAIN E
      /\ \A n \in BelowAll(E, S) : KidsOf(E, n) \subseteq BelowAll(E, S)
  BY <1>1 DEF BelowAll
<1>4. \A n \in BelowAll(E, S) : \A k \in KidsOf(E, id) : k \notin KidsOf(E, n)
  BY <1>3 DEF PageTree, SoundPage
<1>5. \A k \in KidsOf(E, id) \ S : Under(E, k) \cap BelowAll(E, S) = {}
  BY <1>2 DEF BelowAll
<1>6. \A k \in S : BelowAll(E, S \ {k}) = BelowAll(E, S) \ Under(E, k)
  <2> SUFFICES ASSUME NEW k \in S PROVE BelowAll(E, S \ {k}) = BelowAll(E, S) \ Under(E, k)
    OBVIOUS
  <2>1. \A m \in S \ {k} : Under(E, k) \cap Under(E, m) = {}
    BY <1>2
  <2> QED
    BY <2>1 DEF BelowAll
<1>7. \A k \in S : Under(E, k) \subseteq BelowAll(E, S)
  BY DEF BelowAll
<1> QED
  BY <1>3, <1>4, <1>5, <1>6, <1>7

\* What is known of a page on the way, where Left is as in O and Made as in W.
MidKnown(R, W, id, todo, s, Left, Made) ==
  /\ ToSet(s) \subseteq KidsOf(W, id) /\ ToSet(s) \subseteq Made /\ todo \subseteq Left
  /\ {id} \cup Left \cup Made \subseteq DOMAIN R /\ id \notin Left \cup Made
  /\ \A n \in DOMAIN R \ ({id} \cup Left \cup Made) :
       KidsOf(R, n) \cap ({id} \cup Left \cup Made) \subseteq {id}
  /\ \A y \in todo \cup ToSet(s) : \A n \in DOMAIN R \ {id} : y \notin KidsOf(R, n)
  /\ \A n \in Left : KidsOf(R, n) \subseteq Left
  /\ \A n \in Made : KidsOf(R, n) \subseteq Made

\* What is known of a page on the way, with the sets named.
LEMMA MidFacts ==
  ASSUME NEW O, NEW W, NEW g, NEW h, TwoTrees(O, W, g, h),
         NEW clears, NEW exact, NEW old, NEW new, NEW id \in DOMAIN O \cap DOMAIN W,
         NEW P, ReadyPage(P, O, id, clears, exact, old), NEW todo, NEW s, NEW R,
         MidPage(P, R, O, W, id, todo, s, clears, exact, old, new)
  PROVE  MidKnown(R, W, id, todo, s, BelowAll(O, todo), BelowAll(W, ToSet(s)))
PROOF
<1> DEFINE T == MidNodes(O, W, id, todo, s)
           Left == BelowAll(O, todo)
           Made == BelowAll(W, ToSet(s))
           U == Under(O, id)
<1>1. PageTree(O, g) /\ PageTree(W, h) /\ id \in DOMAIN O /\ id \in DOMAIN W
  BY DEF TwoTrees
<1>2. ToSet(s) \subseteq KidsOf(W, id) /\ todo \subseteq KidsOf(O, id)
  BY SetTyped DEF MidPage
<1>3. /\ todo \subseteq Left /\ id \notin Left /\ Left \subseteq U
      /\ \A n \in Left : KidsOf(O, n) \subseteq Left
      /\ \A n \in Left : \A k \in KidsOf(O, id) : k \notin KidsOf(O, n)
  BY <1>1, <1>2, BelowSome
<1>4. /\ ToSet(s) \subseteq Made /\ id \notin Made
      /\ \A n \in Made : KidsOf(W, n) \subseteq Made
      /\ \A n \in Made : \A k \in KidsOf(W, id) : k \notin KidsOf(W, n)
  BY <1>1, <1>2, BelowSome
<1>5. /\ SoundPage(R) /\ Left \cap Made = {}
      /\ \A n \in Left : n \in DOMAIN R /\ KidsOf(R, n) \subseteq KidsOf(O, n)
      /\ \A n \in Made : n \in DOMAIN R /\ KidsOf(R, n) \subseteq KidsOf(W, n)
      /\ id \in DOMAIN R
      /\ \A n \in DOMAIN P \ U : n \in DOMAIN R \ T /\ R[n] = P[n]
      /\ \A n \in DOMAIN R \ T : n \in DOMAIN P /\ (n \in U => KidsOf(R, n) \subseteq U \ T)
  BY DEF MidPage, MidRow, LikeNode
<1>6. T = {id} \cup Left \cup Made
  BY DEF MidNodes
<1>7. /\ SoundPage(P) /\ \A n \in DOMAIN P \ U : KidsOf(P, n) \cap U \subseteq {id}
      /\ \A n \in DOMAIN P : KidsOf(P, n) \subseteq DOMAIN P
  BY DEF ReadyPage, SoundPage
<1> HIDE DEF T, Left, Made, U
<1>8. ASSUME NEW n \in DOMAIN R \ T PROVE KidsOf(R, n) \cap T \subseteq {id}
  <2>1. CASE n \in U
    BY <1>5, <1>8, <2>1
  <2>2. CASE n \notin U
    <3>1. n \in DOMAIN P \ U /\ R[n] = P[n]
      BY <1>5, <1>8, <2>2
    <3>2. KidsOf(R, n) = KidsOf(P, n)
      BY <3>1 DEF KidsOf
    <3> SUFFICES ASSUME NEW y \in KidsOf(P, n), y \in T PROVE y = id
      BY <3>2
    <3>3. y \in U
      BY <1>5, <1>7, <3>1
    <3> QED
      BY <1>7, <3>1, <3>3
  <2> QED
    BY <2>1, <2>2
<1>9. ASSUME NEW y \in todo \cup ToSet(s), NEW n \in DOMAIN R \ {id}, y \in KidsOf(R, n) PROVE FALSE
  <2>1. y \in T /\ y # id
    BY <1>3, <1>4, <1>6
  <2>2. n \in Left \/ n \in Made
    BY <1>6, <1>8, <1>9, <2>1
  <2>3. CASE n \in Left
    <3>1. y \in KidsOf(O, n) /\ y \in Left
      BY <1>3, <1>5, <1>9, <2>3
    <3>2. y \in todo
      BY <1>4, <1>5, <3>1
    <3> QED
      BY <1>2, <1>3, <2>3, <3>1, <3>2
  <2>4. CASE n \in Made
    <3>1. y \in KidsOf(W, n) /\ y \in Made
      BY <1>4, <1>5, <1>9, <2>4
    <3>2. y \in ToSet(s)
      BY <1>3, <1>5, <3>1
    <3> QED
      BY <1>2, <1>4, <2>4, <3>1, <3>2
  <2> QED
    BY <2>2, <2>3, <2>4
<1>10. \A n \in Left : KidsOf(R, n) \subseteq Left
  BY <1>3, <1>5
<1>11. \A n \in Made : KidsOf(R, n) \subseteq Made
  BY <1>4, <1>5
<1>12. T \subseteq DOMAIN R
  BY <1>5, <1>6
<1>13. MidKnown(R, W, id, todo, s, Left, Made)
  BY <1>2, <1>3, <1>4, <1>6, <1>8, <1>9, <1>10, <1>11, <1>12 DEF MidKnown
<1> QED
  BY <1>13 DEF Left, Made
(* The steps from one page on the way to the next. *)

\* What a page on the way has, piece by piece.
MidPieces(P, R, O, W, id, todo, s, clears, exact, old, new, Left, Made) ==
  /\ SoundPage(R) /\ todo \subseteq KidsOf(O, id) /\ s \in Seq(KidsOf(W, id))
  /\ Left \cap Made = {}
  /\ \A n \in Left : LikeNode(R, O, n, clears, exact, old)
  /\ \A n \in Made : LikeNode(R, W, n, clears, exact, new)
  /\ MidRow(R, O, W, id, todo, s, clears, exact, new)
  /\ \A n \in DOMAIN P \ Under(O, id) : n \in DOMAIN R /\ n \notin Left \cup Made /\ n # id /\ R[n] = P[n]
  /\ \A n \in DOMAIN R \ ({id} \cup Left \cup Made) :
       n \in DOMAIN P
       /\ (n \in Under(O, id) =>
             ~exact /\ KidsOf(R, n) \subseteq Under(O, id) \ ({id} \cup Left \cup Made))

LEMMA MidIs ==
  ASSUME NEW P, NEW R, NEW O, NEW W, NEW id, NEW todo, NEW s, NEW clears, NEW exact, NEW old, NEW new
  PROVE  MidPage(P, R, O, W, id, todo, s, clears, exact, old, new)
           <=> MidPieces(P, R, O, W, id, todo, s, clears, exact, old, new,
                         BelowAll(O, todo), BelowAll(W, ToSet(s)))
PROOF
<1> DEFINE T == MidNodes(O, W, id, todo, s)
           Left == BelowAll(O, todo)
           Made == BelowAll(W, ToSet(s))
<1>1. T = {id} \cup Left \cup Made
  BY DEF MidNodes
<1>2. \A n : n \notin T <=> n \notin Left \cup Made /\ n # id
  BY <1>1
<1>3. /\ (\A n \in DOMAIN P \ Under(O, id) : n \in DOMAIN R \ T /\ R[n] = P[n])
           <=> (\A n \in DOMAIN P \ Under(O, id) :
                  n \in DOMAIN R /\ n \notin Left \cup Made /\ n # id /\ R[n] = P[n])
      /\ (\A n \in DOMAIN R \ T :
            n \in DOMAIN P /\ (n \in Under(O, id) => ~exact /\ KidsOf(R, n) \subseteq Under(O, id) \ T))
           <=> (\A n \in DOMAIN R \ ({id} \cup Left \cup Made) :
                  n \in DOMAIN P
                  /\ (n \in Under(O, id) =>
                       ~exact /\ KidsOf(R, n) \subseteq Under(O, id) \ ({id} \cup Left \cup Made)))
  <2> HIDE DEF Left, Made
  <2>1. (\A n \in DOMAIN P \ Under(O, id) : n \in DOMAIN R \ T /\ R[n] = P[n])
           <=> (\A n \in DOMAIN P \ Under(O, id) :
                  n \in DOMAIN R /\ n \notin Left \cup Made /\ n # id /\ R[n] = P[n])
    <3> HIDE DEF T
    <3> QED
      BY <1>2
  <2>2. (\A n \in DOMAIN R \ T :
            n \in DOMAIN P /\ (n \in Under(O, id) => ~exact /\ KidsOf(R, n) \subseteq Under(O, id) \ T))
           <=> (\A n \in DOMAIN R \ ({id} \cup Left \cup Made) :
                  n \in DOMAIN P
                  /\ (n \in Under(O, id) =>
                       ~exact /\ KidsOf(R, n) \subseteq Under(O, id) \ ({id} \cup Left \cup Made)))
    <3> HIDE DEF T
    <3> QED
      BY <1>1
  <2> QED
    BY <2>1, <2>2
<1> HIDE DEF T, Left, Made
<1>4. MidPieces(P, R, O, W, id, todo, s, clears, exact, old, new, Left, Made)
        <=> /\ SoundPage(R) /\ todo \subseteq KidsOf(O, id) /\ s \in Seq(KidsOf(W, id))
            /\ Left \cap Made = {}
            /\ \A n \in Left : LikeNode(R, O, n, clears, exact, old)
            /\ \A n \in Made : LikeNode(R, W, n, clears, exact, new)
            /\ MidRow(R, O, W, id, todo, s, clears, exact, new)
            /\ (\A n \in DOMAIN P \ Under(O, id) : n \in DOMAIN R \ T /\ R[n] = P[n])
            /\ (\A n \in DOMAIN R \ T :
                  n \in DOMAIN P /\ (n \in Under(O, id) => ~exact /\ KidsOf(R, n) \subseteq Under(O, id) \ T))
  BY <1>3 DEF MidPieces
<1> QED
  BY <1>4 DEF MidPage, T, Left, Made

\* A child that is as in O can be reconciled.
LEMMA MidReady ==
  ASSUME NEW O, NEW W, NEW g, NEW h, TwoTrees(O, W, g, h),
         NEW clears, NEW exact, NEW old, NEW new, NEW id \in DOMAIN O \cap DOMAIN W,
         NEW P, ReadyPage(P, O, id, clears, exact, old), NEW todo, NEW s, NEW R,
         MidPage(P, R, O, W, id, todo, s, clears, exact, old, new), NEW k \in todo
  PROVE  ReadyPage(R, O, k, clears, exact, old)
PROOF
<1> DEFINE Left == BelowAll(O, todo)
           Rest == BelowAll(O, todo \ {k})
           Made == BelowAll(W, ToSet(s))
           Uk == Under(O, k)
           T == MidNodes(O, W, id, todo, s)
<1>1. PageTree(O, g) /\ PageTree(W, h) /\ id \in DOMAIN O /\ id \in DOMAIN W
  BY DEF TwoTrees
<1>2. MidPieces(P, R, O, W, id, todo, s, clears, exact, old, new, Left, Made)
  BY MidIs
<1>3. /\ SoundPage(R) /\ todo \subseteq KidsOf(O, id) /\ Left \cap Made = {}
      /\ \A n \in Left : LikeNode(R, O, n, clears, exact, old)
      /\ MidRow(R, O, W, id, todo, s, clears, exact, new)
  BY <1>2 DEF MidPieces
<1>4. MidKnown(R, W, id, todo, s, Left, Made)
  BY MidFacts
<1>5. /\ ToSet(s) \subseteq Made
      /\ \A n \in DOMAIN R \ ({id} \cup Left \cup Made) : KidsOf(R, n) \cap ({id} \cup Left \cup Made) \subseteq {id}
      /\ \A n \in Made : KidsOf(R, n) \subseteq Made
  BY <1>4 DEF MidKnown
<1>6. /\ id \notin Left /\ Uk \subseteq Left /\ Rest = Left \ Uk
  BY <1>1, <1>3, BelowSome
<1>7. todo \ {k} \subseteq Rest /\ \A n \in Rest : KidsOf(O, n) \subseteq Rest
  <2> DEFINE S == todo \ {k}
  <2>1. S \subseteq KidsOf(O, id)
    BY <1>3
  <2> HIDE DEF S
  <2>2. S \subseteq BelowAll(O, S) /\ \A n \in BelowAll(O, S) : KidsOf(O, n) \subseteq BelowAll(O, S)
    BY <1>1, <2>1, BelowSome
  <2> QED
    BY <2>2 DEF S
<1>8. T = {id} \cup Left \cup Made
  BY DEF MidNodes
<1> HIDE DEF Left, Rest, Made, Uk, T
<1>9. \A n \in Uk : LikeNode(R, O, n, clears, exact, old)
  BY <1>3, <1>6
<1>10. ASSUME NEW n \in DOMAIN R \ Uk, NEW y \in KidsOf(R, n), y \in Uk PROVE y = k
  <2>1. CASE n = id
    <3>1. y \in todo \cup ToSet(s)
      BY <1>3, <1>10, <2>1 DEF MidRow
    <3>2. y \notin ToSet(s)
      BY <1>3, <1>5, <1>6, <1>10
    <3>3. y \notin todo \ {k}
      BY <1>6, <1>7, <1>10
    <3> QED
      BY <3>1, <3>2, <3>3
  <2>2. CASE n \in Left
    <3>1. n \in Rest /\ KidsOf(R, n) \subseteq KidsOf(O, n)
      BY <1>3, <1>6, <1>10, <2>2 DEF LikeNode
    <3> QED
      BY <1>6, <1>7, <1>10, <3>1
  <2>3. CASE n \in Made
    BY <1>3, <1>5, <1>6, <1>10, <2>3
  <2>4. CASE n \notin T
    BY <1>5, <1>6, <1>8, <1>10, <2>4
  <2> QED
    BY <1>8, <2>1, <2>2, <2>3, <2>4
<1> QED
  BY <1>3, <1>9, <1>10 DEF ReadyPage, Uk

\* What is below a child as in O in the page.
LEMMA UnderLike ==
  ASSUME NEW O, NEW g, PageTree(O, g), NEW k \in DOMAIN O, NEW R, SoundPage(R),
         NEW clears, NEW exact, NEW old, \A n \in Under(O, k) : LikeNode(R, O, n, clears, exact, old)
  PROVE  Under(R, k) \subseteq Under(O, k) /\ (exact => Under(R, k) = Under(O, k))
PROOF
<1>1. /\ k \in Under(O, k) /\ \A n \in Under(O, k) : KidsOf(O, n) \subseteq Under(O, k)
      /\ \A Z : k \in Z /\ ClosedIn(O, Z) => Under(O, k) \subseteq Z
  BY BelowFacts
<1>2. \A n \in Under(O, k) : KidsOf(R, n) \subseteq Under(O, k) /\ n \in DOMAIN R
  BY <1>1 DEF LikeNode
<1>3. IsFiniteSet(DOMAIN R)
  BY PageIsFinite
<1>4. Under(R, k) \subseteq Under(O, k)
  <2>1. ClosedIn(R, Under(O, k))
    BY <1>2 DEF ClosedIn
  <2> QED
    BY <1>1, <1>3, <2>1, UnderFacts
<1>5. ASSUME exact PROVE Under(O, k) \subseteq Under(R, k)
  <2>1. k \in Under(R, k) /\ ClosedIn(R, Under(R, k))
    BY <1>3, UnderFacts
  <2>2. \A n \in Under(R, k) : KidsOf(O, n) \subseteq Under(R, k)
    BY <1>2, <1>4, <1>5, <2>1 DEF ClosedIn, LikeNode
  <2>3. ClosedIn(O, Under(R, k))
    BY <2>2 DEF ClosedIn
  <2> QED
    BY <1>1, <2>1, <2>3
<1> QED
  BY <1>4, <1>5

\* A child went that id has not in W, or whose place does not matter.
LEMMA RemoveStep ==
  ASSUME NEW O, NEW W, NEW g, NEW h, TwoTrees(O, W, g, h),
         NEW clears, NEW exact, NEW old, NEW new, NEW id \in DOMAIN O \cap DOMAIN W,
         NEW P, ReadyPage(P, O, id, clears, exact, old), NEW todo, NEW s, NEW R,
         MidPage(P, R, O, W, id, todo, s, clears, exact, old, new), NEW k \in todo,
         k \notin KidsOf(W, id) \/ id \in new, NEW Q, DroppedPage(R, Q, id, k)
  PROVE  MidPage(P, Q, O, W, id, todo \ {k}, s, clears, exact, old, new)
PROOF
<1> DEFINE Left == BelowAll(O, todo)
           Rest == BelowAll(O, todo \ {k})
           Made == BelowAll(W, ToSet(s))
           Uk == Under(O, k)
           U == Under(O, id)
           wanted == KidsOf(W, id)
<1>1. PageTree(O, g) /\ PageTree(W, h) /\ id \in DOMAIN O /\ id \in DOMAIN W
  BY DEF TwoTrees
<1>2. MidPieces(P, R, O, W, id, todo, s, clears, exact, old, new, Left, Made)
  BY MidIs
<1>3. MidKnown(R, W, id, todo, s, Left, Made)
  BY MidFacts
<1>4. /\ SoundPage(R) /\ todo \subseteq KidsOf(O, id) /\ s \in Seq(wanted) /\ Left \cap Made = {}
      /\ \A n \in Left : LikeNode(R, O, n, clears, exact, old)
      /\ \A n \in Made : LikeNode(R, W, n, clears, exact, new)
      /\ \A n \in DOMAIN P \ U : n \in DOMAIN R /\ n \notin Left \cup Made /\ n # id /\ R[n] = P[n]
      /\ \A n \in DOMAIN R \ ({id} \cup Left \cup Made) :
           n \in DOMAIN P /\ (n \in U => ~exact /\ KidsOf(R, n) \subseteq U \ ({id} \cup Left \cup Made))
  BY <1>2 DEF MidPieces
<1>5. /\ id \in DOMAIN R /\ R[id].tag = W[id].tag /\ (clears => R[id].text = W[id].text)
      /\ KidsOf(R, id) \subseteq todo \cup ToSet(s)
      /\ exact => ToSet(s) \cup (todo \cap wanted) \subseteq KidsOf(R, id)
      /\ exact /\ id \notin new =>
           Among(R[id].kids, wanted) = Among(O[id].kids, wanted) \o Among(s, wanted \ KidsOf(O, id))
  BY <1>2 DEF MidPieces, MidRow
<1>6. ToSet(s) \subseteq Made /\ todo \subseteq Left /\ id \notin Left \cup Made
  BY <1>3 DEF MidKnown
<1>7. Uk \subseteq Left /\ Rest = Left \ Uk /\ Left \subseteq U
  BY <1>1, <1>4, BelowSome
<1>8. k \in DOMAIN O /\ \A n \in Uk : KidsOf(O, n) \subseteq Uk
  <2>1. k \in KidsOf(O, id)
    BY <1>4
  <2>2. k \in DOMAIN O
    BY <1>1, <2>1, BelowKid
  <2> QED
    BY <1>1, <2>2, BelowFacts
<1>9. Under(R, k) \subseteq Uk /\ (exact => Under(R, k) = Uk) /\ k \in Under(R, k)
  <2>1. \A n \in Under(O, k) : LikeNode(R, O, n, clears, exact, old)
    BY <1>4, <1>7
  <2>2. Under(R, k) \subseteq Under(O, k) /\ (exact => Under(R, k) = Under(O, k))
    <3>1. PageTree(O, g) /\ k \in DOMAIN O /\ SoundPage(R)
      BY <1>1, <1>4, <1>8
    <3> HIDE DEF Left, Uk, U
    <3> QED
      BY <2>1, <3>1, UnderLike
  <2>3. IsFiniteSet(DOMAIN R)
    BY <1>4, PageIsFinite
  <2> QED
    BY <2>2, <2>3, UnderFacts
<1>10. U \subseteq DOMAIN P
  BY DEF ReadyPage, LikeNode
<1>11. /\ SoundPage(Q) /\ DOMAIN Q = DOMAIN R \ Under(R, k)
       /\ \A n \in DOMAIN Q \ {id} : Q[n] = R[n]
       /\ id \in DOMAIN Q =>
            /\ Q[id].tag = R[id].tag /\ Q[id].text = R[id].text
            /\ Q[id].kids = Among(R[id].kids, KidsOf(R, id) \ {k})
            /\ KidsOf(Q, id) = KidsOf(R, id) \ {k}
  BY DEF DroppedPage
<1>12. R[id].kids \in Seq(PageIds) /\ KidsOf(R, id) = ToSet(R[id].kids)
  BY <1>4, <1>5, SoundRow
<1> HIDE DEF Left, Rest, Made, Uk, U, wanted
<1>13. id \in DOMAIN Q /\ k \notin ToSet(s)
  BY <1>4, <1>5, <1>6, <1>7, <1>9, <1>11
<1>14. exact /\ id \notin new =>
         Among(Q[id].kids, wanted) = Among(O[id].kids, wanted) \o Among(s, wanted \ KidsOf(O, id))
  <2> SUFFICES ASSUME exact, id \notin new PROVE Among(Q[id].kids, wanted) = Among(R[id].kids, wanted)
    BY <1>5
  <2> DEFINE S == KidsOf(R, id) \ {k}
             r == R[id].kids
  <2>1. Among(Among(r, S), wanted) = Among(r, S \cap wanted)
    <3>1. AmongLaws(r, S, wanted)
      BY <1>12, AmongSame
    <3> QED
      BY <3>1 DEF AmongLaws
  <2>2. k \notin wanted
    BY DEF wanted
  <2>3. ToSet(r) \cap (S \cap wanted) = ToSet(r) \cap wanted
    BY <1>12, <2>2
  <2>4. Among(r, S \cap wanted) = Among(r, wanted)
    <3> DEFINE SW == S \cap wanted
    <3> HIDE DEF SW, r
    <3>1. ToSet(r) \cap SW = ToSet(r) \cap wanted /\ r \in Seq(PageIds)
      BY <1>12, <2>3 DEF SW, r
    <3>2. Among(r, SW) = Among(r, wanted)
      BY <3>1, AmongAgrees
    <3> QED
      BY <3>2 DEF SW
  <2> QED
    BY <1>11, <1>13, <2>1, <2>4
<1>15. MidRow(Q, O, W, id, todo \ {k}, s, clears, exact, new)
  <2>1. Q[id].tag = W[id].tag /\ (clears => Q[id].text = W[id].text)
    BY <1>5, <1>11, <1>13
  <2>2. KidsOf(Q, id) \subseteq (todo \ {k}) \cup ToSet(s)
    BY <1>5, <1>11, <1>13
  <2>3. exact => ToSet(s) \cup ((todo \ {k}) \cap wanted) \subseteq KidsOf(Q, id)
    BY <1>5, <1>11, <1>13
  <2> QED
    BY <1>13, <1>14, <2>1, <2>2, <2>3 DEF MidRow, wanted
<1>16. \A n \in Rest \cup Made : n \in DOMAIN Q /\ n # id /\ Q[n] = R[n]
  <2> SUFFICES ASSUME NEW n \in Rest \cup Made PROVE n \in DOMAIN Q /\ n # id /\ Q[n] = R[n]
    OBVIOUS
  <2>1. n \in DOMAIN R /\ n \notin Uk /\ n # id
    BY <1>4, <1>6, <1>7 DEF LikeNode
  <2> QED
    BY <1>9, <1>11, <2>1
<1>17. /\ \A n \in Rest : LikeNode(Q, O, n, clears, exact, old)
       /\ \A n \in Made : LikeNode(Q, W, n, clears, exact, new)
  BY <1>4, <1>7, <1>16 DEF LikeNode, KidsOf
<1>18. \A n \in DOMAIN P \ U : n \in DOMAIN Q /\ n \notin Rest \cup Made /\ n # id /\ Q[n] = P[n]
  BY <1>4, <1>7, <1>9, <1>11
<1>19. ASSUME NEW n \in DOMAIN Q \ ({id} \cup Rest \cup Made)
       PROVE  n \in DOMAIN P
              /\ (n \in U => ~exact /\ KidsOf(Q, n) \subseteq U \ ({id} \cup Rest \cup Made))
  <2>1. n \in DOMAIN R /\ Q[n] = R[n] /\ KidsOf(Q, n) = KidsOf(R, n) /\ n \notin Under(R, k)
    BY <1>11, <1>19 DEF KidsOf
  <2>2. CASE n \in Uk
    <3>1. ~exact /\ n \in DOMAIN P
      BY <1>7, <1>9, <1>10, <2>1, <2>2
    <3>2. KidsOf(R, n) \subseteq Uk
      BY <1>4, <1>7, <1>8, <2>2 DEF LikeNode
    <3>3. Uk \subseteq U \ ({id} \cup Rest \cup Made)
      BY <1>4, <1>6, <1>7
    <3> QED
      BY <2>1, <3>1, <3>2, <3>3
  <2>3. CASE n \notin Uk
    <3>1. n \in DOMAIN R \ ({id} \cup Left \cup Made)
      BY <1>7, <1>19, <2>1, <2>3
    <3> QED
      BY <1>4, <1>7, <2>1, <3>1
  <2> QED
    BY <2>2, <2>3
<1>20. /\ todo \ {k} \subseteq KidsOf(O, id) /\ Rest \cap Made = {}
  BY <1>4, <1>7
<1>21. MidPieces(P, Q, O, W, id, todo \ {k}, s, clears, exact, old, new, Rest, Made)
  BY <1>4, <1>11, <1>15, <1>17, <1>18, <1>19, <1>20 DEF MidPieces, U, wanted
<1> QED
  BY <1>21, MidIs DEF Rest, Made

\* A child came that id has not in O, or whose place does not matter.
LEMMA JoinStep ==
  ASSUME NEW O, NEW W, NEW g, NEW h, TwoTrees(O, W, g, h),
         NEW clears, NEW exact, NEW old, NEW new, NEW id \in DOMAIN O \cap DOMAIN W,
         NEW P, ReadyPage(P, O, id, clears, exact, old), NEW todo, NEW s, NEW R,
         MidPage(P, R, O, W, id, todo, s, clears, exact, old, new),
         NEW k \in KidsOf(W, id), k \notin KidsOf(O, id) \/ id \in new,
         NEW Q, JoinedPage(R, Q, W, id, k, clears)
  PROVE  MidPage(P, Q, O, W, id, todo, Append(s, k), clears, exact, old, new)
PROOF
<1> DEFINE Left == BelowAll(O, todo)
           Made == BelowAll(W, ToSet(s))
           More == BelowAll(W, ToSet(Append(s, k)))
           Y == Under(W, k)
           U == Under(O, id)
           wanted == KidsOf(W, id)
           t == Append(s, k)
<1>1. PageTree(O, g) /\ PageTree(W, h) /\ id \in DOMAIN O /\ id \in DOMAIN W
  BY DEF TwoTrees
<1>2. MidPieces(P, R, O, W, id, todo, s, clears, exact, old, new, Left, Made)
  BY MidIs
<1>3. MidKnown(R, W, id, todo, s, Left, Made)
  BY MidFacts
<1>4. /\ SoundPage(R) /\ todo \subseteq KidsOf(O, id) /\ s \in Seq(wanted) /\ Left \cap Made = {}
      /\ \A n \in Left : LikeNode(R, O, n, clears, exact, old)
      /\ \A n \in Made : LikeNode(R, W, n, clears, exact, new)
      /\ \A n \in DOMAIN P \ U : n \in DOMAIN R /\ n \notin Left \cup Made /\ n # id /\ R[n] = P[n]
      /\ \A n \in DOMAIN R \ ({id} \cup Left \cup Made) :
           n \in DOMAIN P /\ (n \in U => ~exact /\ KidsOf(R, n) \subseteq U \ ({id} \cup Left \cup Made))
  BY <1>2 DEF MidPieces
<1>5. /\ id \in DOMAIN R /\ R[id].tag = W[id].tag /\ (clears => R[id].text = W[id].text)
      /\ KidsOf(R, id) \subseteq todo \cup ToSet(s)
      /\ exact => ToSet(s) \cup (todo \cap wanted) \subseteq KidsOf(R, id)
      /\ exact /\ id \notin new =>
           Among(R[id].kids, wanted) = Among(O[id].kids, wanted) \o Among(s, wanted \ KidsOf(O, id))
  BY <1>2 DEF MidPieces, MidRow
<1>6. ToSet(s) \subseteq Made /\ todo \subseteq Left /\ id \notin Left \cup Made
  BY <1>3 DEF MidKnown
<1>7. /\ SoundPage(Q) /\ Y \cap DOMAIN R = {} /\ DOMAIN Q = DOMAIN R \cup Y
      /\ \A n \in DOMAIN R \ {id} : Q[n] = R[n]
      /\ Q[id].tag = R[id].tag /\ Q[id].text = R[id].text /\ Q[id].kids = Append(R[id].kids, k)
      /\ KidsOf(Q, id) = KidsOf(R, id) \cup {k}
      /\ \A n \in Y : Shaped(Q, W, n, clears)
  BY DEF JoinedPage
<1>8. ToSet(t) = ToSet(s) \cup {k} /\ t \in Seq(wanted)
  <2>1. ToSet(t) = ToSet(s) \cup {k}
    BY <1>4, SetOfAppend
  <2> QED
    BY <1>4, <2>1
<1>9. More = Made \cup Y
  BY <1>8 DEF BelowAll
<1>10. R[id].kids \in Seq(PageIds) /\ KidsOf(R, id) = ToSet(R[id].kids) /\ wanted \subseteq PageIds
  BY <1>1, <1>4, <1>5, SoundRow, TreeRow
<1>11. k \in wanted /\ (k \notin KidsOf(O, id) \/ id \in new)
  OBVIOUS
<1> HIDE DEF Left, Made, More, Y, U, wanted, t
<1>12. Y \cap (Left \cup Made \cup {id}) = {}
  BY <1>4, <1>5, <1>7 DEF LikeNode
<1>13. exact /\ id \notin new =>
         Among(Q[id].kids, wanted) = Among(O[id].kids, wanted) \o Among(t, wanted \ KidsOf(O, id))
  <2> SUFFICES ASSUME exact, id \notin new
               PROVE  Among(Q[id].kids, wanted) = Among(O[id].kids, wanted) \o Among(t, wanted \ KidsOf(O, id))
    OBVIOUS
  <2> DEFINE r == R[id].kids
             S == wanted \ KidsOf(O, id)
             a == Among(O[id].kids, wanted)
             b == Among(s, S)
  <2>1. s \in Seq(PageIds) /\ k \in PageIds /\ k \in S
    <3>1. k \in S /\ k \in PageIds
      BY <1>10, <1>11
    <3> QED
      BY <1>4, <1>10, <3>1
  <2>2. Among(Append(r, k), wanted) = Append(Among(r, wanted), k)
    <3> HIDE DEF r
    <3>1. r \in Seq(PageIds)
      BY <1>10 DEF r
    <3> QED
      BY <1>11, <2>1, <3>1, AmongBuilt
  <2>3. Among(t, S) = Append(b, k) /\ b \in Seq(PageIds)
    <3> HIDE DEF S
    <3> QED
      BY <2>1, AmongBuilt DEF t
  <2>4. a \in Seq(PageIds)
    <3>1. O[id].kids \in Seq(PageIds)
      BY <1>1, TreeRow
    <3> QED
      BY <3>1, AmongFacts
  <2>5. Among(r, wanted) = a \o b
    BY <1>5
  <2> HIDE DEF a, b, S
  <2>6. Append(a \o b, k) = a \o Append(b, k)
    <3>1. a \in Seq(PageIds) /\ b \in Seq(PageIds) /\ k \in PageIds
      BY <2>1, <2>3, <2>4
    <3> QED
      BY ONLY <3>1
  <2> QED
    BY <1>7, <2>2, <2>3, <2>5, <2>6 DEF a, S
<1>14. MidRow(Q, O, W, id, todo, t, clears, exact, new)
  <2>1. id \in DOMAIN Q /\ Q[id].tag = W[id].tag /\ (clears => Q[id].text = W[id].text)
    BY <1>5, <1>7
  <2>2. KidsOf(Q, id) \subseteq todo \cup ToSet(t)
    BY <1>5, <1>7, <1>8
  <2>3. exact => ToSet(t) \cup (todo \cap wanted) \subseteq KidsOf(Q, id)
    BY <1>5, <1>7, <1>8
  <2> QED
    BY <1>13, <2>1, <2>2, <2>3 DEF MidRow, wanted
<1>15. /\ \A n \in Left : LikeNode(Q, O, n, clears, exact, old)
       /\ \A n \in Made : LikeNode(Q, W, n, clears, exact, new)
  BY <1>4, <1>6, <1>7 DEF LikeNode, KidsOf
<1>16. \A n \in Y : LikeNode(Q, W, n, clears, exact, new)
  BY <1>7 DEF LikeNode, KidsOf, Shaped
<1>17. \A n \in DOMAIN P \ U : n \in DOMAIN Q /\ n \notin Left \cup More /\ n # id /\ Q[n] = P[n]
  BY <1>4, <1>7, <1>9
<1>18. ASSUME NEW n \in DOMAIN Q \ ({id} \cup Left \cup More)
       PROVE  n \in DOMAIN P
              /\ (n \in U => ~exact /\ KidsOf(Q, n) \subseteq U \ ({id} \cup Left \cup More))
  <2>1. n \in DOMAIN R /\ n \notin {id} \cup Left \cup Made /\ Q[n] = R[n]
    BY <1>7, <1>9, <1>18
  <2>2. KidsOf(Q, n) = KidsOf(R, n) /\ KidsOf(R, n) \cap Y = {}
    BY <1>4, <1>7, <2>1 DEF KidsOf, SoundPage
  <2> QED
    BY <1>4, <1>9, <2>1, <2>2
<1>19. Left \cap More = {}
  BY <1>4, <1>9, <1>12
<1>20. \A n \in More : LikeNode(Q, W, n, clears, exact, new)
  BY <1>9, <1>15, <1>16
<1>21. MidPieces(P, Q, O, W, id, todo, t, clears, exact, old, new, Left, More)
  BY <1>4, <1>7, <1>8, <1>14, <1>15, <1>17, <1>18, <1>19, <1>20 DEF MidPieces, U, wanted
<1> QED
  BY <1>21, MidIs DEF Left, More, t

\* A child that both trees have was reconciled.
LEMMA KeepStep ==
  ASSUME NEW O, NEW W, NEW g, NEW h, TwoTrees(O, W, g, h),
         NEW clears, NEW exact, NEW old, NEW new, NEW id \in DOMAIN O \cap DOMAIN W,
         NEW P, ReadyPage(P, O, id, clears, exact, old), NEW todo, NEW s, NEW R,
         MidPage(P, R, O, W, id, todo, s, clears, exact, old, new),
         NEW k \in todo \cap KidsOf(W, id),
         NEW Q, DonePage(R, Q, O, W, k, clears, exact, new)
  PROVE  MidPage(P, Q, O, W, id, todo \ {k}, Append(s, k), clears, exact, old, new)
PROOF
<1> DEFINE Left == BelowAll(O, todo)
           Rest == BelowAll(O, todo \ {k})
           Made == BelowAll(W, ToSet(s))
           More == BelowAll(W, ToSet(Append(s, k)))
           Uk == Under(O, k)
           Vk == Under(W, k)
           U == Under(O, id)
           wanted == KidsOf(W, id)
           t == Append(s, k)
<1>1. PageTree(O, g) /\ PageTree(W, h) /\ id \in DOMAIN O /\ id \in DOMAIN W
  BY DEF TwoTrees
<1>2. MidPieces(P, R, O, W, id, todo, s, clears, exact, old, new, Left, Made)
  BY MidIs
<1>3. MidKnown(R, W, id, todo, s, Left, Made)
  BY MidFacts
<1>4. /\ SoundPage(R) /\ todo \subseteq KidsOf(O, id) /\ s \in Seq(wanted) /\ Left \cap Made = {}
      /\ \A n \in Left : LikeNode(R, O, n, clears, exact, old)
      /\ \A n \in Made : LikeNode(R, W, n, clears, exact, new)
      /\ \A n \in DOMAIN P \ U : n \in DOMAIN R /\ n \notin Left \cup Made /\ n # id /\ R[n] = P[n]
      /\ \A n \in DOMAIN R \ ({id} \cup Left \cup Made) :
           n \in DOMAIN P /\ (n \in U => ~exact /\ KidsOf(R, n) \subseteq U \ ({id} \cup Left \cup Made))
  BY <1>2 DEF MidPieces
<1>5. /\ id \in DOMAIN R /\ R[id].tag = W[id].tag /\ (clears => R[id].text = W[id].text)
      /\ KidsOf(R, id) \subseteq todo \cup ToSet(s)
      /\ exact => ToSet(s) \cup (todo \cap wanted) \subseteq KidsOf(R, id)
      /\ exact /\ id \notin new =>
           Among(R[id].kids, wanted) = Among(O[id].kids, wanted) \o Among(s, wanted \ KidsOf(O, id))
  BY <1>2 DEF MidPieces, MidRow
<1>6. /\ ToSet(s) \subseteq Made /\ todo \subseteq Left /\ id \notin Left \cup Made
      /\ \A n \in DOMAIN R \ ({id} \cup Left \cup Made) :
           KidsOf(R, n) \cap ({id} \cup Left \cup Made) \subseteq {id}
  BY <1>3 DEF MidKnown
<1>7. Uk \subseteq Left /\ Rest = Left \ Uk /\ Left \subseteq U
  BY <1>1, <1>4, BelowSome
<1>8. /\ SoundPage(Q)
      /\ \A n \in Vk : LikeNode(Q, W, n, clears, exact, new)
      /\ \A n \in DOMAIN R \ Uk : n \in DOMAIN Q /\ n \notin Vk /\ Q[n] = R[n]
      /\ \A n \in DOMAIN Q \ Vk :
           n \in DOMAIN R /\ (n \in Uk => ~exact /\ KidsOf(Q, n) \subseteq Uk \ Vk)
  BY DEF DonePage
<1>9. U \subseteq DOMAIN P
  BY DEF ReadyPage, LikeNode
<1>10. k \in wanted /\ k \in todo /\ k \in KidsOf(O, id)
  BY <1>4
<1>11. ToSet(t) = ToSet(s) \cup {k} /\ t \in Seq(wanted)
  <2>1. ToSet(t) = ToSet(s) \cup {k}
    BY <1>4, SetOfAppend
  <2> QED
    BY <1>4, <1>10, <2>1
<1>12. More = Made \cup Vk
  BY <1>11 DEF BelowAll
<1>13. wanted \subseteq PageIds
  BY <1>1, TreeRow
<1> HIDE DEF Left, Rest, Made, More, Uk, Vk, U, wanted, t
<1>14. \A n \in {id} \cup Rest \cup Made : n \in DOMAIN Q /\ n \notin Vk /\ Q[n] = R[n]
  BY <1>4, <1>5, <1>6, <1>7, <1>8 DEF LikeNode
<1>15. exact /\ id \notin new =>
         Among(Q[id].kids, wanted) = Among(O[id].kids, wanted) \o Among(t, wanted \ KidsOf(O, id))
  <2> DEFINE S == wanted \ KidsOf(O, id)
  <2>1. s \in Seq(PageIds) /\ k \in PageIds /\ k \notin S
    BY <1>4, <1>10, <1>13
  <2>2. Among(t, S) = Among(s, S)
    <3> HIDE DEF S
    <3> QED
      BY <2>1, AmongBuilt DEF t
  <2> QED
    BY <1>5, <1>14, <2>2
<1>16. MidRow(Q, O, W, id, todo \ {k}, t, clears, exact, new)
  <2>1. id \in DOMAIN Q /\ Q[id] = R[id] /\ KidsOf(Q, id) = KidsOf(R, id)
    BY <1>14 DEF KidsOf
  <2>2. KidsOf(Q, id) \subseteq (todo \ {k}) \cup ToSet(t)
    BY <1>5, <1>11, <2>1
  <2>3. exact => ToSet(t) \cup ((todo \ {k}) \cap wanted) \subseteq KidsOf(Q, id)
    BY <1>5, <1>10, <1>11, <2>1
  <2> QED
    BY <1>5, <1>15, <2>1, <2>2, <2>3 DEF MidRow, wanted
<1>17. /\ \A n \in Rest : LikeNode(Q, O, n, clears, exact, old)
       /\ \A n \in Made : LikeNode(Q, W, n, clears, exact, new)
  BY <1>4, <1>7, <1>14 DEF LikeNode, KidsOf
<1>18. \A n \in More : LikeNode(Q, W, n, clears, exact, new)
  BY <1>8, <1>12, <1>17
<1>19. \A n \in DOMAIN P \ U : n \in DOMAIN Q /\ n \notin Rest \cup More /\ n # id /\ Q[n] = P[n]
  BY <1>4, <1>7, <1>8, <1>12
<1>20. ASSUME NEW n \in DOMAIN Q \ ({id} \cup Rest \cup More)
       PROVE  n \in DOMAIN P
              /\ (n \in U => ~exact /\ KidsOf(Q, n) \subseteq U \ ({id} \cup Rest \cup More))
  <2>1. n \notin Vk /\ n \in DOMAIN R /\ n \notin {id} \cup Rest \cup Made
    BY <1>8, <1>12, <1>20
  <2>2. CASE n \in Uk
    <3>1. ~exact /\ KidsOf(Q, n) \subseteq Uk \ Vk /\ n \in DOMAIN P
      BY <1>7, <1>8, <1>9, <2>1, <2>2
    <3>2. Uk \ Vk \subseteq U \ ({id} \cup Rest \cup More)
      BY <1>4, <1>6, <1>7, <1>12
    <3> QED
      BY <3>1, <3>2
  <2>3. CASE n \notin Uk
    <3>1. n \in DOMAIN R \ ({id} \cup Left \cup Made) /\ Q[n] = R[n] /\ KidsOf(Q, n) = KidsOf(R, n)
      BY <1>7, <1>8, <2>1, <2>3 DEF KidsOf
    <3>2. n \in DOMAIN P
      BY <1>4, <3>1
    <3>3. ASSUME n \in U, NEW y \in KidsOf(Q, n)
          PROVE  y \in U \ ({id} \cup Rest \cup More)
      <4>1. y \in U /\ y \notin {id} \cup Left \cup Made
        BY <1>4, <3>1, <3>3
      <4>2. y \in DOMAIN R
        BY <1>4, <3>1, <3>3 DEF SoundPage
      <4>3. y \notin Vk
        BY <1>7, <1>8, <4>1, <4>2
      <4> QED
        BY <1>7, <1>12, <4>1, <4>3
    <3> QED
      BY <1>4, <3>1, <3>2, <3>3
  <2> QED
    BY <2>2, <2>3
<1>21. todo \ {k} \subseteq KidsOf(O, id) /\ Rest \cap More = {}
  BY <1>4, <1>7, <1>12, <1>14
<1>22. MidPieces(P, Q, O, W, id, todo \ {k}, t, clears, exact, old, new, Rest, More)
  BY <1>8, <1>11, <1>16, <1>17, <1>18, <1>19, <1>20, <1>21 DEF MidPieces, U, wanted
<1> QED
  BY <1>22, MidIs DEF Rest, More, t

\* The page with the new text is on the way, with all children as in O.
LEMMA TextStep ==
  ASSUME NEW O, NEW W, NEW g, NEW h, TwoTrees(O, W, g, h), NEW K,
         NEW clears, NEW exact, NEW old, NEW new, Reconciling(O, W, K, clears, exact, old, new),
         NEW id \in K, NEW P, ReadyPage(P, O, id, clears, exact, old), NEW R,
         \/ R = P /\ O[id].text = W[id].text
         \/ WordedPage(P, R, id, W[id].text, clears) /\ O[id].text # W[id].text
  PROVE  MidPage(P, R, O, W, id, KidsOf(O, id), <<>>, clears, exact, old, new)
PROOF
<1> DEFINE todo == KidsOf(O, id)
           Left == BelowAll(O, todo)
           Made == BelowAll(W, ToSet(<<>>))
           U == Under(O, id)
           wanted == KidsOf(W, id)
           none == <<>>
<1>1. PageTree(O, g) /\ PageTree(W, h) /\ id \in DOMAIN O /\ id \in DOMAIN W
      /\ clears \in BOOLEAN /\ exact \in BOOLEAN
  BY DEF TwoTrees, Reconciling, KeepsNodes
<1>2. Made = {} /\ ToSet(none) = {} /\ none \in Seq(wanted)
  BY DEF BelowAll, ToSet
<1>3. U = {id} \cup Left /\ id \notin Left
  <2>1. U = {id} \cup Left
    BY <1>1, BelowKids DEF BelowAll
  <2>2. id \notin Left
    BY <1>1, BelowSome
  <2> QED
    BY <2>1, <2>2
<1>4. /\ SoundPage(P) /\ \A n \in U : LikeNode(P, O, n, clears, exact, old)
  BY DEF ReadyPage
<1>5. O[id].tag = W[id].tag
      /\ (id \notin new => id \notin old)
      /\ (exact /\ clears /\ O[id].text # W[id].text => todo \cap wanted = {})
  BY DEF Reconciling, KeepsNodes
<1>6. /\ SoundPage(R) /\ DOMAIN R = DOMAIN P /\ \A n \in DOMAIN P \ {id} : R[n] = P[n]
      /\ R[id].tag = P[id].tag
      /\ R[id] = P[id] \/ (clears /\ O[id].text # W[id].text /\ R[id].text = W[id].text /\ R[id].kids = <<>>)
      /\ R[id] = P[id] => ~clears \/ O[id].text = W[id].text \/ P[id].text = W[id].text
  BY <1>1, <1>4 DEF WordedPage
<1>7. LikeNode(P, O, id, clears, exact, old)
  BY <1>3, <1>4
<1>8. O[id].kids \in Seq(PageIds) /\ KidsOf(O, id) = ToSet(O[id].kids)
  BY <1>1, TreeRow
<1>9. MidRow(R, O, W, id, todo, none, clears, exact, new)
  <2>1. /\ id \in DOMAIN R /\ R[id].tag = W[id].tag /\ (clears => R[id].text = W[id].text)
    BY <1>5, <1>6, <1>7 DEF LikeNode
  <2>2. CASE R[id] = P[id]
    <3>1. KidsOf(R, id) = KidsOf(P, id)
      BY <2>2 DEF KidsOf
    <3>2. KidsOf(R, id) \subseteq todo /\ (exact => todo \subseteq KidsOf(R, id))
          /\ (exact /\ id \notin new => R[id].kids = O[id].kids)
      BY <1>5, <1>7, <2>2, <3>1 DEF LikeNode
    <3>3. Among(none, wanted \ KidsOf(O, id)) = <<>> /\ Among(O[id].kids, wanted) \in Seq(PageIds)
      BY <1>8, AmongNothing, AmongFacts
    <3>4. exact /\ id \notin new =>
            Among(R[id].kids, wanted) = Among(O[id].kids, wanted) \o Among(none, wanted \ KidsOf(O, id))
      <4>1. \A a \in Seq(PageIds) : a \o <<>> = a
        OBVIOUS
      <4> HIDE DEF none
      <4> QED
        BY <3>2, <3>3, <4>1
    <3> HIDE DEF none
    <3> QED
      BY <1>2, <2>1, <3>2, <3>4 DEF MidRow
  <2>3. CASE clears /\ O[id].text # W[id].text /\ R[id].kids = <<>>
    <3>1. KidsOf(R, id) = {}
      BY <2>3 DEF KidsOf, ToSet
    <3>2. exact => todo \cap wanted = {}
      BY <1>5, <2>3
    <3>3. Among(none, wanted \ KidsOf(O, id)) = none /\ Among(R[id].kids, wanted) = none
      BY <2>3, AmongNothing
    <3>4. exact => Among(O[id].kids, wanted) = none
      <4> SUFFICES ASSUME exact PROVE Among(O[id].kids, wanted) = none
        OBVIOUS
      <4>1. AmongLaws(O[id].kids, wanted, wanted)
        BY <1>8, AmongSame
      <4>2. ToSet(O[id].kids) \cap wanted = {}
        BY <1>8, <3>2
      <4> QED
        BY <4>1, <4>2 DEF AmongLaws
    <3>5. exact => Among(R[id].kids, wanted) = Among(O[id].kids, wanted) \o Among(none, wanted \ KidsOf(O, id))
      <4>1. none \o none = none
        OBVIOUS
      <4> HIDE DEF none
      <4> QED
        BY <3>3, <3>4, <4>1
    <3> HIDE DEF none
    <3> QED
      BY <1>2, <2>1, <3>1, <3>2, <3>5 DEF MidRow
  <2> QED
    BY <1>6, <2>2, <2>3
<1> HIDE DEF Left, Made, U, none
<1>10. \A n \in Left : LikeNode(R, O, n, clears, exact, old)
  <2> SUFFICES ASSUME NEW n \in Left PROVE LikeNode(R, O, n, clears, exact, old)
    OBVIOUS
  <2>1. LikeNode(P, O, n, clears, exact, old) /\ n # id
    BY <1>3, <1>4
  <2>2. n \in DOMAIN R /\ R[n] = P[n]
    BY <1>6, <2>1 DEF LikeNode
  <2> QED
    BY <2>1, <2>2 DEF LikeNode, KidsOf
<1>11. \A n \in DOMAIN P \ U : n \in DOMAIN R /\ n \notin Left \cup Made /\ n # id /\ R[n] = P[n]
  BY <1>2, <1>3, <1>6
<1>12. \A n \in DOMAIN R \ ({id} \cup Left \cup Made) : n \in DOMAIN P /\ n \notin U
  BY <1>3, <1>6
<1>13. MidPieces(P, R, O, W, id, todo, none, clears, exact, old, new, Left, Made)
  BY <1>2, <1>6, <1>9, <1>10, <1>11, <1>12 DEF MidPieces, U
<1> QED
  BY <1>13, MidIs DEF Left, Made, none

\* With the children of W in their order, all is done.
LEMMA OrderStep ==
  ASSUME NEW O, NEW W, NEW g, NEW h, TwoTrees(O, W, g, h),
         NEW clears, NEW exact, NEW old, NEW new, NEW id \in DOMAIN O \cap DOMAIN W,
         NEW P, NEW R, MidPage(P, R, O, W, id, {}, W[id].kids, clears, exact, old, new),
         NEW Q, SoundPage(Q), DOMAIN Q = DOMAIN R, \A n \in DOMAIN R \ {id} : Q[n] = R[n],
         Q[id].tag = R[id].tag, Q[id].text = R[id].text,
         KidsOf(R, id) \subseteq KidsOf(Q, id), KidsOf(Q, id) \subseteq KidsOf(W, id),
         exact /\ id \notin new => Q[id].kids = W[id].kids
  PROVE  DonePage(P, Q, O, W, id, clears, exact, new)
PROOF
<1> DEFINE Left == BelowAll(O, {})
           Made == BelowAll(W, KidsOf(W, id))
           V == Under(W, id)
           U == Under(O, id)
           s == W[id].kids
<1>1. PageTree(W, h) /\ id \in DOMAIN W
  BY DEF TwoTrees
<1>2. ToSet(s) = KidsOf(W, id) /\ Left = {} /\ V = {id} \cup Made /\ id \notin Made
  <2>1. Left = {} /\ ToSet(s) = KidsOf(W, id)
    BY DEF BelowAll, KidsOf
  <2>2. V = {id} \cup Made
    BY <1>1, BelowKids DEF BelowAll
  <2>3. id \notin Made
    BY <1>1, BelowSome
  <2> QED
    BY <2>1, <2>2, <2>3
<1>3. MidPieces(P, R, O, W, id, {}, s, clears, exact, old, new, Left, Made)
  BY <1>2, MidIs
<1> HIDE DEF Left, Made, V, U, s
<1>4. /\ \A n \in Made : LikeNode(R, W, n, clears, exact, new)
      /\ \A n \in DOMAIN P \ U : n \in DOMAIN R /\ n \notin Left \cup Made /\ n # id /\ R[n] = P[n]
      /\ \A n \in DOMAIN R \ ({id} \cup Left \cup Made) :
           n \in DOMAIN P /\ (n \in U => ~exact /\ KidsOf(R, n) \subseteq U \ ({id} \cup Left \cup Made))
  BY <1>3 DEF MidPieces, U
<1>5. /\ id \in DOMAIN R /\ R[id].tag = W[id].tag /\ (clears => R[id].text = W[id].text)
      /\ exact => ToSet(s) \subseteq KidsOf(R, id)
  BY <1>3 DEF MidPieces, MidRow
<1>6. \A n \in Made : LikeNode(Q, W, n, clears, exact, new)
  BY <1>2, <1>4 DEF LikeNode, KidsOf
<1>7. LikeNode(Q, W, id, clears, exact, new)
  BY <1>2, <1>5 DEF LikeNode
<1>8. \A n \in V : LikeNode(Q, W, n, clears, exact, new)
  BY <1>2, <1>6, <1>7
<1>9. \A n \in DOMAIN P \ U : n \in DOMAIN Q \ V /\ Q[n] = P[n]
  BY <1>2, <1>4
<1>10. ASSUME NEW n \in DOMAIN Q \ V
       PROVE  n \in DOMAIN P /\ (n \in U => ~exact /\ KidsOf(Q, n) \subseteq U \ V)
  <2>1. n \in DOMAIN R \ ({id} \cup Left \cup Made) /\ n # id /\ Q[n] = R[n]
    BY <1>2, <1>10
  <2>2. KidsOf(Q, n) = KidsOf(R, n)
    BY <2>1 DEF KidsOf
  <2> QED
    BY <1>2, <1>4, <2>1, <2>2
<1> QED
  BY <1>8, <1>9, <1>10 DEF DonePage, U, V
(* Lists of what is emitted for children. *)

\* What each element of a list emits leads from one page to the next; M has the pages
\* on the way, with the elements so far.
LEMMA ListLeads ==
  ASSUME NEW X, NEW of, \A k \in X : of[k] \in Seq(PagePatches), NEW clears \in BOOLEAN,
         NEW M, NEW P, SoundPage(P), <<<<>>, P>> \in M,
         \A t \in Seq(X) : \A R, Q : \A k \in X \ ToSet(t) :
           <<t, R>> \in M /\ SoundPage(R) /\ LeadsTo(R, of[k], clears, Q) => <<Append(t, k), Q>> \in M,
         NEW s \in Seq(X), Distinct(s)
  PROVE  /\ EmittedBy(s, of) \in Seq(PagePatches)
         /\ \A Q : LeadsTo(P, EmittedBy(s, of), clears, Q) => <<s, Q>> \in M /\ SoundPage(Q)
PROOF
<1> DEFINE e(t) == EmittedBy(t, of)
           Good(t) == \A Q : LeadsTo(P, e(t), clears, Q) => <<t, Q>> \in M /\ SoundPage(Q)
           T == {t \in Seq(X) : e(t) \in Seq(PagePatches) /\ (Distinct(t) => Good(t))}
<1>1. <<>> \in T
  <2> DEFINE none == <<>>
  <2>1. e(none) = none
    BY EmittedNothing
  <2>2. none \in Seq(X) /\ none \in Seq(PagePatches)
    OBVIOUS
  <2>3. \A Q : LeadsTo(P, none, clears, Q) => <<none, Q>> \in M /\ SoundPage(Q)
    BY LeadsNowhere
  <2> HIDE DEF none, e
  <2> QED
    BY <2>1, <2>2, <2>3 DEF none
<1>2. \A t \in Seq(X) : \A k \in X : t \in T => Append(t, k) \in T
  <2> SUFFICES ASSUME NEW t \in Seq(X), NEW k \in X, t \in T PROVE Append(t, k) \in T
    OBVIOUS
  <2> DEFINE et == e(t)
             u == Append(t, k)
             eu == e(u)
             piece == of[k]
  <2>1. ToSet(t) \subseteq X
    BY SetTyped
  <2>2. eu = et \o piece /\ et \in Seq(PagePatches) /\ piece \in Seq(PagePatches)
    <3>1. \A x \in ToSet(t) \cup {k} : of[x] \in Seq(PagePatches)
      BY <2>1
    <3>2. EmittedBy(Append(t, k), of) = EmittedBy(t, of) \o of[k] /\ EmittedBy(t, of) \in Seq(PagePatches)
      BY <3>1, EmittedBuilt
    <3> QED
      BY <3>2
  <2>3. u \in Seq(X) /\ (Distinct(u) => Distinct(t) /\ k \notin ToSet(t))
    BY AppendDistinct
  <2>4. Distinct(t) => Good(t)
    OBVIOUS
  <2> HIDE DEF T, e, et, u, eu, piece
  <2>5. eu \in Seq(PagePatches)
    BY <2>2
  <2>6. ASSUME Distinct(u), NEW Q, LeadsTo(P, eu, clears, Q) PROVE <<u, Q>> \in M /\ SoundPage(Q)
    <3>1. PICK R : LeadsTo(P, et, clears, R) /\ LeadsTo(R, piece, clears, Q)
      <4>1. LeadsTo(P, et \o piece, clears, Q) <=> \E R : LeadsTo(P, et, clears, R) /\ LeadsTo(R, piece, clears, Q)
        BY <2>2, LeadsConcat
      <4> QED
        BY <2>2, <2>6, <4>1
    <3>2. <<t, R>> \in M /\ SoundPage(R)
      BY <2>3, <2>4, <2>6, <3>1 DEF et
    <3>3. SoundPage(Q)
      BY <2>2, <3>1, <3>2, WholeIs
    <3> QED
      BY <2>3, <2>6, <3>1, <3>2, <3>3 DEF u, piece
  <2> QED
    BY <2>3, <2>5, <2>6 DEF T, u, eu
<1> HIDE DEF T
<1>3. s \in T
  BY <1>1, <1>2, SequencesBuilt
<1> QED
  BY <1>3 DEF T

\* If each of them can be taken, all of them can.
LEMMA ListGoes ==
  ASSUME NEW X, NEW of, \A k \in X : of[k] \in Seq(PagePatches), NEW clears \in BOOLEAN,
         NEW M, NEW P, SoundPage(P), <<<<>>, P>> \in M,
         \A t \in Seq(X) : \A R, Q : \A k \in X \ ToSet(t) :
           <<t, R>> \in M /\ SoundPage(R) /\ LeadsTo(R, of[k], clears, Q) => <<Append(t, k), Q>> \in M,
         \A t \in Seq(X) : \A R : \A k \in X \ ToSet(t) :
           <<t, R>> \in M /\ SoundPage(R) => \E Q : LeadsTo(R, of[k], clears, Q),
         NEW s \in Seq(X), Distinct(s)
  PROVE  \E Q : LeadsTo(P, EmittedBy(s, of), clears, Q)
PROOF
<1> DEFINE e(t) == EmittedBy(t, of)
           T == {t \in Seq(X) : Distinct(t) => \E Q : LeadsTo(P, e(t), clears, Q)}
<1>1. <<>> \in T
  <2> DEFINE none == <<>>
  <2>1. e(none) = none
    BY EmittedNothing
  <2>2. none \in Seq(X)
    OBVIOUS
  <2>3. LeadsTo(P, none, clears, P)
    BY LeadsNowhere
  <2> HIDE DEF none, e
  <2> QED
    BY <2>1, <2>2, <2>3 DEF none
<1>2. \A t \in Seq(X) : \A k \in X : t \in T => Append(t, k) \in T
  <2> SUFFICES ASSUME NEW t \in Seq(X), NEW k \in X, t \in T, Distinct(Append(t, k))
               PROVE  \E Q : LeadsTo(P, e(Append(t, k)), clears, Q)
    OBVIOUS
  <2> DEFINE et == e(t)
             eu == e(Append(t, k))
             piece == of[k]
  <2>1. Distinct(t) /\ k \notin ToSet(t) /\ ToSet(t) \subseteq X
    BY AppendDistinct, SetTyped
  <2>2. eu = et \o piece /\ et \in Seq(PagePatches) /\ piece \in Seq(PagePatches)
    <3>1. \A x \in ToSet(t) \cup {k} : of[x] \in Seq(PagePatches)
      BY <2>1
    <3>2. EmittedBy(Append(t, k), of) = EmittedBy(t, of) \o of[k] /\ EmittedBy(t, of) \in Seq(PagePatches)
      BY <3>1, EmittedBuilt
    <3> QED
      BY <3>2
  <2>3. PICK R : LeadsTo(P, et, clears, R)
    BY <2>1
  <2>4. <<t, R>> \in M /\ SoundPage(R)
    <3>1. \A Q : LeadsTo(P, EmittedBy(t, of), clears, Q) => <<t, Q>> \in M /\ SoundPage(Q)
      BY <2>1, ListLeads
    <3> QED
      BY <2>3, <3>1
  <2> HIDE DEF T, e, et, eu, piece
  <2>5. PICK Q : LeadsTo(R, piece, clears, Q)
    BY <2>1, <2>4 DEF piece
  <2>6. LeadsTo(P, et \o piece, clears, Q) <=> \E S : LeadsTo(P, et, clears, S) /\ LeadsTo(S, piece, clears, Q)
    BY <2>2, LeadsConcat
  <2> QED
    BY <2>2, <2>3, <2>5, <2>6 DEF eu
<1> HIDE DEF T
<1>3. s \in T
  BY <1>1, <1>2, SequencesBuilt
<1> QED
  BY <1>3 DEF T

\* If each of them can be taken with texts that clear where it can be taken with texts
\* that do not, all of them can; M has the pages of both runs.
LEMMA ListBoth ==
  ASSUME NEW X, NEW of, \A k \in X : of[k] \in Seq(PagePatches),
         NEW M, NEW P1, SoundPage(P1), NEW P2, SoundPage(P2), <<<<>>, P1, P2>> \in M,
         \A t \in Seq(X) : \A R1, R2, Q1, Q2 : \A k \in X \ ToSet(t) :
           /\ <<t, R1, R2>> \in M /\ SoundPage(R1) /\ SoundPage(R2)
           /\ LeadsTo(R1, of[k], FALSE, Q1) /\ LeadsTo(R2, of[k], TRUE, Q2)
           => <<Append(t, k), Q1, Q2>> \in M,
         \A t \in Seq(X) : \A R1, R2, Q1 : \A k \in X \ ToSet(t) :
           <<t, R1, R2>> \in M /\ SoundPage(R1) /\ SoundPage(R2) /\ LeadsTo(R1, of[k], FALSE, Q1)
             => \E Q2 : LeadsTo(R2, of[k], TRUE, Q2),
         NEW s \in Seq(X), Distinct(s), NEW Q1, LeadsTo(P1, EmittedBy(s, of), FALSE, Q1)
  PROVE  \E Q2 : LeadsTo(P2, EmittedBy(s, of), TRUE, Q2)
PROOF
<1> DEFINE e(t) == EmittedBy(t, of)
           Good(t) == \A R1 : LeadsTo(P1, e(t), FALSE, R1) =>
                        SoundPage(R1) /\ \E R2 : LeadsTo(P2, e(t), TRUE, R2) /\ SoundPage(R2) /\ <<t, R1, R2>> \in M
           T == {t \in Seq(X) : Distinct(t) => Good(t)}
<1>1. <<>> \in T
  <2> DEFINE none == <<>>
  <2>1. e(none) = none
    BY EmittedNothing
  <2>2. none \in Seq(X)
    OBVIOUS
  <2>3. LeadsTo(P2, none, TRUE, P2) /\ \A Q : LeadsTo(P1, none, FALSE, Q) => Q = P1
    BY LeadsNowhere
  <2>4. <<none, P1, P2>> \in M
    OBVIOUS
  <2> HIDE DEF none, e
  <2> QED
    BY <2>1, <2>2, <2>3, <2>4 DEF none
<1>2. \A t \in Seq(X) : \A k \in X : t \in T => Append(t, k) \in T
  <2> HIDE DEF Good, e
  <2> SUFFICES ASSUME NEW t \in Seq(X), NEW k \in X, t \in T, Distinct(Append(t, k))
               PROVE  Good(Append(t, k))
    OBVIOUS
  <2> USE DEF Good
  <2> DEFINE et == e(t)
             u == Append(t, k)
             eu == e(u)
             piece == of[k]
  <2>1. Distinct(t) /\ k \notin ToSet(t) /\ ToSet(t) \subseteq X
    BY AppendDistinct, SetTyped
  <2>2. eu = et \o piece /\ et \in Seq(PagePatches) /\ piece \in Seq(PagePatches)
    <3>1. \A x \in ToSet(t) \cup {k} : of[x] \in Seq(PagePatches)
      BY <2>1
    <3>2. EmittedBy(Append(t, k), of) = EmittedBy(t, of) \o of[k] /\ EmittedBy(t, of) \in Seq(PagePatches)
      BY <3>1, EmittedBuilt
    <3> QED
      BY <3>1, <3>2, <2>1 DEF e
  <2>3. Good(t)
    <3> HIDE DEF Good
    <3> QED
      BY <2>1
  <2> HIDE DEF T, et, eu, piece, u
  <2> SUFFICES ASSUME NEW S1, LeadsTo(P1, eu, FALSE, S1)
               PROVE  SoundPage(S1) /\ \E S2 : LeadsTo(P2, eu, TRUE, S2) /\ SoundPage(S2) /\ <<u, S1, S2>> \in M
    BY DEF eu, u
  <2>4. PICK R1 : LeadsTo(P1, et, FALSE, R1) /\ LeadsTo(R1, piece, FALSE, S1)
    <3>1. LeadsTo(P1, et \o piece, FALSE, S1) <=> \E R : LeadsTo(P1, et, FALSE, R) /\ LeadsTo(R, piece, FALSE, S1)
      BY <2>2, LeadsConcat
    <3> QED
      BY <2>2, <3>1
  <2>5. SoundPage(R1) /\ \E R2 : LeadsTo(P2, et, TRUE, R2) /\ SoundPage(R2) /\ <<t, R1, R2>> \in M
    BY <2>3, <2>4 DEF et
  <2>6. PICK R2 : LeadsTo(P2, et, TRUE, R2) /\ SoundPage(R2) /\ <<t, R1, R2>> \in M
    BY <2>5
  <2>7. \E S2 : LeadsTo(R2, piece, TRUE, S2)
    BY <2>1, <2>4, <2>5, <2>6 DEF piece
  <2>8. PICK S2 : LeadsTo(R2, piece, TRUE, S2)
    BY <2>7
  <2>9. <<u, S1, S2>> \in M
    BY <2>1, <2>4, <2>5, <2>6, <2>8 DEF piece, u
  <2>10. SoundPage(S1) /\ SoundPage(S2)
    BY <2>2, <2>4, <2>5, <2>6, <2>8, WholeIs
  <2>11. LeadsTo(P2, eu, TRUE, S2)
    <3>1. LeadsTo(P2, et \o piece, TRUE, S2) <=> \E R : LeadsTo(P2, et, TRUE, R) /\ LeadsTo(R, piece, TRUE, S2)
      BY <2>2, LeadsConcat
    <3> QED
      BY <2>2, <2>6, <2>8, <3>1
  <2> QED
    BY <2>9, <2>10, <2>11
<1> HIDE DEF T
<1>3. s \in T
  BY <1>1, <1>2, SequencesBuilt
<1> QED
  BY <1>3 DEF T
(* The parts of a change. *)

\* Children were placed below id; Q after R.
PlacedPage(R, Q, W, id) ==
  /\ SoundPage(Q) /\ DOMAIN Q = DOMAIN R /\ \A n \in DOMAIN R \ {id} : Q[n] = R[n]
  /\ Q[id].tag = R[id].tag /\ Q[id].text = R[id].text
  /\ KidsOf(R, id) \subseteq KidsOf(Q, id) /\ KidsOf(Q, id) \subseteq KidsOf(W, id)

\* The children of id, as a row.
RowOf(R, id) == [kids |-> R[id].kids, ok |-> TRUE]

\* The row of a page on the way.
LEMMA RowOfIs ==
  ASSUME NEW R, SoundPage(R), NEW id \in DOMAIN R
  PROVE  RowOf(R, id) \in RowStates /\ RowOf(R, id).kids = R[id].kids /\ RowOf(R, id).ok = TRUE
PROOF
<1>1. R[id].kids \in Seq(PageIds) /\ Distinct(R[id].kids)
  BY SoundRow
<1> DEFINE s == R[id].kids
<1> HIDE DEF s
<1>2. /\ [kids |-> s, ok |-> TRUE] \in RowStates
      /\ [kids |-> s, ok |-> TRUE].kids = s /\ [kids |-> s, ok |-> TRUE].ok = TRUE
  BY <1>1, RowStateIs DEF s
<1> QED
  BY <1>2 DEF s, RowOf

\* One placement.
LEMMA PlaceOne ==
  ASSUME NEW W, NEW id, NEW clears \in BOOLEAN, NEW P, SoundPage(P), id \in DOMAIN P,
         KidsOf(P, id) \subseteq KidsOf(W, id),
         NEW p \in PagePatches, p.kind = "place", p.target = id, p.child \in KidsOf(W, id),
         \A n \in DOMAIN P \ {id} : p.child \notin KidsOf(P, n), Admits(P, p)
  PROVE  /\ PlacedPage(P, PatchedPage(P, p, clears), W, id)
         /\ RowOf(PatchedPage(P, p, clears), id) = RowStep(W, id, clears, RowOf(P, id), p)
PROOF
<1> DEFINE Q == PatchedPage(P, p, clears)
           x == RowOf(P, id)
           r == P[id].kids
<1>1. HungPage(P, Q, id, p.child, p.before)
  <2>1. \A n \in DOMAIN P \ {p.target} : p.child \notin KidsOf(P, n)
    OBVIOUS
  <2>2. HungPage(P, PatchedPage(P, p, clears), p.target, p.child, p.before)
    BY <2>1, Hangs
  <2> QED
    BY <2>2
<1> HIDE DEF Q, x, r
<1>2. /\ SoundPage(Q) /\ DOMAIN Q = DOMAIN P /\ \A n \in DOMAIN P \ {id} : Q[n] = P[n]
      /\ Q[id].tag = P[id].tag /\ Q[id].text = P[id].text
      /\ Q[id].kids = Moved(r, p.child, p.before)
      /\ KidsOf(Q, id) = KidsOf(P, id) \cup {p.child}
  BY <1>1 DEF HungPage, r
<1>3. PlacedPage(P, Q, W, id)
  BY <1>2 DEF PlacedPage
<1>4. x \in RowStates /\ x.kids = r /\ x.ok = TRUE
  BY RowOfIs DEF x, r
<1>5. p.before \in ToSet(x.kids) \cup {NoNode}
  BY <1>4 DEF Admits, KidsOf, r
<1>6. PlacedStep(RowStep(W, id, clears, x, p), x, p)
  BY <1>4, <1>5, RowPlaced
<1>7. RowStep(W, id, clears, x, p) = [kids |-> Moved(r, p.child, p.before), ok |-> TRUE]
  BY <1>4, <1>6 DEF PlacedStep
<1>8. RowOf(Q, id) = RowStep(W, id, clears, x, p)
  BY <1>2, <1>7 DEF RowOf
<1> QED
  BY <1>3, <1>8 DEF Q, x

\* Placements of children of id, which no other node has.
LEMMA PlacesLead ==
  ASSUME NEW W, NEW id, NEW clears \in BOOLEAN, NEW P, SoundPage(P), id \in DOMAIN P,
         KidsOf(P, id) \subseteq KidsOf(W, id),
         \A y \in KidsOf(W, id) : \A n \in DOMAIN P \ {id} : y \notin KidsOf(P, n),
         NEW list \in Seq(PagePatches), PlacesIn(list, id, W[id].kids),
         NEW Q, LeadsTo(P, list, clears, Q)
  PROVE  PlacedPage(P, Q, W, id) /\ RowOf(Q, id) = RowAfter(W, id, clears, RowOf(P, id), list)
PROOF
<1> DEFINE x == RowOf(P, id)
           wanted == KidsOf(W, id)
           Good(l) == \A R : LeadsTo(P, l, clears, R) =>
                        PlacedPage(P, R, W, id) /\ RowOf(R, id) = RowAfter(W, id, clears, x, l)
           T == {l \in Seq(PagePatches) : PlacesIn(l, id, W[id].kids) => Good(l)}
<1>1. x \in RowStates
  BY RowOfIs
<1>2. <<>> \in T
  <2> DEFINE none == <<>>
  <2>1. none \in Seq(PagePatches) /\ \A R : LeadsTo(P, none, clears, R) => R = P
    BY LeadsNowhere
  <2>2. PlacedPage(P, P, W, id)
    BY DEF PlacedPage
  <2>3. RowAfter(W, id, clears, x, none) = x
    BY <1>1, RowOfNothing
  <2> HIDE DEF none
  <2> QED
    BY <2>1, <2>2, <2>3 DEF none
<1>3. \A l \in Seq(PagePatches) : \A p \in PagePatches : l \in T => Append(l, p) \in T
  <2> HIDE DEF Good
  <2> SUFFICES ASSUME NEW l \in Seq(PagePatches), NEW p \in PagePatches, l \in T,
                      PlacesIn(Append(l, p), id, W[id].kids)
               PROVE  Good(Append(l, p))
    OBVIOUS
  <2>1. ToSet(Append(l, p)) = ToSet(l) \cup {p}
    BY SetOfAppend
  <2>2. p.kind = "place" /\ p.target = id /\ p.child \in wanted
    BY <2>1 DEF PlacesIn, KidsOf
  <2>3. Good(l)
    <3>1. PlacesIn(l, id, W[id].kids)
      BY <2>1 DEF PlacesIn
    <3> QED
      BY <3>1
  <2> SUFFICES ASSUME NEW S, LeadsTo(P, Append(l, p), clears, S)
               PROVE  PlacedPage(P, S, W, id) /\ RowOf(S, id) = RowAfter(W, id, clears, x, Append(l, p))
    BY DEF Good
  <2>4. PICK R : LeadsTo(P, l, clears, R) /\ Admits(R, p) /\ S = PatchedPage(R, p, clears)
    BY LeadsAppend
  <2>5. PlacedPage(P, R, W, id) /\ RowOf(R, id) = RowAfter(W, id, clears, x, l)
    BY <2>3, <2>4 DEF Good
  <2> HIDE DEF x, T, wanted
  <2>6. /\ SoundPage(R) /\ id \in DOMAIN R /\ KidsOf(R, id) \subseteq KidsOf(W, id)
        /\ \A n \in DOMAIN R \ {id} : p.child \notin KidsOf(R, n)
    BY <2>2, <2>5 DEF PlacedPage, KidsOf, wanted
  <2>7. PlacedPage(R, S, W, id) /\ RowOf(S, id) = RowStep(W, id, clears, RowOf(R, id), p)
    <3>1. p.child \in KidsOf(W, id) /\ p.kind = "place" /\ p.target = id /\ Admits(R, p)
      BY <2>2, <2>4 DEF wanted
    <3>2. PlacedPage(R, PatchedPage(R, p, clears), W, id)
          /\ RowOf(PatchedPage(R, p, clears), id) = RowStep(W, id, clears, RowOf(R, id), p)
      BY <2>6, <3>1, PlaceOne
    <3> QED
      BY <2>4, <3>2
  <2>8. PlacedPage(P, S, W, id)
    BY <2>5, <2>7 DEF PlacedPage
  <2>9. RowAfter(W, id, clears, x, Append(l, p)) = RowStep(W, id, clears, RowAfter(W, id, clears, x, l), p)
    BY <1>1, RowAppend
  <2> QED
    BY <2>5, <2>7, <2>8, <2>9
<1> HIDE DEF T
<1>4. list \in T
  BY <1>2, <1>3, SequencesBuilt
<1> QED
  BY <1>4 DEF T

\* They can be taken if id has all its children, and is not below them.
LEMMA PlacesGo ==
  ASSUME NEW W, NEW id, NEW clears \in BOOLEAN, NEW P, SoundPage(P), id \in DOMAIN P,
         KidsOf(P, id) = KidsOf(W, id),
         \A y \in KidsOf(W, id) : \A n \in DOMAIN P \ {id} : y \notin KidsOf(P, n),
         NEW Z, KidsOf(W, id) \subseteq Z, id \notin Z, \A n \in Z : KidsOf(P, n) \subseteq Z,
         NEW list \in Seq(PagePatches), PlacesIn(list, id, W[id].kids)
  PROVE  \E Q : LeadsTo(P, list, clears, Q)
PROOF
<1> DEFINE wanted == KidsOf(W, id)
           T == {l \in Seq(PagePatches) : PlacesIn(l, id, W[id].kids) => \E R : LeadsTo(P, l, clears, R)}
<1>1. <<>> \in T
  <2> DEFINE none == <<>>
  <2>1. none \in Seq(PagePatches) /\ LeadsTo(P, none, clears, P)
    BY LeadsNowhere
  <2> HIDE DEF none
  <2> QED
    BY <2>1 DEF none
<1>2. \A l \in Seq(PagePatches) : \A p \in PagePatches : l \in T => Append(l, p) \in T
  <2> SUFFICES ASSUME NEW l \in Seq(PagePatches), NEW p \in PagePatches, l \in T,
                      PlacesIn(Append(l, p), id, W[id].kids)
               PROVE  \E R : LeadsTo(P, Append(l, p), clears, R)
    OBVIOUS
  <2>1. ToSet(Append(l, p)) = ToSet(l) \cup {p}
    BY SetOfAppend
  <2>2. /\ p.kind = "place" /\ p.target = id /\ p.child \in wanted /\ p.before \in wanted \cup {NoNode}
        /\ PlacesIn(l, id, W[id].kids)
    BY <2>1 DEF PlacesIn, KidsOf
  <2>3. PICK R : LeadsTo(P, l, clears, R)
    BY <2>2
  <2>4. PlacedPage(P, R, W, id)
    <3>1. KidsOf(P, id) \subseteq KidsOf(W, id) /\ SoundPage(P) /\ id \in DOMAIN P
          /\ \A y \in KidsOf(W, id) : \A n \in DOMAIN P \ {id} : y \notin KidsOf(P, n)
      OBVIOUS
    <3> HIDE DEF T, wanted
    <3> QED
      BY <2>2, <2>3, <3>1, PlacesLead
  <2>5. /\ SoundPage(R) /\ DOMAIN R = DOMAIN P /\ KidsOf(R, id) = wanted
        /\ \A n \in DOMAIN R \ {id} : KidsOf(R, n) = KidsOf(P, n)
    BY <2>4 DEF PlacedPage, KidsOf
  <2>6. p.child \in DOMAIN R \ {HostRoot}
    <3>1. KidsOf(R, id) \subseteq PageIds \cap DOMAIN R
      BY <2>5, SoundRow
    <3>2. HostRoot \notin PageIds
      BY PageAssumption
    <3> QED
      BY <2>2, <2>5, <3>1, <3>2
  <2>7. ClosedIn(R, Z) /\ p.child \in Z /\ id \notin Z
    BY <2>2, <2>5 DEF ClosedIn
  <2>8. IsFiniteSet(DOMAIN R)
    BY <2>5, PageIsFinite
  <2>9. Admits(R, p)
    <3> HIDE DEF T, wanted
    <3>1. p.target \in DOMAIN R /\ p.before \in KidsOf(R, p.target) \cup {NoNode} /\ p.target \notin Z
      BY <2>2, <2>5, <2>7
    <3> QED
      BY <2>2, <2>6, <2>7, <2>8, <3>1, MayHang
  <2> DEFINE S == PatchedPage(R, p, clears)
  <2> HIDE DEF S
  <2>10. LeadsTo(P, Append(l, p), clears, S) <=>
           \E M : LeadsTo(P, l, clears, M) /\ Admits(M, p) /\ S = PatchedPage(M, p, clears)
    BY LeadsAppend
  <2> QED
    BY <2>3, <2>9, <2>10 DEF S
<1> HIDE DEF T
<1>3. list \in T
  BY <1>1, <1>2, SequencesBuilt
<1> QED
  BY <1>3 DEF T

\* The batch of a list is applied as a whole.
Passes(P, list, clears) == \E Q : LeadsTo(P, list, clears, Q)

\* Every text and every removal of a gone child can be taken.
LEMMA TextLeads ==
  ASSUME NEW O, NEW W, NEW g, NEW h, TwoTrees(O, W, g, h), NEW K,
         NEW clears, NEW exact, NEW old, NEW new, Reconciling(O, W, K, clears, exact, old, new),
         NEW id \in K, NEW P, ReadyPage(P, O, id, clears, exact, old)
  PROVE  /\ TextPart(O, W, id) \in Seq(PagePatches)
         /\ Passes(P, TextPart(O, W, id), clears)
         /\ \A R : LeadsTo(P, TextPart(O, W, id), clears, R) =>
              MidPage(P, R, O, W, id, KidsOf(O, id), <<>>, clears, exact, old, new)
PROOF
<1>1. id \in DOMAIN O \cap DOMAIN W /\ clears \in BOOLEAN /\ exact \in BOOLEAN
  BY DEF Reconciling, KeepsNodes
<1>2. SoundPage(P) /\ id \in DOMAIN P
  <2>1. id \in Under(O, id)
    BY <1>1, BelowFacts DEF TwoTrees
  <2> QED
    BY <2>1 DEF ReadyPage, LikeNode
<1> DEFINE list == TextPart(O, W, id)
<1>3. \/ O[id].text = W[id].text /\ list = <<>>
      \/ /\ O[id].text # W[id].text
         /\ \E p \in PagePatches : list = <<p>> /\ p.kind = "text" /\ p.target = id /\ p.text = W[id].text
  BY <1>1, TextPartIs
<1> HIDE DEF list
<1>4. CASE O[id].text = W[id].text /\ list = <<>>
  <2>1. <<>> \in Seq(PagePatches) /\ \A R : LeadsTo(P, <<>>, clears, R) <=> R = P
    BY <1>1, <1>2, LeadsNowhere
  <2>2. MidPage(P, P, O, W, id, KidsOf(O, id), <<>>, clears, exact, old, new)
    <3>1. P = P /\ O[id].text = W[id].text
      BY <1>4
    <3> QED
      BY <3>1, TextStep
  <2> QED
    BY <1>4, <2>1, <2>2 DEF list, Passes
<1>5. CASE /\ O[id].text # W[id].text
           /\ \E p \in PagePatches : list = <<p>> /\ p.kind = "text" /\ p.target = id /\ p.text = W[id].text
  <2>1. PICK p \in PagePatches : list = <<p>> /\ p.kind = "text" /\ p.target = id /\ p.text = W[id].text
    BY <1>5
  <2> DEFINE Q == PatchedPage(P, p, clears)
  <2>2. Admits(P, p) /\ WordedPage(P, Q, id, W[id].text, clears)
    <3>1. Admits(P, p) /\ WordedPage(P, PatchedPage(P, p, clears), p.target, p.text, clears)
      BY <1>1, <1>2, <2>1, Worded
    <3> QED
      BY <2>1, <3>1
  <2> HIDE DEF Q
  <2>3. \A R : LeadsTo(P, <<p>>, clears, R) <=> Admits(P, p) /\ R = PatchedPage(P, p, clears)
    BY <1>1, <1>2, LeadsOne
  <2>4. MidPage(P, Q, O, W, id, KidsOf(O, id), <<>>, clears, exact, old, new)
    <3>1. WordedPage(P, Q, id, W[id].text, clears) /\ O[id].text # W[id].text
      BY <1>5, <2>2
    <3> QED
      BY <3>1, TextStep
  <2>5. <<p>> \in Seq(PagePatches)
    OBVIOUS
  <2> QED
    BY <2>1, <2>2, <2>3, <2>4, <2>5 DEF Q, list, Passes
<1> QED
  BY <1>3, <1>4, <1>5 DEF list

\* The page R is on the way from P.
Midway(O, W, g, h, clears, exact, old, new, id, P, R, todo, s) ==
  /\ TwoTrees(O, W, g, h) /\ clears \in BOOLEAN /\ id \in DOMAIN O \cap DOMAIN W
  /\ ReadyPage(P, O, id, clears, exact, old)
  /\ MidPage(P, R, O, W, id, todo, s, clears, exact, old, new)

\* The removal of one child.
LEMMA RemoveLeads ==
  ASSUME NEW O, NEW W, NEW g, NEW h, NEW clears, NEW exact, NEW old, NEW new, NEW id,
         NEW P, NEW R, NEW todo, NEW s, Midway(O, W, g, h, clears, exact, old, new, id, P, R, todo, s),
         NEW k \in todo, k \notin KidsOf(W, id) \/ id \in new
  PROVE  /\ RemovePatch(k) \in Seq(PagePatches)
         /\ Passes(R, RemovePatch(k), clears)
         /\ \A Q : LeadsTo(R, RemovePatch(k), clears, Q) =>
              MidPage(P, Q, O, W, id, todo \ {k}, s, clears, exact, old, new)
PROOF
<1>0. /\ TwoTrees(O, W, g, h) /\ clears \in BOOLEAN /\ id \in DOMAIN O \cap DOMAIN W
      /\ ReadyPage(P, O, id, clears, exact, old)
      /\ MidPage(P, R, O, W, id, todo, s, clears, exact, old, new)
  BY DEF Midway
<1>1. SoundPage(R) /\ k \in KidsOf(O, id)
  BY <1>0 DEF MidPage
<1>2. MidKnown(R, W, id, todo, s, BelowAll(O, todo), BelowAll(W, ToSet(s)))
  BY <1>0, MidFacts
<1>3. /\ \A n \in DOMAIN R \ {id} : k \notin KidsOf(R, n)
      /\ k \in DOMAIN R
  BY <1>2 DEF MidKnown
<1>4. k \in PageIds /\ k \in DOMAIN R \ {HostRoot}
  BY <1>0, <1>1, <1>3, TreeRow DEF TwoTrees
<1>5. PICK p \in PagePatches : RemovePatch(k) = <<p>> /\ p.kind = "remove" /\ p.target = k
  BY <1>4, RemoveIsPatch
<1>6. Admits(R, p) /\ DroppedPage(R, PatchedPage(R, p, clears), id, k)
  <2>1. p.target \in DOMAIN R \ {HostRoot} /\ \A n \in DOMAIN R \ {id} : p.target \notin KidsOf(R, n)
    BY <1>3, <1>4, <1>5
  <2>2. Admits(R, p) /\ DroppedPage(R, PatchedPage(R, p, clears), id, p.target)
    BY <1>0, <1>1, <1>5, <2>1, Drops
  <2> QED
    BY <1>5, <2>2
<1>7. \A Q : LeadsTo(R, <<p>>, clears, Q) <=> Admits(R, p) /\ Q = PatchedPage(R, p, clears)
  BY <1>0, <1>1, LeadsOne
<1>8. \A Q : DroppedPage(R, Q, id, k) => MidPage(P, Q, O, W, id, todo \ {k}, s, clears, exact, old, new)
  BY <1>0, RemoveStep
<1>9. <<p>> \in Seq(PagePatches)
  OBVIOUS
<1> QED
  BY <1>5, <1>6, <1>7, <1>8, <1>9 DEF Passes

\* The removals of the children that are gone.
LEMMA GoneLeads ==
  ASSUME NEW O, NEW W, NEW g, NEW h, TwoTrees(O, W, g, h),
         NEW clears \in BOOLEAN, NEW exact, NEW old, NEW new, NEW id \in DOMAIN O \cap DOMAIN W,
         NEW P, ReadyPage(P, O, id, clears, exact, old), NEW R,
         MidPage(P, R, O, W, id, KidsOf(O, id), <<>>, clears, exact, old, new)
  PROVE  /\ Passes(R, GonePart(O, W, id), clears)
         /\ \A Q : LeadsTo(R, GonePart(O, W, id), clears, Q) =>
              MidPage(P, Q, O, W, id, KidsOf(O, id) \cap KidsOf(W, id), <<>>, clears, exact, old, new)
PROOF
<1> DEFINE X == KidsOf(O, id) \ KidsOf(W, id)
           gone == GoneKids(O, W, id)
           of == [k \in ToSet(gone) |-> RemovePatch(k)]
           Mid(t, S) == MidPage(P, S, O, W, id, KidsOf(O, id) \ ToSet(t), <<>>, clears, exact, old, new)
           M == {m \in Seq(X) \X SoundPages : Mid(m[1], m[2])}
<1>1. gone \in Seq(PageIds) /\ Distinct(gone) /\ ToSet(gone) = X
  BY GoneKidsFacts
<1>2. gone \in Seq(X)
  BY <1>1, SeqOverSet
<1>3. SoundPage(R) /\ GonePart(O, W, id) = EmittedBy(gone, of)
  BY DEF MidPage, GonePart
<1>4. \A k \in X : of[k] = RemovePatch(k) /\ k \in KidsOf(O, id) /\ k \notin KidsOf(W, id)
  BY <1>1
<1> HIDE DEF gone, of, X, Mid
<1>5. \A t, S : <<t, S>> \in M <=> t \in Seq(X) /\ SoundPage(S) /\ Mid(t, S)
  BY SoundIsTyped
<1> HIDE DEF M
<1>6. ASSUME NEW t \in Seq(X), NEW S, NEW k \in X \ ToSet(t), <<t, S>> \in M
      PROVE  /\ of[k] \in Seq(PagePatches) /\ \E Q : LeadsTo(S, of[k], clears, Q)
             /\ \A Q : LeadsTo(S, of[k], clears, Q) => <<Append(t, k), Q>> \in M
  <2> DEFINE todo == KidsOf(O, id) \ ToSet(t)
             u == Append(t, k)
             none == <<>>
  <2>1. MidPage(P, S, O, W, id, todo, none, clears, exact, old, new) /\ k \in todo /\ k \notin KidsOf(W, id)
        /\ SoundPage(S)
    BY <1>4, <1>5, <1>6 DEF Mid
  <2>2. ToSet(u) = ToSet(t) \cup {k} /\ u \in Seq(X)
    BY SetOfAppend
  <2>3. KidsOf(O, id) \ ToSet(u) = todo \ {k}
    BY <2>2
  <2> HIDE DEF todo, u, none
  <2>4. /\ RemovePatch(k) \in Seq(PagePatches) /\ Passes(S, RemovePatch(k), clears)
        /\ \A Q : LeadsTo(S, RemovePatch(k), clears, Q) =>
              MidPage(P, Q, O, W, id, todo \ {k}, none, clears, exact, old, new)
    <3>1. /\ Midway(O, W, g, h, clears, exact, old, new, id, P, S, todo, none)
          /\ k \in todo /\ (k \notin KidsOf(W, id) \/ id \in new)
      BY <2>1 DEF Midway
    <3> QED
      BY ONLY <3>1, RemoveLeads
  <2>5. of[k] = RemovePatch(k)
    BY <1>4
  <2>6. \A Q : LeadsTo(S, RemovePatch(k), clears, Q) => <<u, Q>> \in M
    <3> SUFFICES ASSUME NEW Q, LeadsTo(S, RemovePatch(k), clears, Q) PROVE <<u, Q>> \in M
      OBVIOUS
    <3>1. MidPage(P, Q, O, W, id, KidsOf(O, id) \ ToSet(u), none, clears, exact, old, new)
      BY <2>3, <2>4
    <3>2. SoundPage(Q) /\ Mid(u, Q)
      BY <3>1 DEF MidPage, Mid, none
    <3> QED
      BY <1>5, <2>2, <3>2
  <2> QED
    BY <2>4, <2>5, <2>6 DEF u, Passes
<1>7. <<<<>>, R>> \in M
  <2> DEFINE none == <<>>
  <2>1. none \in Seq(X) /\ ToSet(none) = {}
    BY DEF ToSet
  <2>2. KidsOf(O, id) \ ToSet(none) = KidsOf(O, id)
    BY <2>1
  <2>3. Mid(none, R)
    BY <2>2 DEF Mid
  <2> HIDE DEF none
  <2>4. <<none, R>> \in M
    BY <1>3, <1>5, <2>1, <2>3
  <2> QED
    BY <2>4 DEF none
<1>8. /\ \A k \in X : of[k] \in Seq(PagePatches)
      /\ \A t \in Seq(X) : \A S, Q : \A k \in X \ ToSet(t) :
           <<t, S>> \in M /\ SoundPage(S) /\ LeadsTo(S, of[k], clears, Q) => <<Append(t, k), Q>> \in M
      /\ \A t \in Seq(X) : \A S : \A k \in X \ ToSet(t) :
           <<t, S>> \in M /\ SoundPage(S) => \E Q : LeadsTo(S, of[k], clears, Q)
  <2>1. \A k \in X : of[k] \in Seq(PagePatches)
    <3> SUFFICES ASSUME NEW k \in X PROVE of[k] \in Seq(PagePatches)
      OBVIOUS
    <3>1. k \in PageIds
      BY TreeRow DEF X, TwoTrees
    <3>2. \E p \in PagePatches : RemovePatch(k) = <<p>>
      BY <3>1, RemoveIsPatch
    <3>3. PICK p \in PagePatches : RemovePatch(k) = <<p>>
      BY <3>2
    <3>4. <<p>> \in Seq(PagePatches)
      OBVIOUS
    <3> QED
      BY <1>4, <3>3, <3>4
  <2> QED
    BY <1>6, <2>1
<1>9. /\ \E Q : LeadsTo(R, EmittedBy(gone, of), clears, Q)
      /\ \A Q : LeadsTo(R, EmittedBy(gone, of), clears, Q) => <<gone, Q>> \in M
  <2>1. \A Q : LeadsTo(R, EmittedBy(gone, of), clears, Q) => <<gone, Q>> \in M /\ SoundPage(Q)
    BY <1>1, <1>2, <1>3, <1>7, <1>8, ListLeads
  <2>2. \E Q : LeadsTo(R, EmittedBy(gone, of), clears, Q)
    <3>1. /\ \A k \in X : of[k] \in Seq(PagePatches)
          /\ clears \in BOOLEAN /\ SoundPage(R) /\ <<<<>>, R>> \in M
          /\ gone \in Seq(X) /\ Distinct(gone)
      BY <1>1, <1>2, <1>3, <1>7, <1>8
    <3>2. \A t \in Seq(X) : \A S, Q : \A k \in X \ ToSet(t) :
            <<t, S>> \in M /\ SoundPage(S) /\ LeadsTo(S, of[k], clears, Q) => <<Append(t, k), Q>> \in M
      BY <1>8
    <3>3. \A t \in Seq(X) : \A S : \A k \in X \ ToSet(t) :
            <<t, S>> \in M /\ SoundPage(S) => \E Q : LeadsTo(S, of[k], clears, Q)
      BY <1>8
    <3> QED
      BY ONLY <3>1, <3>2, <3>3, ListGoes
  <2> QED
    BY <2>1, <2>2
<1>10. KidsOf(O, id) \ ToSet(gone) = KidsOf(O, id) \cap KidsOf(W, id)
  BY <1>1 DEF X
<1>11. \A Q : <<gone, Q>> \in M =>
         MidPage(P, Q, O, W, id, KidsOf(O, id) \cap KidsOf(W, id), <<>>, clears, exact, old, new)
  BY <1>5, <1>10 DEF Mid
<1> QED
  BY <1>3, <1>9, <1>11 DEF Passes

\* What begins a change: the text and the removals.
HeadPart(O, W, id) == TextPart(O, W, id) \o GonePart(O, W, id)

\* The text and the removals can always be taken.
LEMMA HeadLeads ==
  ASSUME NEW O, NEW W, NEW g, NEW h, TwoTrees(O, W, g, h), NEW K,
         NEW clears, NEW exact, NEW old, NEW new, Reconciling(O, W, K, clears, exact, old, new),
         NEW id \in K, NEW P, ReadyPage(P, O, id, clears, exact, old)
  PROVE  /\ HeadPart(O, W, id) \in Seq(PagePatches)
         /\ Passes(P, HeadPart(O, W, id), clears)
         /\ \A R : LeadsTo(P, HeadPart(O, W, id), clears, R) =>
              MidPage(P, R, O, W, id, KidsOf(O, id) \cap KidsOf(W, id), <<>>, clears, exact, old, new)
PROOF
<1> DEFINE a == TextPart(O, W, id)
           b == GonePart(O, W, id)
           Texted(R) == MidPage(P, R, O, W, id, KidsOf(O, id), <<>>, clears, exact, old, new)
           Gone(R) == MidPage(P, R, O, W, id, KidsOf(O, id) \cap KidsOf(W, id), <<>>, clears, exact, old, new)
<1>1. id \in DOMAIN O \cap DOMAIN W /\ clears \in BOOLEAN /\ exact \in BOOLEAN
  BY DEF Reconciling, KeepsNodes
<1>2. /\ a \in Seq(PagePatches) /\ Passes(P, a, clears)
      /\ \A R : LeadsTo(P, a, clears, R) => Texted(R)
  BY TextLeads
<1>3. b \in Seq(PagePatches)
  BY <1>1, GonePartFacts
<1>4. \A R : Texted(R) => Passes(R, b, clears) /\ \A Q : LeadsTo(R, b, clears, Q) => Gone(Q)
  BY <1>1, GoneLeads
<1>5. SoundPage(P)
  BY DEF ReadyPage
<1> HIDE DEF a, b, Texted, Gone
<1>6. a \o b \in Seq(PagePatches)
      /\ \A Q : LeadsTo(P, a \o b, clears, Q) <=> \E R : LeadsTo(P, a, clears, R) /\ LeadsTo(R, b, clears, Q)
  BY <1>1, <1>2, <1>3, <1>5, LeadsConcat
<1>7. \E R : LeadsTo(P, a, clears, R)
  BY <1>2 DEF Passes
<1>8. PICK R : LeadsTo(P, a, clears, R)
  BY <1>7
<1>9. \E Q : LeadsTo(R, b, clears, Q)
  BY <1>2, <1>4, <1>8 DEF Passes
<1>10. Passes(P, a \o b, clears)
  BY <1>6, <1>8, <1>9 DEF Passes
<1>11. \A Q : LeadsTo(P, a \o b, clears, Q) => Gone(Q)
  BY <1>2, <1>4, <1>6
<1> QED
  BY <1>6, <1>10, <1>11 DEF HeadPart, a, b, Gone

\* What ends it: the order of the children.
LEMMA OrderLeads ==
  ASSUME NEW O, NEW W, NEW g, NEW h, TwoTrees(O, W, g, h),
         NEW clears \in BOOLEAN, NEW exact \in BOOLEAN, NEW old, NEW new, NEW id \in DOMAIN O \cap DOMAIN W,
         NEW P, ReadyPage(P, O, id, clears, exact, old), NEW R,
         MidPage(P, R, O, W, id, {}, W[id].kids, clears, exact, old, new)
  PROVE  /\ OrderPart(O, W, id) \in Seq(PagePatches)
         /\ exact => Passes(R, OrderPart(O, W, id), clears)
         /\ \A Q : LeadsTo(R, OrderPart(O, W, id), clears, Q) =>
              DonePage(P, Q, O, W, id, clears, exact, new)
PROOF
<1> DEFINE list == OrderPart(O, W, id)
           s == W[id].kids
           todo == {}
           wanted == KidsOf(W, id)
           Made == BelowAll(W, ToSet(s))
           order == CurrentOrder(O, W, id)
<1>1. PageTree(W, h) /\ PageTree(O, g) /\ id \in DOMAIN W /\ id \in DOMAIN O
  BY DEF TwoTrees
<1>2. s \in Seq(PageIds) /\ Distinct(s) /\ wanted = ToSet(s) /\ O[id].kids \in Seq(PageIds)
  BY <1>1, TreeRow
<1>3. PlacementsDone(W, id, clears, order, s, list)
  BY OrderPartFacts
<1>4. list \in Seq(PagePatches) /\ PlacesIn(list, id, s)
      /\ RowAfter(W, id, clears, [kids |-> order, ok |-> TRUE], list) = [kids |-> s, ok |-> TRUE]
  BY <1>3 DEF PlacementsDone
<1>5. MidPage(P, R, O, W, id, todo, s, clears, exact, old, new)
  OBVIOUS
<1> HIDE DEF list, todo, Made, order
<1>6. MidKnown(R, W, id, todo, s, BelowAll(O, todo), Made)
  BY <1>5, MidFacts DEF Made
<1>7. /\ ToSet(s) \subseteq Made /\ id \notin Made /\ id \in DOMAIN R
      /\ \A y \in wanted : \A n \in DOMAIN R \ {id} : y \notin KidsOf(R, n)
      /\ \A n \in Made : KidsOf(R, n) \subseteq Made
  <2>1. wanted \subseteq todo \cup ToSet(s)
    BY <1>2
  <2> QED
    BY <1>6, <2>1 DEF MidKnown
<1>8. /\ SoundPage(R) /\ KidsOf(R, id) \subseteq wanted
      /\ exact => wanted \subseteq KidsOf(R, id)
      /\ exact /\ id \notin new =>
           Among(R[id].kids, wanted) = Among(O[id].kids, wanted) \o Among(s, wanted \ KidsOf(O, id))
  BY <1>2, <1>5 DEF MidPage, MidRow, todo
<1>9. exact /\ id \notin new => R[id].kids = order
  <2> SUFFICES ASSUME exact, id \notin new PROVE R[id].kids = order
    OBVIOUS
  <2>1. R[id].kids \in Seq(PageIds) /\ ToSet(R[id].kids) \subseteq wanted
    BY <1>7, <1>8, SoundRow
  <2>2. Among(R[id].kids, wanted) = R[id].kids
    <3> DEFINE r == R[id].kids
    <3> HIDE DEF r, wanted
    <3>1. r \in Seq(PageIds) /\ ToSet(r) \subseteq wanted
      BY <2>1 DEF r
    <3>2. Among(r, wanted) = r
      BY <3>1, AmongAll
    <3> QED
      BY <3>2 DEF r
  <2> QED
    BY <1>8, <2>2 DEF CurrentOrder, order
<1>10. ASSUME NEW Q, LeadsTo(R, list, clears, Q) PROVE DonePage(P, Q, O, W, id, clears, exact, new)
  <2>1. PlacedPage(R, Q, W, id) /\ RowOf(Q, id) = RowAfter(W, id, clears, RowOf(R, id), list)
    <3>1. /\ clears \in BOOLEAN /\ SoundPage(R) /\ id \in DOMAIN R
          /\ KidsOf(R, id) \subseteq KidsOf(W, id)
          /\ \A y \in KidsOf(W, id) : \A n \in DOMAIN R \ {id} : y \notin KidsOf(R, n)
          /\ list \in Seq(PagePatches) /\ PlacesIn(list, id, W[id].kids)
          /\ LeadsTo(R, list, clears, Q)
      BY <1>4, <1>7, <1>8, <1>10
    <3>2. PlacedPage(R, Q, W, id)
      BY ONLY <3>1, PlacesLead
    <3>3. RowOf(Q, id) = RowAfter(W, id, clears, RowOf(R, id), list)
      BY ONLY <3>1, PlacesLead
    <3> QED
      BY <3>2, <3>3
  <2>2. exact /\ id \notin new => Q[id].kids = s
    <3> SUFFICES ASSUME exact, id \notin new PROVE Q[id].kids = s
      OBVIOUS
    <3>1. RowOf(Q, id) = [kids |-> s, ok |-> TRUE]
      BY <1>4, <1>9, <2>1 DEF RowOf
    <3>2. SoundPage(Q) /\ id \in DOMAIN Q
      BY <1>7, <2>1 DEF PlacedPage
    <3>3. RowOf(Q, id).kids = Q[id].kids
      BY <3>2, RowOfIs
    <3>4. [kids |-> s, ok |-> TRUE].kids = s
      BY <1>2, RowStateIs
    <3> QED
      BY <3>1, <3>3, <3>4
  <2>3. /\ SoundPage(Q) /\ DOMAIN Q = DOMAIN R /\ \A n \in DOMAIN R \ {id} : Q[n] = R[n]
        /\ Q[id].tag = R[id].tag /\ Q[id].text = R[id].text
        /\ KidsOf(R, id) \subseteq KidsOf(Q, id) /\ KidsOf(Q, id) \subseteq KidsOf(W, id)
    BY <2>1 DEF PlacedPage
  <2>4. MidPage(P, R, O, W, id, {}, W[id].kids, clears, exact, old, new)
    OBVIOUS
  <2> QED
    BY <2>2, <2>3, <2>4, OrderStep
<1>11. exact => Passes(R, list, clears)
  <2> SUFFICES ASSUME exact PROVE \E Q : LeadsTo(R, list, clears, Q)
    BY DEF Passes
  <2>1. KidsOf(R, id) = KidsOf(W, id) /\ KidsOf(W, id) \subseteq Made
    BY <1>2, <1>7, <1>8
  <2> QED
    BY <1>4, <1>7, <1>8, <2>1, PlacesGo
<1> QED
  BY <1>4, <1>10, <1>11 DEF list
(* What a change leads to. *)

\* What is emitted between the trees O and W, of which K is kept.
Setting(O, W, g, h, K, clears, exact, old, new, created, changes) ==
  /\ TwoTrees(O, W, g, h) /\ Reconciling(O, W, K, clears, exact, old, new)
  /\ CreatedBy(W, created) /\ HandledBy(O, W, created, changes)

\* The change of id leads from a page with what is below it in O to one with what is
\* below it in W.
Held(O, W, id, clears, exact, old, new, changes) ==
  \A P, Q : ReadyPage(P, O, id, clears, exact, old) /\ LeadsTo(P, changes[id], clears, Q)
              => DonePage(P, Q, O, W, id, clears, exact, new)

\* The children that wait, when those of t have been handled.
KidsWaiting(O, W, id, t) == (KidsOf(O, id) \cap KidsOf(W, id)) \ ToSet(t)

\* What is emitted for a node that is kept, in three parts.
LEMMA SettingFacts ==
  ASSUME NEW O, NEW W, NEW g, NEW h, NEW K, NEW clears, NEW exact, NEW old, NEW new,
         NEW created, NEW changes, Setting(O, W, g, h, K, clears, exact, old, new, created, changes),
         NEW id \in K
  PROVE  /\ id \in DOMAIN O \cap DOMAIN W /\ clears \in BOOLEAN /\ exact \in BOOLEAN
         /\ KidsOf(W, id) \subseteq (DOMAIN W \ {HostRoot}) \cap PageIds
         /\ \A k \in KidsOf(W, id) :
              created[k] \in Seq(PagePatches) /\ Makes(W, k, created, clears)
         /\ \A k \in KidsOf(O, id) \cap KidsOf(W, id) :
              /\ changes[k] \in Seq(PagePatches)
              /\ O[k].tag = W[k].tag => k \in K
              /\ O[k].tag # W[k].tag => id \in new
         /\ changes[id] = (HeadPart(O, W, id) \o KidsPart(O, W, id, created, changes)) \o OrderPart(O, W, id)
PROOF
<1>1. PageTree(O, g) /\ PageTree(W, h) /\ CreatedBy(W, created) /\ HandledBy(O, W, created, changes)
      /\ KeepsNodes(O, W, K)
  BY DEF Setting, TwoTrees, Reconciling
<1>2. id \in DOMAIN O \cap DOMAIN W /\ clears \in BOOLEAN /\ exact \in BOOLEAN
      /\ (id \notin new => KidsOf(O, id) \cap KidsOf(W, id) \subseteq K)
  BY DEF Setting, Reconciling, KeepsNodes
<1>3. KidsOf(W, id) \subseteq (DOMAIN W \ {HostRoot}) \cap PageIds
      /\ KidsOf(O, id) \subseteq DOMAIN O
  BY <1>1, <1>2, TreeRow
<1>4. \A k \in KidsOf(W, id) : created[k] \in Seq(PagePatches) /\ Makes(W, k, created, clears)
  BY <1>1, <1>2, <1>3, CreationMakes DEF CreatedBy
<1>5. \A k \in KidsOf(O, id) \cap KidsOf(W, id) :
        /\ changes[k] \in Seq(PagePatches)
        /\ O[k].tag = W[k].tag => k \in K
        /\ O[k].tag # W[k].tag => id \in new
  <2>1. \A k \in KidsOf(O, id) \cap KidsOf(W, id) : changes[k] \in Seq(PagePatches)
    BY <1>1, <1>3 DEF HandledBy
  <2>2. \A k \in KidsOf(O, id) \cap KidsOf(W, id) : O[k].tag = W[k].tag <=> k \in K
    BY <1>1 DEF KeepsNodes
  <2> QED
    BY <1>2, <2>1, <2>2
<1>6. changes[id] = Emission(O, W, id, created, changes)
  BY <1>1, <1>2 DEF HandledBy
<1> QED
  BY <1>2, <1>3, <1>4, <1>5, <1>6 DEF Emission, HeadPart

\* One child.
LEMMA KidLeads ==
  ASSUME NEW O, NEW W, NEW g, NEW h, NEW K, NEW clears, NEW exact, NEW old, NEW new,
         NEW created, NEW changes, Setting(O, W, g, h, K, clears, exact, old, new, created, changes),
         NEW id \in K, NEW P, ReadyPage(P, O, id, clears, exact, old),
         NEW t \in Seq(KidsOf(W, id)), NEW k \in KidsOf(W, id) \ ToSet(t), NEW R,
         MidPage(P, R, O, W, id, KidsWaiting(O, W, id, t), t, clears, exact, old, new),
         k \in K => Held(O, W, k, clears, exact, old, new, changes),
         NEW Q, LeadsTo(R, PartChanges(O, W, id, k, created, changes), clears, Q)
  PROVE  MidPage(P, Q, O, W, id, KidsWaiting(O, W, id, Append(t, k)), Append(t, k), clears, exact, old, new)
PROOF
<1> DEFINE todo == KidsWaiting(O, W, id, t)
           u == Append(t, k)
           add == created[k] \o PlacePatch(id, k, NoNode)
<1>1. /\ id \in DOMAIN O \cap DOMAIN W /\ clears \in BOOLEAN /\ exact \in BOOLEAN
      /\ created[k] \in Seq(PagePatches) /\ Makes(W, k, created, clears)
      /\ k \in KidsOf(O, id) =>
           /\ changes[k] \in Seq(PagePatches)
           /\ O[k].tag = W[k].tag => k \in K
           /\ O[k].tag # W[k].tag => id \in new
  BY SettingFacts
<1>2. TwoTrees(O, W, g, h) /\ PageTree(W, h)
  BY DEF Setting, TwoTrees
<1>3. KidsWaiting(O, W, id, u) = todo \ {k} /\ (k \in KidsOf(O, id) <=> k \in todo)
  <2>1. ToSet(u) = ToSet(t) \cup {k}
    BY SetOfAppend
  <2> QED
    BY <2>1 DEF KidsWaiting
<1>4. /\ MidPage(P, R, O, W, id, todo, t, clears, exact, old, new) /\ SoundPage(R)
      /\ id \in DOMAIN R
  BY DEF MidPage, MidRow
<1> HIDE DEF todo, u, add
<1>5. /\ add \in Seq(PagePatches)
      /\ \A S, S1 : SoundPage(S) /\ id \in DOMAIN S /\ LeadsTo(S, add, clears, S1) => JoinedPage(S, S1, W, id, k, clears)
  <2>1. add \in Seq(PagePatches)
    <3>1. \E p, q \in PagePatches : PartEnds(id, k, created, p, q)
      BY <1>1, <1>2, PartIs
    <3>2. PICK p \in PagePatches : add = Append(created[k], p)
      BY <3>1 DEF PartEnds, add
    <3> QED
      BY <1>1, <3>2
  <2>2. ASSUME NEW S, NEW S1, SoundPage(S), id \in DOMAIN S, LeadsTo(S, add, clears, S1)
        PROVE  JoinedPage(S, S1, W, id, k, clears)
    <3>1. \A X : LeadsTo(S, created[k] \o PlacePatch(id, k, NoNode), clears, X) => JoinedPage(S, X, W, id, k, clears)
      BY <1>1, <1>2, <2>2, ChildCreated
    <3> QED
      BY <2>2, <3>1 DEF add
  <2> QED
    BY <2>1, <2>2
<1>6. CASE k \notin KidsOf(O, id)
  <2>1. JoinedPage(R, Q, W, id, k, clears)
    <3>1. LeadsTo(R, add, clears, Q)
      BY <1>6 DEF PartChanges, add
    <3> QED
      BY <1>4, <1>5, <3>1
  <2>2. MidPage(P, Q, O, W, id, todo, Append(t, k), clears, exact, old, new)
    BY <1>1, <1>2, <1>4, <1>6, <2>1, JoinStep
  <2>3. todo = todo \ {k}
    BY <1>3, <1>6
  <2> QED
    BY <1>3, <2>2, <2>3 DEF u
<1>7. CASE k \in KidsOf(O, id) /\ O[k].tag # W[k].tag
  <2>1. k \in todo /\ id \in new
    BY <1>1, <1>3, <1>7
  <2>2. LeadsTo(R, RemovePatch(k) \o add, clears, Q)
    BY <1>7 DEF PartChanges, add
  <2>3. /\ RemovePatch(k) \in Seq(PagePatches)
        /\ \A S : LeadsTo(R, RemovePatch(k), clears, S) =>
              MidPage(P, S, O, W, id, todo \ {k}, t, clears, exact, old, new)
    <3>1. /\ Midway(O, W, g, h, clears, exact, old, new, id, P, R, todo, t)
          /\ k \in todo /\ (k \notin KidsOf(W, id) \/ id \in new)
      BY <1>1, <1>2, <1>4, <2>1 DEF Midway
    <3> QED
      BY ONLY <3>1, RemoveLeads
  <2>4. PICK S : LeadsTo(R, RemovePatch(k), clears, S) /\ LeadsTo(S, add, clears, Q)
    BY <1>1, <1>4, <1>5, <2>2, <2>3, LeadsConcat
  <2>5. MidPage(P, S, O, W, id, todo \ {k}, t, clears, exact, old, new)
    BY <2>3, <2>4
  <2>6. JoinedPage(S, Q, W, id, k, clears)
    <3>1. SoundPage(S) /\ id \in DOMAIN S
      BY <2>5 DEF MidPage, MidRow
    <3> QED
      BY <1>5, <2>4, <3>1
  <2>7. MidPage(P, Q, O, W, id, todo \ {k}, Append(t, k), clears, exact, old, new)
    BY <1>1, <1>2, <2>1, <2>5, <2>6, JoinStep
  <2> QED
    BY <1>3, <2>7 DEF u
<1>8. CASE k \in KidsOf(O, id) /\ O[k].tag = W[k].tag
  <2>1. k \in K /\ k \in todo /\ k \in KidsOf(W, id)
    BY <1>1, <1>3, <1>8
  <2>2. LeadsTo(R, changes[k], clears, Q)
    BY <1>8 DEF PartChanges
  <2>3. ReadyPage(R, O, k, clears, exact, old)
    BY <1>1, <1>2, <1>4, <2>1, MidReady
  <2>4. DonePage(R, Q, O, W, k, clears, exact, new)
    BY <2>1, <2>2, <2>3 DEF Held
  <2>5. MidPage(P, Q, O, W, id, todo \ {k}, Append(t, k), clears, exact, old, new)
    BY <1>1, <1>2, <1>4, <2>1, <2>4, KeepStep
  <2> QED
    BY <1>3, <2>5 DEF u
<1>9. MidPage(P, Q, O, W, id, KidsWaiting(O, W, id, u), u, clears, exact, old, new)
  BY <1>6, <1>7, <1>8 DEF u
<1> QED
  BY <1>9 DEF u

\* What the children of id emit.
KidsEmit(O, W, id, created, changes) ==
  [k \in KidsOf(W, id) |-> PartChanges(O, W, id, k, created, changes)]

\* The children of id before any has been handled, and after all have been.
KidsFramed(O, W, h, id, created, changes) ==
  /\ KidsPart(O, W, id, created, changes) = EmittedBy(W[id].kids, KidsEmit(O, W, id, created, changes))
  /\ KidsPart(O, W, id, created, changes) \in Seq(PagePatches)
  /\ \A k \in KidsOf(W, id) :
       /\ KidsEmit(O, W, id, created, changes)[k] = PartChanges(O, W, id, k, created, changes)
       /\ KidsEmit(O, W, id, created, changes)[k] \in Seq(PagePatches)
  /\ W[id].kids \in Seq(KidsOf(W, id)) /\ Distinct(W[id].kids)
  /\ KidsWaiting(O, W, id, <<>>) = KidsOf(O, id) \cap KidsOf(W, id)
  /\ KidsWaiting(O, W, id, W[id].kids) = {}
  /\ \A k \in KidsOf(W, id) : h[k] < h[id]

\* The children of a node and what they emit.
LEMMA KidsFrame ==
  ASSUME NEW O, NEW W, NEW g, NEW h, NEW K, NEW clears, NEW exact, NEW old, NEW new,
         NEW created, NEW changes, Setting(O, W, g, h, K, clears, exact, old, new, created, changes),
         NEW id \in K
  PROVE  KidsFramed(O, W, h, id, created, changes)
PROOF
<1>1. /\ id \in DOMAIN O \cap DOMAIN W
      /\ \A k \in KidsOf(W, id) : created[k] \in Seq(PagePatches)
      /\ \A k \in KidsOf(O, id) \cap KidsOf(W, id) : changes[k] \in Seq(PagePatches)
  BY SettingFacts
<1>2. TwoTrees(O, W, g, h) /\ PageTree(W, h)
  BY DEF Setting, TwoTrees
<1>3. /\ \A k \in KidsOf(W, id) : PartChanges(O, W, id, k, created, changes) \in Seq(PagePatches)
      /\ KidsPart(O, W, id, created, changes) \in Seq(PagePatches)
  BY <1>1, <1>2, KidsPartTyped
<1>4. /\ W[id].kids \in Seq(PageIds) /\ Distinct(W[id].kids) /\ KidsOf(W, id) = ToSet(W[id].kids)
      /\ \A k \in KidsOf(W, id) : h[k] < h[id]
  BY <1>1, <1>2, TreeRow
<1>5. W[id].kids \in Seq(KidsOf(W, id))
  BY <1>4, SeqOverSet
<1>6. KidsWaiting(O, W, id, <<>>) = KidsOf(O, id) \cap KidsOf(W, id)
  BY DEF KidsWaiting, ToSet
<1>7. KidsWaiting(O, W, id, W[id].kids) = {}
  BY DEF KidsWaiting, KidsOf
<1> QED
  BY <1>3, <1>4, <1>5, <1>6, <1>7 DEF KidsPart, KidsEmit, KidsFramed

\* All children, one after the other.
LEMMA KidsLead ==
  ASSUME NEW O, NEW W, NEW g, NEW h, NEW K, NEW clears, NEW exact, NEW old, NEW new,
         NEW created, NEW changes, Setting(O, W, g, h, K, clears, exact, old, new, created, changes),
         NEW id \in K, NEW P, ReadyPage(P, O, id, clears, exact, old), NEW R,
         MidPage(P, R, O, W, id, KidsWaiting(O, W, id, <<>>), <<>>, clears, exact, old, new),
         \A k \in KidsOf(W, id) \cap K : Held(O, W, k, clears, exact, old, new, changes),
         NEW Q, LeadsTo(R, KidsPart(O, W, id, created, changes), clears, Q)
  PROVE  MidPage(P, Q, O, W, id, {}, W[id].kids, clears, exact, old, new)
PROOF
<1> DEFINE X == KidsOf(W, id)
           of == KidsEmit(O, W, id, created, changes)
           s == W[id].kids
           Mid(t, S) == MidPage(P, S, O, W, id, KidsWaiting(O, W, id, t), t, clears, exact, old, new)
           M == {m \in Seq(X) \X SoundPages : Mid(m[1], m[2])}
<1>1. /\ KidsPart(O, W, id, created, changes) = EmittedBy(s, of)
      /\ \A k \in X : of[k] = PartChanges(O, W, id, k, created, changes) /\ of[k] \in Seq(PagePatches)
      /\ s \in Seq(X) /\ Distinct(s) /\ KidsWaiting(O, W, id, s) = {}
  <2>1. KidsFramed(O, W, h, id, created, changes)
    BY KidsFrame
  <2> QED
    BY <2>1 DEF KidsFramed
<1>2. clears \in BOOLEAN /\ SoundPage(R)
  BY SettingFacts DEF MidPage
<1>3. Mid(<<>>, R)
  OBVIOUS
<1> HIDE DEF of, X, Mid
<1>4. \A t, S : <<t, S>> \in M <=> t \in Seq(X) /\ SoundPage(S) /\ Mid(t, S)
  BY SoundIsTyped
<1> HIDE DEF M
<1>5. ASSUME NEW t \in Seq(X), NEW S, NEW S1, NEW k \in X \ ToSet(t), <<t, S>> \in M, SoundPage(S),
             LeadsTo(S, of[k], clears, S1)
      PROVE  <<Append(t, k), S1>> \in M
  <2>1. Mid(t, S)
    BY <1>4, <1>5
  <2>2. LeadsTo(S, PartChanges(O, W, id, k, created, changes), clears, S1)
    BY <1>1, <1>5
  <2>3. MidPage(P, S1, O, W, id, KidsWaiting(O, W, id, Append(t, k)), Append(t, k), clears, exact, old, new)
    <3>1. /\ MidPage(P, S, O, W, id, KidsWaiting(O, W, id, t), t, clears, exact, old, new)
          /\ t \in Seq(KidsOf(W, id)) /\ k \in KidsOf(W, id) \ ToSet(t)
          /\ (k \in K => Held(O, W, k, clears, exact, old, new, changes))
      BY <2>1 DEF Mid, X
    <3> QED
      BY <2>2, <3>1, KidLeads
  <2>4. Append(t, k) \in Seq(X) /\ SoundPage(S1)
    BY <2>3 DEF MidPage
  <2> QED
    BY <1>4, <2>3, <2>4 DEF Mid
<1>6. <<<<>>, R>> \in M
  <2> DEFINE none == <<>>
  <2>1. none \in Seq(X) /\ Mid(none, R)
    BY <1>3
  <2> HIDE DEF none
  <2>2. <<none, R>> \in M
    BY <1>2, <1>4, <2>1
  <2> QED
    BY <2>2 DEF none
<1>7. \A S : LeadsTo(R, EmittedBy(s, of), clears, S) => <<s, S>> \in M /\ SoundPage(S)
  <2>1. \A k \in X : of[k] \in Seq(PagePatches)
    BY <1>1
  <2>2. \A t \in Seq(X) : \A S, S1 : \A k \in X \ ToSet(t) :
           <<t, S>> \in M /\ SoundPage(S) /\ LeadsTo(S, of[k], clears, S1) => <<Append(t, k), S1>> \in M
    BY <1>5
  <2>3. s \in Seq(X) /\ Distinct(s)
    BY <1>1
  <2> HIDE DEF s
  <2> QED
    BY <1>2, <1>6, <2>1, <2>2, <2>3, ListLeads
<1>8. Mid(s, Q)
  BY <1>1, <1>4, <1>7
<1> QED
  BY <1>1, <1>8 DEF Mid

\* A change leads through three parts.
LEMMA ChangeLeads ==
  ASSUME NEW O, NEW W, NEW g, NEW h, NEW K, NEW clears, NEW exact, NEW old, NEW new,
         NEW created, NEW changes, Setting(O, W, g, h, K, clears, exact, old, new, created, changes),
         NEW id \in K, NEW P, SoundPage(P), NEW Q
  PROVE  LeadsTo(P, changes[id], clears, Q) <=>
           \E R, S : /\ LeadsTo(P, HeadPart(O, W, id), clears, R)
                     /\ LeadsTo(R, KidsPart(O, W, id, created, changes), clears, S)
                     /\ LeadsTo(S, OrderPart(O, W, id), clears, Q)
PROOF
<1> DEFINE a == HeadPart(O, W, id)
           b == KidsPart(O, W, id, created, changes)
           c == OrderPart(O, W, id)
<1>1. changes[id] = (a \o b) \o c /\ id \in DOMAIN O \cap DOMAIN W /\ clears \in BOOLEAN
  BY SettingFacts
<1>2. TwoTrees(O, W, g, h)
  BY DEF Setting
<1>3. a \in Seq(PagePatches)
  <2>1. TextPart(O, W, id) \in Seq(PagePatches)
    <3> DEFINE list == TextPart(O, W, id)
    <3>1. \/ O[id].text = W[id].text /\ list = <<>>
          \/ \E p \in PagePatches : list = <<p>>
      BY <1>1, <1>2, TextPartIs
    <3> HIDE DEF list
    <3>2. <<>> \in Seq(PagePatches) /\ \A p \in PagePatches : <<p>> \in Seq(PagePatches)
      OBVIOUS
    <3> QED
      BY <3>1, <3>2 DEF list
  <2>2. GonePart(O, W, id) \in Seq(PagePatches)
    BY <1>1, <1>2, GonePartFacts
  <2> QED
    BY <2>1, <2>2 DEF HeadPart
<1>4. b \in Seq(PagePatches)
  <2>1. KidsFramed(O, W, h, id, created, changes)
    BY KidsFrame
  <2> QED
    BY <2>1 DEF KidsFramed
<1>5. c \in Seq(PagePatches)
  <2>1. PlacementsDone(W, id, clears, CurrentOrder(O, W, id), W[id].kids, c)
    BY <1>1, <1>2, OrderPartFacts
  <2> QED
    BY <2>1 DEF PlacementsDone
<1> HIDE DEF a, b, c
<1>6. a \o b \in Seq(PagePatches)
  BY <1>3, <1>4
<1>7. LeadsTo(P, (a \o b) \o c, clears, Q) <=> \E S : LeadsTo(P, a \o b, clears, S) /\ LeadsTo(S, c, clears, Q)
  BY <1>1, <1>5, <1>6, LeadsConcat
<1>8. \A S : LeadsTo(P, a \o b, clears, S) <=> \E R : LeadsTo(P, a, clears, R) /\ LeadsTo(R, b, clears, S)
  BY <1>1, <1>3, <1>4, LeadsConcat
<1> QED
  BY <1>1, <1>7, <1>8 DEF a, b, c

\* The three parts make a change.
LEMMA ChangeMade ==
  ASSUME NEW O, NEW W, NEW g, NEW h, NEW K, NEW clears, NEW exact, NEW old, NEW new,
         NEW created, NEW changes, Setting(O, W, g, h, K, clears, exact, old, new, created, changes),
         NEW id \in K, NEW P, SoundPage(P), NEW R, LeadsTo(P, HeadPart(O, W, id), clears, R),
         NEW S, LeadsTo(R, KidsPart(O, W, id, created, changes), clears, S),
         NEW Q, LeadsTo(S, OrderPart(O, W, id), clears, Q)
  PROVE  LeadsTo(P, changes[id], clears, Q)
BY ChangeLeads

\* Every change of a node that is kept leads where it should.
LEMMA AllHeld ==
  ASSUME NEW O, NEW W, NEW g, NEW h, NEW K, NEW clears, NEW exact, NEW old, NEW new,
         NEW created, NEW changes, Setting(O, W, g, h, K, clears, exact, old, new, created, changes)
  PROVE  \A id \in K : Held(O, W, id, clears, exact, old, new, changes)
PROOF
<1> DEFINE T == {id \in K : Held(O, W, id, clears, exact, old, new, changes)}
<1>1. PageTree(W, h) /\ K \subseteq DOMAIN W /\ TwoTrees(O, W, g, h) /\ Reconciling(O, W, K, clears, exact, old, new)
  BY DEF Setting, TwoTrees, Reconciling, KeepsNodes
<1>2. \A id \in K : h[id] \in Nat
  BY <1>1, TreeRow
<1>3. ASSUME NEW id \in K, \A k \in K : h[k] < h[id] => k \in T PROVE id \in T
  <2>1. /\ \A k \in KidsOf(W, id) : h[k] < h[id]
        /\ KidsWaiting(O, W, id, <<>>) = KidsOf(O, id) \cap KidsOf(W, id)
    <3>1. KidsFramed(O, W, h, id, created, changes)
      BY KidsFrame
    <3> QED
      BY <3>1 DEF KidsFramed
  <2>2. \A k \in KidsOf(W, id) \cap K : Held(O, W, k, clears, exact, old, new, changes)
    BY <1>3, <2>1
  <2>3. id \in DOMAIN O \cap DOMAIN W /\ clears \in BOOLEAN /\ exact \in BOOLEAN
    BY SettingFacts
  <2> SUFFICES ASSUME NEW P, NEW Q, ReadyPage(P, O, id, clears, exact, old), LeadsTo(P, changes[id], clears, Q)
               PROVE  DonePage(P, Q, O, W, id, clears, exact, new)
    BY DEF Held
  <2>4. SoundPage(P)
    BY DEF ReadyPage
  <2>5. PICK R, S : /\ LeadsTo(P, HeadPart(O, W, id), clears, R)
                    /\ LeadsTo(R, KidsPart(O, W, id, created, changes), clears, S)
                    /\ LeadsTo(S, OrderPart(O, W, id), clears, Q)
    BY <2>4, ChangeLeads
  <2>6. MidPage(P, R, O, W, id, KidsWaiting(O, W, id, <<>>), <<>>, clears, exact, old, new)
    BY <1>1, <2>1, <2>5, HeadLeads
  <2>7. MidPage(P, S, O, W, id, {}, W[id].kids, clears, exact, old, new)
    BY <2>2, <2>5, <2>6, KidsLead
  <2> QED
    BY <1>1, <2>3, <2>5, <2>7, OrderLeads
<1> HIDE DEF T
<1>4. K \subseteq T
  BY <1>2, <1>3, ByRank
<1> QED
  BY <1>4 DEF T
(* What is admitted is applied as a whole. *)

\* The nodes of a page on the way.
HasNodes(R, P, O, W, id, todo, s) ==
  DOMAIN R = (DOMAIN P \ Under(O, id)) \cup MidNodes(O, W, id, todo, s)

\* An exact page on the way has the nodes that are expected.
LEMMA MidDomain ==
  ASSUME NEW O, NEW W, NEW g, NEW h, NEW clears, NEW exact, NEW old, NEW new, NEW id,
         NEW P, NEW R, NEW todo, NEW s, Midway(O, W, g, h, clears, exact, old, new, id, P, R, todo, s)
  PROVE  exact = TRUE => HasNodes(R, P, O, W, id, todo, s)
PROOF
<1> SUFFICES ASSUME exact = TRUE PROVE HasNodes(R, P, O, W, id, todo, s)
  OBVIOUS
<1> DEFINE Left == BelowAll(O, todo)
           Made == BelowAll(W, ToSet(s))
           U == Under(O, id)
<1>0. /\ TwoTrees(O, W, g, h) /\ id \in DOMAIN O \cap DOMAIN W
      /\ ReadyPage(P, O, id, clears, exact, old)
      /\ MidPage(P, R, O, W, id, todo, s, clears, exact, old, new)
  BY DEF Midway
<1>1. MidPieces(P, R, O, W, id, todo, s, clears, exact, old, new, Left, Made)
  BY <1>0, MidIs
<1>2. MidKnown(R, W, id, todo, s, Left, Made)
  BY <1>0, MidFacts
<1> HIDE DEF Left, Made, U
<1>3. /\ \A n \in DOMAIN P \ U : n \in DOMAIN R
      /\ \A n \in DOMAIN R \ ({id} \cup Left \cup Made) : n \in DOMAIN P /\ n \notin U
  BY <1>1 DEF MidPieces, U
<1>4. {id} \cup Left \cup Made \subseteq DOMAIN R
  BY <1>2 DEF MidKnown
<1>5. MidNodes(O, W, id, todo, s) = {id} \cup Left \cup Made
  BY DEF MidNodes, Left, Made
<1> QED
  BY <1>3, <1>4, <1>5 DEF U, HasNodes

\* Two runs of what the same trees emit, with texts that do not clear and that do.
Twice(O, W, g, h, K, old, new, created, changes) ==
  /\ Setting(O, W, g, h, K, FALSE, TRUE, old, new, created, changes)
  /\ Setting(O, W, g, h, K, TRUE, TRUE, old, new, created, changes)

BothReady(P1, P2, O, id, old) ==
  /\ ReadyPage(P1, O, id, FALSE, TRUE, old) /\ ReadyPage(P2, O, id, TRUE, TRUE, old)
  /\ DOMAIN P1 = DOMAIN P2

BothMid(P1, P2, R1, R2, O, W, id, todo, s, old, new) ==
  /\ MidPage(P1, R1, O, W, id, todo, s, FALSE, TRUE, old, new)
  /\ MidPage(P2, R2, O, W, id, todo, s, TRUE, TRUE, old, new)

\* The change of id can be taken with the one where it can be taken with the other.
Paired(O, W, id, old, new, changes) ==
  \A P1, P2, Q1 : BothReady(P1, P2, O, id, old) /\ LeadsTo(P1, changes[id], FALSE, Q1)
                    => Passes(P2, changes[id], TRUE)

\* The pages of two runs have the same nodes.
LEMMA BothDomain ==
  ASSUME NEW O, NEW W, NEW g, NEW h, TwoTrees(O, W, g, h), NEW old, NEW new,
         NEW id \in DOMAIN O \cap DOMAIN W, NEW P1, NEW P2, BothReady(P1, P2, O, id, old),
         NEW todo, NEW s, NEW R1, NEW R2, BothMid(P1, P2, R1, R2, O, W, id, todo, s, old, new)
  PROVE  DOMAIN R1 = DOMAIN R2
PROOF
<1> DEFINE no == FALSE
           yes == TRUE
<1>0. /\ Midway(O, W, g, h, no, yes, old, new, id, P1, R1, todo, s)
      /\ Midway(O, W, g, h, yes, yes, old, new, id, P2, R2, todo, s) /\ yes = TRUE
  BY DEF BothReady, BothMid, Midway
<1> HIDE DEF no, yes
<1>1. HasNodes(R1, P1, O, W, id, todo, s)
  BY <1>0, MidDomain
<1>2. HasNodes(R2, P2, O, W, id, todo, s)
  BY <1>0, MidDomain
<1> QED
  BY <1>1, <1>2 DEF BothReady, HasNodes

\* One child, in both runs.
LEMMA KidBoth ==
  ASSUME NEW O, NEW W, NEW g, NEW h, NEW K, NEW old, NEW new, NEW created, NEW changes,
         Twice(O, W, g, h, K, old, new, created, changes), NEW id \in K,
         NEW P1, NEW P2, BothReady(P1, P2, O, id, old),
         NEW t \in Seq(KidsOf(W, id)), NEW k \in KidsOf(W, id) \ ToSet(t), NEW R1, NEW R2,
         BothMid(P1, P2, R1, R2, O, W, id, KidsWaiting(O, W, id, t), t, old, new),
         k \in K => Paired(O, W, k, old, new, changes),
         NEW Q1, LeadsTo(R1, PartChanges(O, W, id, k, created, changes), FALSE, Q1)
  PROVE  Passes(R2, PartChanges(O, W, id, k, created, changes), TRUE)
PROOF
<1> DEFINE todo == KidsWaiting(O, W, id, t)
           add == created[k] \o PlacePatch(id, k, NoNode)
<1>1. /\ Setting(O, W, g, h, K, FALSE, TRUE, old, new, created, changes)
      /\ Setting(O, W, g, h, K, TRUE, TRUE, old, new, created, changes)
  BY DEF Twice
<1>2. /\ id \in DOMAIN O \cap DOMAIN W
      /\ created[k] \in Seq(PagePatches) /\ Makes(W, k, created, FALSE)
      /\ k \in KidsOf(O, id) =>
           /\ changes[k] \in Seq(PagePatches)
           /\ O[k].tag = W[k].tag => k \in K
           /\ O[k].tag # W[k].tag => id \in new
  <2> DEFINE no == FALSE
             yes == TRUE
  <2>1. Setting(O, W, g, h, K, no, yes, old, new, created, changes)
    BY <1>1
  <2> HIDE DEF no, yes
  <2>2. /\ id \in DOMAIN O \cap DOMAIN W
        /\ created[k] \in Seq(PagePatches) /\ Makes(W, k, created, no)
        /\ k \in KidsOf(O, id) =>
             /\ changes[k] \in Seq(PagePatches)
             /\ O[k].tag = W[k].tag => k \in K
             /\ O[k].tag # W[k].tag => id \in new
    BY <2>1, SettingFacts
  <2> QED
    BY <2>2 DEF no
<1>3. Makes(W, k, created, TRUE)
  <2> DEFINE yes == TRUE
  <2>1. Setting(O, W, g, h, K, yes, yes, old, new, created, changes)
    BY <1>1
  <2> HIDE DEF yes
  <2>2. Makes(W, k, created, yes)
    BY <2>1, SettingFacts
  <2> QED
    BY <2>2 DEF yes
<1>4. TwoTrees(O, W, g, h) /\ PageTree(W, h)
  BY <1>1 DEF Setting, TwoTrees
<1>5. k \in KidsOf(O, id) => k \in todo
  BY DEF KidsWaiting
<1>6. /\ BothMid(P1, P2, R1, R2, O, W, id, todo, t, old, new)
      /\ MidPage(P1, R1, O, W, id, todo, t, FALSE, TRUE, old, new) /\ SoundPage(R1) /\ id \in DOMAIN R1
      /\ MidPage(P2, R2, O, W, id, todo, t, TRUE, TRUE, old, new) /\ SoundPage(R2) /\ id \in DOMAIN R2
      /\ ReadyPage(P1, O, id, FALSE, TRUE, old) /\ ReadyPage(P2, O, id, TRUE, TRUE, old)
  BY DEF BothMid, MidPage, MidRow, BothReady
<1> HIDE DEF todo, add
<1>7. add \in Seq(PagePatches)
  <2>1. \E p, q \in PagePatches : PartEnds(id, k, created, p, q)
    BY <1>2, <1>4, PartIs
  <2>2. PICK p \in PagePatches : add = Append(created[k], p)
    BY <2>1 DEF PartEnds, add
  <2> QED
    BY <1>2, <2>2
<1>8. ASSUME NEW S1, NEW S2, SoundPage(S1), id \in DOMAIN S1, SoundPage(S2), id \in DOMAIN S2,
             DOMAIN S1 = DOMAIN S2, NEW X, LeadsTo(S1, add, FALSE, X)
      PROVE  Passes(S2, add, TRUE)
  <2>1. \A Y : LeadsTo(S1, created[k] \o PlacePatch(id, k, NoNode), FALSE, Y) => JoinedPage(S1, Y, W, id, k, FALSE)
    BY <1>2, <1>4, <1>8, ChildCreated
  <2>2. JoinedPage(S1, X, W, id, k, FALSE)
    BY <1>8, <2>1 DEF add
  <2>3. Under(W, k) \cap DOMAIN S2 = {}
    BY <1>8, <2>2 DEF JoinedPage
  <2>4. Under(W, k) \cap DOMAIN S2 = {} => \E Y : LeadsTo(S2, created[k] \o PlacePatch(id, k, NoNode), TRUE, Y)
    BY <1>2, <1>3, <1>4, <1>8, ChildCreated
  <2> QED
    BY <2>3, <2>4 DEF Passes, add
<1>9. CASE k \notin KidsOf(O, id)
  <2>1. PartChanges(O, W, id, k, created, changes) = add
    BY <1>9 DEF PartChanges, add
  <2>2. DOMAIN R1 = DOMAIN R2
    BY <1>2, <1>4, <1>6, BothDomain
  <2> QED
    BY <1>6, <1>8, <2>1, <2>2
<1>10. CASE k \in KidsOf(O, id) /\ O[k].tag # W[k].tag
  <2>1. PartChanges(O, W, id, k, created, changes) = RemovePatch(k) \o add
    BY <1>10 DEF PartChanges, add
  <2>2. k \in todo /\ (k \notin KidsOf(W, id) \/ id \in new)
    BY <1>2, <1>5, <1>10
  <2>3. /\ RemovePatch(k) \in Seq(PagePatches)
        /\ \A S : LeadsTo(R1, RemovePatch(k), FALSE, S) =>
              MidPage(P1, S, O, W, id, todo \ {k}, t, FALSE, TRUE, old, new)
    <3>1. Midway(O, W, g, h, FALSE, TRUE, old, new, id, P1, R1, todo, t)
      BY <1>2, <1>4, <1>6 DEF Midway
    <3> QED
      BY ONLY <3>1, <2>2, RemoveLeads
  <2>4. /\ Passes(R2, RemovePatch(k), TRUE)
        /\ \A S : LeadsTo(R2, RemovePatch(k), TRUE, S) =>
              MidPage(P2, S, O, W, id, todo \ {k}, t, TRUE, TRUE, old, new)
    <3>1. Midway(O, W, g, h, TRUE, TRUE, old, new, id, P2, R2, todo, t)
      BY <1>2, <1>4, <1>6 DEF Midway
    <3> QED
      BY ONLY <3>1, <2>2, RemoveLeads
  <2>5. PICK S1 : LeadsTo(R1, RemovePatch(k), FALSE, S1) /\ LeadsTo(S1, add, FALSE, Q1)
    <3>1. LeadsTo(R1, RemovePatch(k) \o add, FALSE, Q1) <=>
            \E S : LeadsTo(R1, RemovePatch(k), FALSE, S) /\ LeadsTo(S, add, FALSE, Q1)
      BY <1>6, <1>7, <2>3, LeadsConcat
    <3> QED
      BY <2>1, <3>1
  <2>6. PICK S2 : LeadsTo(R2, RemovePatch(k), TRUE, S2)
    BY <2>4 DEF Passes
  <2>7. /\ MidPage(P1, S1, O, W, id, todo \ {k}, t, FALSE, TRUE, old, new)
        /\ MidPage(P2, S2, O, W, id, todo \ {k}, t, TRUE, TRUE, old, new)
    BY <2>3, <2>4, <2>5, <2>6
  <2>8. SoundPage(S1) /\ id \in DOMAIN S1 /\ SoundPage(S2) /\ id \in DOMAIN S2
    BY <2>7 DEF MidPage, MidRow
  <2>9. DOMAIN S1 = DOMAIN S2
    <3>1. BothMid(P1, P2, S1, S2, O, W, id, todo \ {k}, t, old, new)
      BY <2>7 DEF BothMid
    <3> QED
      BY <1>2, <1>4, <3>1, BothDomain
  <2>10. Passes(S2, add, TRUE)
    BY <1>8, <2>5, <2>8, <2>9
  <2>11. PICK Q2 : LeadsTo(S2, add, TRUE, Q2)
    BY <2>10 DEF Passes
  <2>12. LeadsTo(R2, RemovePatch(k) \o add, TRUE, Q2) <=>
            \E S : LeadsTo(R2, RemovePatch(k), TRUE, S) /\ LeadsTo(S, add, TRUE, Q2)
    BY <1>6, <1>7, <2>3, LeadsConcat
  <2> QED
    BY <2>1, <2>6, <2>11, <2>12 DEF Passes
<1>11. CASE k \in KidsOf(O, id) /\ O[k].tag = W[k].tag
  <2>1. PartChanges(O, W, id, k, created, changes) = changes[k]
    BY <1>11 DEF PartChanges
  <2>2. k \in K /\ k \in todo
    BY <1>2, <1>5, <1>11
  <2>3. ReadyPage(R1, O, k, FALSE, TRUE, old)
    BY <1>2, <1>4, <1>6, <2>2, MidReady
  <2>4. ReadyPage(R2, O, k, TRUE, TRUE, old)
    BY <1>2, <1>4, <1>6, <2>2, MidReady
  <2>5. DOMAIN R1 = DOMAIN R2
    BY <1>2, <1>4, <1>6, BothDomain
  <2> QED
    BY <2>1, <2>2, <2>3, <2>4, <2>5 DEF Paired, BothReady
<1> QED
  BY <1>9, <1>10, <1>11

\* All children, in both runs.
LEMMA KidsBoth ==
  ASSUME NEW O, NEW W, NEW g, NEW h, NEW K, NEW old, NEW new, NEW created, NEW changes,
         Twice(O, W, g, h, K, old, new, created, changes), NEW id \in K,
         NEW P1, NEW P2, BothReady(P1, P2, O, id, old), NEW R1, NEW R2,
         BothMid(P1, P2, R1, R2, O, W, id, KidsWaiting(O, W, id, <<>>), <<>>, old, new),
         \A k \in KidsOf(W, id) \cap K : Paired(O, W, k, old, new, changes),
         NEW S1, LeadsTo(R1, KidsPart(O, W, id, created, changes), FALSE, S1)
  PROVE  Passes(R2, KidsPart(O, W, id, created, changes), TRUE)
PROOF
<1> DEFINE X == KidsOf(W, id)
           of == KidsEmit(O, W, id, created, changes)
           s == W[id].kids
           no == FALSE
           yes == TRUE
           Mid(t, A, B) == BothMid(P1, P2, A, B, O, W, id, KidsWaiting(O, W, id, t), t, old, new)
           M == {m \in Seq(X) \X SoundPages \X SoundPages : Mid(m[1], m[2], m[3])}
<1>1. /\ Setting(O, W, g, h, K, no, yes, old, new, created, changes)
      /\ Setting(O, W, g, h, K, yes, yes, old, new, created, changes)
  BY DEF Twice
<1>2. /\ KidsPart(O, W, id, created, changes) = EmittedBy(s, of)
      /\ \A k \in X : of[k] = PartChanges(O, W, id, k, created, changes) /\ of[k] \in Seq(PagePatches)
      /\ s \in Seq(X) /\ Distinct(s)
  <2>1. KidsFramed(O, W, h, id, created, changes)
    <3> HIDE DEF no, yes
    <3> QED
      BY <1>1, KidsFrame
  <2> QED
    BY <2>1 DEF KidsFramed
<1>3. Mid(<<>>, R1, R2) /\ SoundPage(R1) /\ SoundPage(R2)
  BY DEF BothMid, MidPage
<1>4. /\ \A k \in K : Held(O, W, k, no, yes, old, new, changes)
      /\ \A k \in K : Held(O, W, k, yes, yes, old, new, changes)
      /\ ReadyPage(P1, O, id, no, yes, old) /\ ReadyPage(P2, O, id, yes, yes, old)
  <2>1. ReadyPage(P1, O, id, no, yes, old) /\ ReadyPage(P2, O, id, yes, yes, old)
    BY DEF BothReady
  <2> HIDE DEF no, yes
  <2> QED
    BY <1>1, <2>1, AllHeld
<1> HIDE DEF of, X, Mid
<1>5. \A t, A, B : <<t, A, B>> \in M <=> t \in Seq(X) /\ SoundPage(A) /\ SoundPage(B) /\ Mid(t, A, B)
  BY SoundIsTyped
<1> HIDE DEF M
<1>6. ASSUME NEW t \in Seq(X), NEW A, NEW B, NEW A1, NEW B1, NEW k \in X \ ToSet(t), <<t, A, B>> \in M,
             LeadsTo(A, of[k], FALSE, A1), LeadsTo(B, of[k], TRUE, B1)
      PROVE  <<Append(t, k), A1, B1>> \in M
  <2>1. /\ MidPage(P1, A, O, W, id, KidsWaiting(O, W, id, t), t, no, yes, old, new)
        /\ MidPage(P2, B, O, W, id, KidsWaiting(O, W, id, t), t, yes, yes, old, new)
        /\ t \in Seq(KidsOf(W, id)) /\ k \in KidsOf(W, id) \ ToSet(t)
    BY <1>5, <1>6 DEF BothMid, Mid, X
  <2>2. /\ LeadsTo(A, PartChanges(O, W, id, k, created, changes), no, A1)
        /\ LeadsTo(B, PartChanges(O, W, id, k, created, changes), yes, B1)
    BY <1>2, <1>6
  <2> HIDE DEF no, yes
  <2>3. MidPage(P1, A1, O, W, id, KidsWaiting(O, W, id, Append(t, k)), Append(t, k), no, yes, old, new)
    BY <1>1, <1>4, <2>1, <2>2, KidLeads
  <2>4. MidPage(P2, B1, O, W, id, KidsWaiting(O, W, id, Append(t, k)), Append(t, k), yes, yes, old, new)
    BY <1>1, <1>4, <2>1, <2>2, KidLeads
  <2>5. SoundPage(A1) /\ SoundPage(B1) /\ Append(t, k) \in Seq(X)
    BY <2>3, <2>4 DEF MidPage
  <2>6. Mid(Append(t, k), A1, B1)
    BY <2>3, <2>4 DEF Mid, BothMid, no, yes
  <2> QED
    BY <1>5, <2>5, <2>6
<1>7. ASSUME NEW t \in Seq(X), NEW A, NEW B, NEW A1, NEW k \in X \ ToSet(t), <<t, A, B>> \in M,
             LeadsTo(A, of[k], FALSE, A1)
      PROVE  \E B1 : LeadsTo(B, of[k], TRUE, B1)
  <2>1. /\ BothMid(P1, P2, A, B, O, W, id, KidsWaiting(O, W, id, t), t, old, new)
        /\ t \in Seq(KidsOf(W, id)) /\ k \in KidsOf(W, id) \ ToSet(t)
        /\ k \in K => Paired(O, W, k, old, new, changes)
    BY <1>5, <1>7 DEF Mid, X
  <2>2. LeadsTo(A, PartChanges(O, W, id, k, created, changes), FALSE, A1)
    BY <1>2, <1>7
  <2>3. Passes(B, PartChanges(O, W, id, k, created, changes), TRUE)
    BY <2>1, <2>2, KidBoth
  <2> QED
    BY <1>2, <2>3 DEF Passes
<1>8. <<<<>>, R1, R2>> \in M
  <2> DEFINE none == <<>>
  <2>1. none \in Seq(X) /\ Mid(none, R1, R2)
    BY <1>3
  <2> HIDE DEF none
  <2>2. <<none, R1, R2>> \in M
    BY <1>3, <1>5, <2>1
  <2> QED
    BY <2>2 DEF none
<1>9. \E S2 : LeadsTo(R2, EmittedBy(s, of), TRUE, S2)
  <2>1. /\ \A k \in X : of[k] \in Seq(PagePatches)
        /\ SoundPage(R1) /\ SoundPage(R2) /\ <<<<>>, R1, R2>> \in M
        /\ s \in Seq(X) /\ Distinct(s) /\ LeadsTo(R1, EmittedBy(s, of), FALSE, S1)
    BY <1>2, <1>3, <1>8
  <2>2. \A t \in Seq(X) : \A A, B, A1, B1 : \A k \in X \ ToSet(t) :
          /\ <<t, A, B>> \in M /\ SoundPage(A) /\ SoundPage(B)
          /\ LeadsTo(A, of[k], FALSE, A1) /\ LeadsTo(B, of[k], TRUE, B1)
          => <<Append(t, k), A1, B1>> \in M
    BY <1>6
  <2>3. \A t \in Seq(X) : \A A, B, A1 : \A k \in X \ ToSet(t) :
          <<t, A, B>> \in M /\ SoundPage(A) /\ SoundPage(B) /\ LeadsTo(A, of[k], FALSE, A1)
            => \E B1 : LeadsTo(B, of[k], TRUE, B1)
    BY <1>7
  <2> HIDE DEF s
  <2> QED
    BY ONLY <2>1, <2>2, <2>3, ListBoth
<1> QED
  BY <1>2, <1>9 DEF Passes

\* What is admitted is applied as a whole, also by texts that clear.
LEMMA AllPaired ==
  ASSUME NEW O, NEW W, NEW g, NEW h, NEW K, NEW old, NEW new, NEW created, NEW changes,
         Twice(O, W, g, h, K, old, new, created, changes)
  PROVE  \A id \in K : Paired(O, W, id, old, new, changes)
PROOF
<1> DEFINE T == {id \in K : Paired(O, W, id, old, new, changes)}
           no == FALSE
           yes == TRUE
<1>1. /\ Setting(O, W, g, h, K, no, yes, old, new, created, changes)
      /\ Setting(O, W, g, h, K, yes, yes, old, new, created, changes)
  BY DEF Twice
<1>2. /\ TwoTrees(O, W, g, h) /\ PageTree(W, h) /\ K \subseteq DOMAIN O \cap DOMAIN W
      /\ Reconciling(O, W, K, no, yes, old, new) /\ Reconciling(O, W, K, yes, yes, old, new)
  BY <1>1 DEF Setting, TwoTrees, Reconciling, KeepsNodes
<1>3. \A id \in K : h[id] \in Nat
  BY <1>2, TreeRow
<1>4. \A k \in K : Held(O, W, k, yes, yes, old, new, changes)
  <2> HIDE DEF no, yes
  <2> QED
    BY <1>1, AllHeld
<1>5. ASSUME NEW id \in K, \A k \in K : h[k] < h[id] => k \in T PROVE id \in T
  <2>1. /\ \A k \in KidsOf(W, id) : h[k] < h[id]
        /\ KidsWaiting(O, W, id, <<>>) = KidsOf(O, id) \cap KidsOf(W, id)
    <3>1. KidsFramed(O, W, h, id, created, changes)
      <4> HIDE DEF no, yes, T
      <4> QED
        BY <1>1, KidsFrame
    <3> QED
      BY <3>1 DEF KidsFramed
  <2>2. \A k \in KidsOf(W, id) \cap K : Paired(O, W, k, old, new, changes)
    BY <1>5, <2>1
  <2> SUFFICES ASSUME NEW P1, NEW P2, NEW Q1, BothReady(P1, P2, O, id, old), LeadsTo(P1, changes[id], FALSE, Q1)
               PROVE  Passes(P2, changes[id], TRUE)
    BY DEF Paired
  <2>3. /\ ReadyPage(P1, O, id, no, yes, old) /\ ReadyPage(P2, O, id, yes, yes, old)
        /\ SoundPage(P1) /\ SoundPage(P2) /\ LeadsTo(P1, changes[id], no, Q1) /\ id \in DOMAIN O \cap DOMAIN W
        /\ yes \in BOOLEAN /\ yes = TRUE
    BY <1>2 DEF BothReady, ReadyPage
  <2> HIDE DEF no, yes, T
  <2>4. PICK R1, S1 : /\ LeadsTo(P1, HeadPart(O, W, id), no, R1)
                      /\ LeadsTo(R1, KidsPart(O, W, id, created, changes), no, S1)
    BY <1>1, <2>3, ChangeLeads
  <2>5. MidPage(P1, R1, O, W, id, KidsWaiting(O, W, id, <<>>), <<>>, no, yes, old, new)
    <3>1. /\ TwoTrees(O, W, g, h) /\ Reconciling(O, W, K, no, yes, old, new) /\ id \in K
          /\ ReadyPage(P1, O, id, no, yes, old) /\ LeadsTo(P1, HeadPart(O, W, id), no, R1)
      BY <1>2, <2>3, <2>4
    <3>2. MidPage(P1, R1, O, W, id, KidsOf(O, id) \cap KidsOf(W, id), <<>>, no, yes, old, new)
      BY ONLY <3>1, HeadLeads
    <3> QED
      BY <2>1, <3>2
  <2>6. /\ Passes(P2, HeadPart(O, W, id), yes)
        /\ \A R : LeadsTo(P2, HeadPart(O, W, id), yes, R) =>
              MidPage(P2, R, O, W, id, KidsWaiting(O, W, id, <<>>), <<>>, yes, yes, old, new)
    <3>1. /\ TwoTrees(O, W, g, h) /\ Reconciling(O, W, K, yes, yes, old, new) /\ id \in K
          /\ ReadyPage(P2, O, id, yes, yes, old)
      BY <1>2, <2>3
    <3>2. /\ Passes(P2, HeadPart(O, W, id), yes)
          /\ \A R : LeadsTo(P2, HeadPart(O, W, id), yes, R) =>
                MidPage(P2, R, O, W, id, KidsOf(O, id) \cap KidsOf(W, id), <<>>, yes, yes, old, new)
      BY ONLY <3>1, HeadLeads
    <3> QED
      BY <2>1, <3>2
  <2>7. PICK R2 : LeadsTo(P2, HeadPart(O, W, id), yes, R2)
    BY <2>6 DEF Passes
  <2>8. MidPage(P2, R2, O, W, id, KidsWaiting(O, W, id, <<>>), <<>>, yes, yes, old, new)
    BY <2>6, <2>7
  <2>9. Passes(R2, KidsPart(O, W, id, created, changes), yes)
    <3>1. /\ BothMid(P1, P2, R1, R2, O, W, id, KidsWaiting(O, W, id, <<>>), <<>>, old, new)
          /\ LeadsTo(R1, KidsPart(O, W, id, created, changes), FALSE, S1)
      BY <2>4, <2>5, <2>8 DEF BothMid, no, yes
    <3>2. Passes(R2, KidsPart(O, W, id, created, changes), TRUE)
      BY <2>2, <3>1, KidsBoth
    <3> QED
      BY <3>2 DEF yes
  <2>10. PICK S2 : LeadsTo(R2, KidsPart(O, W, id, created, changes), yes, S2)
    BY <2>9 DEF Passes
  <2>11. MidPage(P2, S2, O, W, id, {}, W[id].kids, yes, yes, old, new)
    BY <1>1, <1>4, <2>3, <2>8, <2>10, KidsLead
  <2>12. Passes(S2, OrderPart(O, W, id), yes)
    <3>1. yes => Passes(S2, OrderPart(O, W, id), yes)
      BY <1>2, <2>3, <2>11, OrderLeads
    <3> QED
      BY <2>3, <3>1
  <2>13. PICK Q2 : LeadsTo(S2, OrderPart(O, W, id), yes, Q2)
    BY <2>12 DEF Passes
  <2>14. LeadsTo(P2, changes[id], yes, Q2)
    BY <1>1, <2>3, <2>7, <2>10, <2>13, ChangeMade
  <2> QED
    BY <2>14 DEF Passes, yes
<1> HIDE DEF T
<1>6. K \subseteq T
  BY <1>3, <1>5, ByRank
<1> QED
  BY <1>6 DEF T
(* A batch is admitted where no node changes its parent. *)

\* The nodes that both trees have are below the same nodes.
Steady(O, W) ==
  \A x \in DOMAIN O \cap DOMAIN W :
    {p \in DOMAIN O : x \in KidsOf(O, p)} = {p \in DOMAIN W : x \in KidsOf(W, p)}

\* What is below a node in the new tree and was there before was below it before.
LEMMA Climb ==
  ASSUME NEW O, NEW W, NEW g, NEW h, TwoTrees(O, W, g, h), Steady(O, W), NEW k \in DOMAIN W,
         NEW x \in Under(W, k), x \in DOMAIN O
  PROVE  k \in DOMAIN O /\ x \in Under(O, k)
PROOF
<1> DEFINE V == Under(W, k)
           Z == {n \in V : n \in DOMAIN O => k \in DOMAIN O /\ n \in Under(O, k)}
<1>1. PageTree(O, g) /\ PageTree(W, h)
  BY DEF TwoTrees
<1>2. /\ k \in V /\ V \subseteq DOMAIN W /\ \A n \in V : KidsOf(W, n) \subseteq V
      /\ \A Y : k \in Y /\ ClosedIn(W, Y) => V \subseteq Y
  BY <1>1, BelowFacts
<1>3. k \in DOMAIN O => k \in Under(O, k) /\ \A n \in Under(O, k) : KidsOf(O, n) \subseteq Under(O, k)
  BY <1>1, BelowFacts
<1> HIDE DEF V
<1>4. k \in Z
  BY <1>2, <1>3
<1>5. ASSUME NEW n \in Z, NEW y \in KidsOf(W, n) PROVE y \in Z
  <2>1. y \in V /\ n \in DOMAIN W
    BY <1>2
  <2>2. ASSUME y \in DOMAIN O PROVE k \in DOMAIN O /\ y \in Under(O, k)
    <3>1. y \in DOMAIN O \cap DOMAIN W
      BY <1>2, <2>1, <2>2
    <3>2. n \in {p \in DOMAIN W : y \in KidsOf(W, p)}
      BY <2>1
    <3>3. n \in DOMAIN O /\ y \in KidsOf(O, n)
      BY <3>1, <3>2 DEF Steady
    <3>4. k \in DOMAIN O /\ n \in Under(O, k)
      BY <3>3
    <3> QED
      BY <1>3, <3>3, <3>4
  <2> QED
    BY <2>1, <2>2
<1>6. ClosedIn(W, Z)
  BY <1>5 DEF ClosedIn
<1>7. V \subseteq Z
  BY <1>2, <1>4, <1>6
<1> QED
  BY <1>7 DEF V

\* Of what a child has in W, a page on the way has only what the child had in O.
LEMMA LeftBelow ==
  ASSUME NEW O, NEW W, NEW g, NEW h, NEW clears, NEW exact, NEW old, NEW new, NEW id,
         NEW P, NEW R, NEW todo, NEW s, Midway(O, W, g, h, clears, exact, old, new, id, P, R, todo, s),
         HasNodes(R, P, O, W, id, todo, s), Steady(O, W), Under(W, id) \cap DOMAIN P \subseteq Under(O, id),
         NEW k \in KidsOf(W, id), k \notin ToSet(s), NEW x \in Under(W, k), x \in DOMAIN R
  PROVE  k \in KidsOf(O, id) /\ x \in Under(O, k) /\ x \in BelowAll(O, todo)
PROOF
<1>0. /\ TwoTrees(O, W, g, h) /\ id \in DOMAIN O \cap DOMAIN W
      /\ ReadyPage(P, O, id, clears, exact, old)
      /\ MidPage(P, R, O, W, id, todo, s, clears, exact, old, new)
      /\ PageTree(O, g) /\ PageTree(W, h)
  BY DEF Midway, TwoTrees
<1>1. DOMAIN R = (DOMAIN P \ Under(O, id)) \cup {id} \cup BelowAll(O, todo) \cup BelowAll(W, ToSet(s))
  BY DEF HasNodes, MidNodes
<1>2. ToSet(s) \subseteq KidsOf(W, id) /\ todo \subseteq KidsOf(O, id)
  BY <1>0, SetTyped DEF MidPage
<1>3. k \in DOMAIN W /\ Under(W, k) \subseteq Under(W, id) /\ id \notin Under(W, k)
  BY <1>0, BelowKid
<1>4. x \notin DOMAIN P \ Under(O, id)
  BY <1>3
<1>5. x # id
  BY <1>3
<1>6. x \notin BelowAll(W, ToSet(s))
  <2>1. Under(W, k) \cap BelowAll(W, ToSet(s)) = {}
    <3> DEFINE S == ToSet(s)
    <3>1. S \subseteq KidsOf(W, id) /\ k \in KidsOf(W, id) \ S
      BY <1>2
    <3> HIDE DEF S
    <3>2. Under(W, k) \cap BelowAll(W, S) = {}
      BY <1>0, <3>1, BelowSome
    <3> QED
      BY <3>2 DEF S
  <2> QED
    BY <2>1
<1>7. x \in BelowAll(O, todo)
  BY <1>1, <1>4, <1>5, <1>6
<1>8. x \in DOMAIN O
  <2>1. BelowAll(O, todo) \subseteq DOMAIN O
    BY <1>0, <1>2, BelowSome
  <2> QED
    BY <1>7, <2>1
<1>9. k \in DOMAIN O /\ x \in Under(O, k)
  BY <1>0, <1>3, <1>8, Climb
<1>10. k \in KidsOf(O, id)
  <2>1. k \in DOMAIN O \cap DOMAIN W /\ id \in {p \in DOMAIN W : k \in KidsOf(W, p)}
    BY <1>0, <1>3, <1>9
  <2>2. id \in {p \in DOMAIN O : k \in KidsOf(O, p)}
    BY <2>1 DEF Steady
  <2> QED
    BY <2>2
<1> QED
  BY <1>7, <1>9, <1>10

\* The change of id can be taken where nothing of W is elsewhere.
Going(O, W, id, clears, exact, old, changes) ==
  \A P : ReadyPage(P, O, id, clears, exact, old) /\ Under(W, id) \cap DOMAIN P \subseteq Under(O, id)
           => Passes(P, changes[id], clears)

\* One child can be taken.
LEMMA KidGoes ==
  ASSUME NEW O, NEW W, NEW g, NEW h, NEW K, NEW clears, NEW exact, NEW old, NEW new,
         NEW created, NEW changes, Setting(O, W, g, h, K, clears, exact, old, new, created, changes),
         exact = TRUE, Steady(O, W), NEW id \in K, NEW P, ReadyPage(P, O, id, clears, exact, old),
         Under(W, id) \cap DOMAIN P \subseteq Under(O, id),
         NEW t \in Seq(KidsOf(W, id)), NEW k \in KidsOf(W, id) \ ToSet(t), NEW R,
         MidPage(P, R, O, W, id, KidsWaiting(O, W, id, t), t, clears, exact, old, new),
         k \in K => Going(O, W, k, clears, exact, old, changes)
  PROVE  Passes(R, PartChanges(O, W, id, k, created, changes), clears)
PROOF
<1> DEFINE todo == KidsWaiting(O, W, id, t)
           add == created[k] \o PlacePatch(id, k, NoNode)
<1>1. /\ id \in DOMAIN O \cap DOMAIN W /\ clears \in BOOLEAN
      /\ created[k] \in Seq(PagePatches) /\ Makes(W, k, created, clears)
      /\ k \in KidsOf(O, id) =>
           /\ changes[k] \in Seq(PagePatches)
           /\ O[k].tag = W[k].tag => k \in K
           /\ O[k].tag # W[k].tag => id \in new
  <2>1. /\ Setting(O, W, g, h, K, clears, exact, old, new, created, changes) /\ id \in K
        /\ k \in KidsOf(W, id)
    OBVIOUS
  <2> QED
    BY ONLY <2>1, SettingFacts
<1>2. TwoTrees(O, W, g, h) /\ PageTree(W, h) /\ PageTree(O, g)
  BY DEF Setting, TwoTrees
<1>3. (k \in KidsOf(O, id) => k \in todo) /\ todo \subseteq KidsOf(O, id)
  BY DEF KidsWaiting
<1>4. /\ Midway(O, W, g, h, clears, exact, old, new, id, P, R, todo, t)
      /\ MidPage(P, R, O, W, id, todo, t, clears, exact, old, new) /\ SoundPage(R) /\ id \in DOMAIN R
  BY <1>1, <1>2 DEF Midway, MidPage, MidRow
<1>5. k \in KidsOf(W, id) /\ k \notin ToSet(t)
  OBVIOUS
<1> HIDE DEF todo, add
<1>6. add \in Seq(PagePatches)
  <2>1. \E p, q \in PagePatches : PartEnds(id, k, created, p, q)
    BY <1>1, <1>2, PartIs
  <2>2. PICK p \in PagePatches : add = Append(created[k], p)
    BY <2>1 DEF PartEnds, add
  <2> QED
    BY <1>1, <2>2
<1>7. ASSUME NEW S, SoundPage(S), id \in DOMAIN S, Under(W, k) \cap DOMAIN S = {}
      PROVE  Passes(S, add, clears)
  <2>1. Under(W, k) \cap DOMAIN S = {} => \E Y : LeadsTo(S, created[k] \o PlacePatch(id, k, NoNode), clears, Y)
    BY <1>1, <1>2, <1>7, ChildCreated
  <2> QED
    BY <1>7, <2>1 DEF Passes, add
<1>8. \A x \in Under(W, k) : x \in DOMAIN R =>
        k \in KidsOf(O, id) /\ x \in Under(O, k) /\ x \in BelowAll(O, todo)
  <2>1. Midway(O, W, g, h, clears, exact, old, new, id, P, R, todo, t) /\ exact = TRUE
    BY <1>4
  <2>2. HasNodes(R, P, O, W, id, todo, t)
    BY ONLY <2>1, MidDomain
  <2> QED
    BY <1>4, <1>5, <2>2, LeftBelow
<1>9. CASE k \notin KidsOf(O, id)
  <2>1. PartChanges(O, W, id, k, created, changes) = add
    BY <1>9 DEF PartChanges, add
  <2>2. Under(W, k) \cap DOMAIN R = {}
    BY <1>8, <1>9
  <2> QED
    BY <1>4, <1>7, <2>1, <2>2
<1>10. CASE k \in KidsOf(O, id) /\ O[k].tag # W[k].tag
  <2>1. PartChanges(O, W, id, k, created, changes) = RemovePatch(k) \o add
    BY <1>10 DEF PartChanges, add
  <2>2. k \in todo /\ (k \notin KidsOf(W, id) \/ id \in new)
    BY <1>1, <1>3, <1>10
  <2>3. /\ RemovePatch(k) \in Seq(PagePatches) /\ Passes(R, RemovePatch(k), clears)
        /\ \A S : LeadsTo(R, RemovePatch(k), clears, S) =>
              MidPage(P, S, O, W, id, todo \ {k}, t, clears, exact, old, new)
    BY ONLY <1>4, <2>2, RemoveLeads
  <2>4. PICK S : LeadsTo(R, RemovePatch(k), clears, S)
    BY <2>3 DEF Passes
  <2> DEFINE rest == todo \ {k}
  <2>5. MidPage(P, S, O, W, id, rest, t, clears, exact, old, new)
    BY <2>3, <2>4
  <2>6. SoundPage(S) /\ id \in DOMAIN S /\ Midway(O, W, g, h, clears, exact, old, new, id, P, S, rest, t)
    BY <1>1, <1>2, <2>5 DEF MidPage, MidRow, Midway
  <2>7. Under(O, k) \cap BelowAll(O, rest) = {}
    <3>1. rest \subseteq KidsOf(O, id) /\ k \in KidsOf(O, id) \ rest
      BY <1>3, <1>10
    <3> HIDE DEF rest
    <3> QED
      BY <1>1, <1>2, <3>1, BelowSome
  <2> HIDE DEF rest
  <2>8. \A x \in Under(W, k) : x \in DOMAIN S => x \in Under(O, k) /\ x \in BelowAll(O, rest)
    <3>1. Midway(O, W, g, h, clears, exact, old, new, id, P, S, rest, t) /\ exact = TRUE
      BY <2>6
    <3>2. HasNodes(S, P, O, W, id, rest, t)
      BY ONLY <3>1, MidDomain
    <3> QED
      BY <1>5, <2>6, <3>2, LeftBelow
  <2>9. Under(W, k) \cap DOMAIN S = {}
    BY <2>7, <2>8
  <2>10. PICK Q : LeadsTo(S, add, clears, Q)
    BY <1>7, <2>6, <2>9 DEF Passes
  <2>11. LeadsTo(R, RemovePatch(k) \o add, clears, Q) <=>
            \E X : LeadsTo(R, RemovePatch(k), clears, X) /\ LeadsTo(X, add, clears, Q)
    BY <1>1, <1>4, <1>6, <2>3, LeadsConcat
  <2> QED
    BY <2>1, <2>4, <2>10, <2>11 DEF Passes
<1>11. CASE k \in KidsOf(O, id) /\ O[k].tag = W[k].tag
  <2>1. PartChanges(O, W, id, k, created, changes) = changes[k]
    BY <1>11 DEF PartChanges
  <2>2. k \in K /\ k \in todo
    BY <1>1, <1>3, <1>11
  <2>3. ReadyPage(R, O, k, clears, exact, old)
    BY <1>1, <1>2, <1>4, <2>2, MidReady
  <2>4. Under(W, k) \cap DOMAIN R \subseteq Under(O, k)
    BY <1>8
  <2> QED
    BY <2>1, <2>2, <2>3, <2>4 DEF Going
<1> QED
  BY <1>9, <1>10, <1>11

\* All children can be taken, one after the other.
LEMMA KidsGo ==
  ASSUME NEW O, NEW W, NEW g, NEW h, NEW K, NEW clears, NEW exact, NEW old, NEW new,
         NEW created, NEW changes, Setting(O, W, g, h, K, clears, exact, old, new, created, changes),
         exact = TRUE, Steady(O, W), NEW id \in K, NEW P, ReadyPage(P, O, id, clears, exact, old),
         Under(W, id) \cap DOMAIN P \subseteq Under(O, id), NEW R,
         MidPage(P, R, O, W, id, KidsWaiting(O, W, id, <<>>), <<>>, clears, exact, old, new),
         \A k \in KidsOf(W, id) \cap K : Held(O, W, k, clears, exact, old, new, changes),
         \A k \in KidsOf(W, id) \cap K : Going(O, W, k, clears, exact, old, changes)
  PROVE  Passes(R, KidsPart(O, W, id, created, changes), clears)
PROOF
<1> DEFINE X == KidsOf(W, id)
           of == KidsEmit(O, W, id, created, changes)
           s == W[id].kids
           Mid(t, S) == MidPage(P, S, O, W, id, KidsWaiting(O, W, id, t), t, clears, exact, old, new)
           M == {m \in Seq(X) \X SoundPages : Mid(m[1], m[2])}
<1>0. /\ Setting(O, W, g, h, K, clears, exact, old, new, created, changes) /\ exact = TRUE
      /\ Steady(O, W) /\ id \in K /\ ReadyPage(P, O, id, clears, exact, old)
      /\ Under(W, id) \cap DOMAIN P \subseteq Under(O, id)
  OBVIOUS
<1>1. /\ KidsPart(O, W, id, created, changes) = EmittedBy(s, of)
      /\ \A k \in X : of[k] = PartChanges(O, W, id, k, created, changes) /\ of[k] \in Seq(PagePatches)
      /\ s \in Seq(X) /\ Distinct(s)
  <2>1. KidsFramed(O, W, h, id, created, changes)
    BY ONLY <1>0, KidsFrame
  <2> QED
    BY <2>1 DEF KidsFramed
<1>2. clears \in BOOLEAN /\ SoundPage(R)
  <2>1. clears \in BOOLEAN
    BY ONLY <1>0, SettingFacts
  <2> QED
    BY <2>1 DEF MidPage
<1>3. Mid(<<>>, R)
  OBVIOUS
<1> HIDE DEF of, X, Mid
<1>4. \A t, S : <<t, S>> \in M <=> t \in Seq(X) /\ SoundPage(S) /\ Mid(t, S)
  BY SoundIsTyped
<1> HIDE DEF M
<1>5. ASSUME NEW t \in Seq(X), NEW S, NEW k \in X \ ToSet(t), <<t, S>> \in M
      PROVE  /\ MidPage(P, S, O, W, id, KidsWaiting(O, W, id, t), t, clears, exact, old, new)
             /\ t \in Seq(KidsOf(W, id)) /\ k \in KidsOf(W, id) \ ToSet(t)
             /\ of[k] = PartChanges(O, W, id, k, created, changes)
             /\ (k \in K => Held(O, W, k, clears, exact, old, new, changes))
             /\ (k \in K => Going(O, W, k, clears, exact, old, changes))
  <2>1. Mid(t, S)
    BY <1>4, <1>5
  <2> QED
    BY <1>1, <2>1 DEF Mid, X
<1>6. ASSUME NEW t \in Seq(X), NEW S, NEW S1, NEW k \in X \ ToSet(t), <<t, S>> \in M,
             LeadsTo(S, of[k], clears, S1)
      PROVE  <<Append(t, k), S1>> \in M
  <2>1. /\ MidPage(P, S, O, W, id, KidsWaiting(O, W, id, t), t, clears, exact, old, new)
        /\ t \in Seq(KidsOf(W, id)) /\ k \in KidsOf(W, id) \ ToSet(t)
        /\ (k \in K => Held(O, W, k, clears, exact, old, new, changes))
        /\ LeadsTo(S, PartChanges(O, W, id, k, created, changes), clears, S1)
    BY <1>5, <1>6
  <2>2. MidPage(P, S1, O, W, id, KidsWaiting(O, W, id, Append(t, k)), Append(t, k), clears, exact, old, new)
    BY ONLY <1>0, <2>1, KidLeads
  <2>3. Append(t, k) \in Seq(X) /\ SoundPage(S1)
    BY <2>2 DEF MidPage
  <2> QED
    BY <1>4, <2>2, <2>3 DEF Mid
<1>7. ASSUME NEW t \in Seq(X), NEW S, NEW k \in X \ ToSet(t), <<t, S>> \in M
      PROVE  \E S1 : LeadsTo(S, of[k], clears, S1)
  <2>1. /\ MidPage(P, S, O, W, id, KidsWaiting(O, W, id, t), t, clears, exact, old, new)
        /\ t \in Seq(KidsOf(W, id)) /\ k \in KidsOf(W, id) \ ToSet(t)
        /\ (k \in K => Going(O, W, k, clears, exact, old, changes))
    BY <1>5, <1>7
  <2>2. Passes(S, PartChanges(O, W, id, k, created, changes), clears)
    BY ONLY <1>0, <2>1, KidGoes
  <2> QED
    BY <1>5, <1>7, <2>2 DEF Passes
<1>8. <<<<>>, R>> \in M
  <2> DEFINE none == <<>>
  <2>1. none \in Seq(X) /\ Mid(none, R)
    BY <1>3
  <2> HIDE DEF none
  <2>2. <<none, R>> \in M
    BY <1>2, <1>4, <2>1
  <2> QED
    BY <2>2 DEF none
<1>9. \E S : LeadsTo(R, EmittedBy(s, of), clears, S)
  <2>1. /\ \A k \in X : of[k] \in Seq(PagePatches)
        /\ clears \in BOOLEAN /\ SoundPage(R) /\ <<<<>>, R>> \in M
        /\ s \in Seq(X) /\ Distinct(s)
    BY <1>1, <1>2, <1>8
  <2>2. \A t \in Seq(X) : \A S, S1 : \A k \in X \ ToSet(t) :
           <<t, S>> \in M /\ SoundPage(S) /\ LeadsTo(S, of[k], clears, S1) => <<Append(t, k), S1>> \in M
    BY <1>6
  <2>3. \A t \in Seq(X) : \A S : \A k \in X \ ToSet(t) :
           <<t, S>> \in M /\ SoundPage(S) => \E S1 : LeadsTo(S, of[k], clears, S1)
    BY <1>7
  <2> HIDE DEF s
  <2> QED
    BY ONLY <2>1, <2>2, <2>3, ListGoes
<1> QED
  BY <1>1, <1>9 DEF Passes

\* Where no node changes its parent, every change can be taken.
LEMMA AllGoing ==
  ASSUME NEW O, NEW W, NEW g, NEW h, NEW K, NEW clears, NEW exact, NEW old, NEW new,
         NEW created, NEW changes, Setting(O, W, g, h, K, clears, exact, old, new, created, changes),
         exact = TRUE, Steady(O, W)
  PROVE  \A id \in K : Going(O, W, id, clears, exact, old, changes)
PROOF
<1> DEFINE T == {id \in K : Going(O, W, id, clears, exact, old, changes)}
<1>1. /\ TwoTrees(O, W, g, h) /\ PageTree(W, h) /\ K \subseteq DOMAIN O \cap DOMAIN W
      /\ Reconciling(O, W, K, clears, exact, old, new) /\ clears \in BOOLEAN /\ exact \in BOOLEAN
      /\ Setting(O, W, g, h, K, clears, exact, old, new, created, changes) /\ exact = TRUE /\ Steady(O, W)
  BY DEF Setting, TwoTrees, Reconciling, KeepsNodes
<1>2. \A id \in K : h[id] \in Nat
  BY <1>1, TreeRow
<1>3. \A k \in K : Held(O, W, k, clears, exact, old, new, changes)
  BY ONLY <1>1, AllHeld
<1> HIDE DEF T
<1>4. ASSUME NEW id \in K, \A k \in K : h[k] < h[id] => k \in T PROVE id \in T
  <2>1. /\ \A k \in KidsOf(W, id) : h[k] < h[id]
        /\ KidsWaiting(O, W, id, <<>>) = KidsOf(O, id) \cap KidsOf(W, id)
    <3>1. id \in K
      OBVIOUS
    <3>2. KidsFramed(O, W, h, id, created, changes)
      BY ONLY <1>1, <3>1, KidsFrame
    <3> QED
      BY <3>2 DEF KidsFramed
  <2>2. \A k \in KidsOf(W, id) \cap K :
          Held(O, W, k, clears, exact, old, new, changes) /\ Going(O, W, k, clears, exact, old, changes)
    BY <1>3, <1>4, <2>1 DEF T
  <2>3. ASSUME NEW P, ReadyPage(P, O, id, clears, exact, old),
               Under(W, id) \cap DOMAIN P \subseteq Under(O, id)
        PROVE  Passes(P, changes[id], clears)
    <3>1. /\ id \in K /\ ReadyPage(P, O, id, clears, exact, old) /\ id \in DOMAIN O \cap DOMAIN W
          /\ Under(W, id) \cap DOMAIN P \subseteq Under(O, id) /\ SoundPage(P)
      BY <1>1, <2>3 DEF ReadyPage
    <3>2. /\ Passes(P, HeadPart(O, W, id), clears)
          /\ \A R : LeadsTo(P, HeadPart(O, W, id), clears, R) =>
                MidPage(P, R, O, W, id, KidsOf(O, id) \cap KidsOf(W, id), <<>>, clears, exact, old, new)
      BY ONLY <1>1, <3>1, HeadLeads
    <3>3. PICK R : LeadsTo(P, HeadPart(O, W, id), clears, R)
      BY <3>2 DEF Passes
    <3>4. MidPage(P, R, O, W, id, KidsWaiting(O, W, id, <<>>), <<>>, clears, exact, old, new)
      BY <2>1, <3>2, <3>3
    <3>5. Passes(R, KidsPart(O, W, id, created, changes), clears)
      BY ONLY <1>1, <2>2, <3>1, <3>4, KidsGo
    <3>6. PICK S : LeadsTo(R, KidsPart(O, W, id, created, changes), clears, S)
      BY <3>5 DEF Passes
    <3>7. MidPage(P, S, O, W, id, {}, W[id].kids, clears, exact, old, new)
      BY ONLY <1>1, <2>2, <3>1, <3>4, <3>6, KidsLead
    <3>8. exact => Passes(S, OrderPart(O, W, id), clears)
      BY ONLY <1>1, <3>1, <3>7, OrderLeads
    <3>9. PICK Q : LeadsTo(S, OrderPart(O, W, id), clears, Q)
      BY <1>1, <3>8 DEF Passes
    <3>10. LeadsTo(P, changes[id], clears, Q)
      BY ONLY <1>1, <3>1, <3>3, <3>6, <3>9, ChangeMade
    <3> QED
      BY <3>10 DEF Passes
  <2> QED
    BY <2>3 DEF Going, T
<1>5. K \subseteq T
  BY <1>2, <1>4, ByRank
<1> QED
  BY <1>5 DEF T
(* What is kept is neither created nor removed. *)

Spares(list, K) == \A p \in ToSet(list) : p.kind \in {"create", "remove"} => p.target \notin K

LEMMA SparesConcat ==
  ASSUME NEW K, NEW a \in Seq(PagePatches), NEW b \in Seq(PagePatches), Spares(a, K), Spares(b, K)
  PROVE  Spares(a \o b, K)
PROOF
<1>1. ToSet(a \o b) = ToSet(a) \cup ToSet(b)
  BY SetOfConcat
<1> QED
  BY <1>1 DEF Spares

LEMMA SparesOne ==
  ASSUME NEW K, NEW p, p.kind \in {"create", "remove"} => p.target \notin K
  PROVE  Spares(<<p>>, K)
PROOF
<1>1. ToSet(<<p>>) = {p}
  BY DEF ToSet
<1> QED
  BY <1>1 DEF Spares

LEMMA SparesNothing ==
  ASSUME NEW K
  PROVE  Spares(<<>>, K)
BY DEF Spares, ToSet

\* A list that emits spares what each of its elements does.
LEMMA SparesEmitted ==
  ASSUME NEW K, NEW X, NEW list \in Seq(X), NEW of,
         \A x \in ToSet(list) : of[x] \in Seq(PagePatches) /\ Spares(of[x], K)
  PROVE  Spares(EmittedBy(list, of), K)
PROOF
<1>1. \A x \in ToSet(list) : of[x] \in Seq(PagePatches)
  OBVIOUS
<1>2. ASSUME NEW p \in ToSet(EmittedBy(list, of)) PROVE \E x \in ToSet(list) : p \in ToSet(of[x])
  BY ONLY <1>1, <1>2, EmittedFrom, list \in Seq(X)
<1> QED
  BY <1>2 DEF Spares

\* A creation of what is not kept.
LEMMA CreationSpares ==
  ASSUME NEW W, NEW h, PageTree(W, h), NEW created, CreatedBy(W, created), NEW K
  PROVE  \A id \in DOMAIN W \ {HostRoot} : Under(W, id) \cap K = {} => Spares(created[id], K)
PROOF
<1> DEFINE D == DOMAIN W \ {HostRoot}
           T == {id \in D : Under(W, id) \cap K = {} => Spares(created[id], K)}
<1>1. /\ created \in [D -> Seq(PagePatches)] /\ \A id \in D : created[id] = CreationOf(W, id, created)
      /\ SoundPage(W)
  BY DEF CreatedBy, PageTree
<1>2. \A id \in D : h[id] \in Nat
  BY TreeRow
<1>3. ASSUME NEW id \in D, \A k \in D : h[k] < h[id] => k \in T PROVE id \in T
  <2> SUFFICES ASSUME Under(W, id) \cap K = {} PROVE Spares(created[id], K)
    OBVIOUS
  <2>1. /\ W[id].kids \in Seq(PageIds) /\ KidsOf(W, id) = ToSet(W[id].kids)
        /\ id \in PageIds /\ W[id].tag \in Words /\ W[id].text \in Words
        /\ KidsOf(W, id) \subseteq D /\ \A k \in KidsOf(W, id) : h[k] < h[id] /\ k \in PageIds
    BY <1>1, NodeFacts, TreeRow
  <2>2. ASSUME NEW k \in KidsOf(W, id)
        PROVE  /\ created[k] \o PlacePatch(id, k, NoNode) \in Seq(PagePatches)
               /\ Spares(created[k] \o PlacePatch(id, k, NoNode), K)
    <3>1. created[k] \in Seq(PagePatches) /\ k \in T
      BY <1>1, <1>3, <2>1
    <3>2. Under(W, k) \subseteq Under(W, id)
      BY BelowKid
    <3>3. Spares(created[k], K)
      BY <3>1, <3>2
    <3>4. NoNode \in PageIds \cup {NoNode} /\ NoNode # k /\ id \in PageNodes
      BY <2>1, PageAssumption DEF PageNodes
    <3>5. PICK p \in PagePatches : PlacePatch(id, k, NoNode) = <<p>> /\ p.kind = "place"
      BY <2>1, <3>4, PlaceIsPatch
    <3>6. Spares(<<p>>, K) /\ <<p>> \in Seq(PagePatches)
      BY <3>5, SparesOne
    <3>7. Spares(created[k] \o <<p>>, K)
      BY <3>1, <3>3, <3>6, SparesConcat
    <3> QED
      BY <3>1, <3>5, <3>6, <3>7
  <2> DEFINE of == [k \in KidsOf(W, id) |-> created[k] \o PlacePatch(id, k, NoNode)]
             text == IF W[id].text = "" THEN <<>> ELSE TextPatch(id, W[id].text)
  <2>3. CreationOf(W, id, created) = (CreatePatch(id, W[id].tag) \o text) \o EmittedBy(W[id].kids, of)
    BY DEF CreationOf
  <2>4. \A k \in ToSet(W[id].kids) : of[k] \in Seq(PagePatches) /\ Spares(of[k], K)
    BY <2>1, <2>2
  <2>5. id \notin K
    BY <1>1, PageIsFinite, UnderFacts
  <2>6. CreatePatch(id, W[id].tag) \in Seq(PagePatches) /\ Spares(CreatePatch(id, W[id].tag), K)
    <3>1. PICK p \in PagePatches : CreatePatch(id, W[id].tag) = <<p>> /\ p.target = id
      BY <2>1, CreateIsPatch
    <3> QED
      BY <2>5, <3>1, SparesOne
  <2>7. text \in Seq(PagePatches) /\ Spares(text, K)
    <3>1. CASE W[id].text = ""
      <4>1. text = <<>> /\ Spares(<<>>, K)
        BY <3>1, SparesNothing
      <4> HIDE DEF text
      <4> QED
        BY <4>1
    <3>2. CASE W[id].text # ""
      <4>1. PICK p \in PagePatches : TextPatch(id, W[id].text) = <<p>> /\ p.kind = "text"
        BY <2>1, TextIsPatch
      <4>2. text = <<p>> /\ Spares(<<p>>, K)
        BY <3>2, <4>1, SparesOne
      <4> HIDE DEF text
      <4> QED
        BY <4>2
    <3> QED
      BY <3>1, <3>2
  <2> HIDE DEF of, text, T
  <2>8. EmittedBy(W[id].kids, of) \in Seq(PagePatches) /\ Spares(EmittedBy(W[id].kids, of), K)
    BY <2>1, <2>4, EmittedTyped, SparesEmitted
  <2>9. /\ CreatePatch(id, W[id].tag) \o text \in Seq(PagePatches)
        /\ Spares(CreatePatch(id, W[id].tag) \o text, K)
    BY <2>6, <2>7, SparesConcat
  <2>10. Spares((CreatePatch(id, W[id].tag) \o text) \o EmittedBy(W[id].kids, of), K)
    BY <2>8, <2>9, SparesConcat
  <2> QED
    BY <1>1, <2>3, <2>10
<1> HIDE DEF T
<1>4. D \subseteq T
  <2> HIDE DEF D
  <2> QED
    BY <1>2, <1>3, ByRank
<1> QED
  BY <1>4 DEF T

\* A node that is kept has its parent in both trees.
LEMMA KeptBelow ==
  ASSUME NEW O, NEW W, NEW g, NEW h, TwoTrees(O, W, g, h), NEW K, KeepsNodes(O, W, K),
         NEW id \in K, NEW k \in K, k \in KidsOf(O, id) \/ k \in KidsOf(W, id)
  PROVE  k \in KidsOf(O, id) \cap KidsOf(W, id) /\ O[k].tag = W[k].tag
PROOF
<1>1. /\ PageTree(O, g) /\ PageTree(W, h) /\ SoundPage(O) /\ SoundPage(W)
      /\ id \in DOMAIN O \cap DOMAIN W
  BY DEF TwoTrees, PageTree, KeepsNodes
<1>2. k # HostRoot
  BY <1>1, TreeRow
<1>3. PICK p \in K : k \in KidsOf(O, p) \cap KidsOf(W, p)
  BY <1>2 DEF KeepsNodes
<1>4. p \in DOMAIN O \cap DOMAIN W
  BY DEF KeepsNodes
<1>5. p = id
  BY <1>1, <1>3, <1>4 DEF SoundPage
<1> QED
  BY <1>3, <1>5 DEF KeepsNodes

\* What a child emits spares what is kept.
LEMMA PartSpares ==
  ASSUME NEW O, NEW W, NEW g, NEW h, TwoTrees(O, W, g, h), NEW K, KeepsNodes(O, W, K),
         NEW created, CreatedBy(W, created), NEW changes, HandledBy(O, W, created, changes),
         NEW id \in K, NEW k \in KidsOf(W, id), k \in K => Spares(changes[k], K)
  PROVE  Spares(PartChanges(O, W, id, k, created, changes), K)
PROOF
<1> DEFINE add == created[k] \o PlacePatch(id, k, NoNode)
<1>1. /\ PageTree(O, g) /\ PageTree(W, h) /\ id \in DOMAIN O \cap DOMAIN W
  BY DEF TwoTrees, KeepsNodes
<1>2. k \in DOMAIN W \ {HostRoot} /\ k \in PageIds
  BY <1>1, TreeRow
<1>3. created[k] \in Seq(PagePatches)
  BY <1>2 DEF CreatedBy
<1>4. \E p, q \in PagePatches : PartEnds(id, k, created, p, q)
  BY <1>1, <1>3, PartIs
<1>5. PICK p, q \in PagePatches : PartEnds(id, k, created, p, q)
  BY <1>4
<1>6. ASSUME k \notin K PROVE add \in Seq(PagePatches) /\ Spares(add, K) /\ Spares(RemovePatch(k) \o add, K)
  <2>1. Under(W, k) \cap K = {}
    BY <1>2, <1>6, BelowUnkept
  <2>2. Spares(created[k], K)
    BY <1>1, <1>2, <2>1, CreationSpares
  <2>3. PlacePatch(id, k, NoNode) \in Seq(PagePatches) /\ Spares(PlacePatch(id, k, NoNode), K)
    <3>1. NoNode \in PageIds \cup {NoNode} /\ NoNode # k /\ id \in PageNodes
      BY <1>1, <1>2, PageAssumption, TreeRow
    <3>2. PICK r \in PagePatches : PlacePatch(id, k, NoNode) = <<r>> /\ r.kind = "place"
      BY <1>2, <3>1, PlaceIsPatch
    <3> QED
      BY <3>2, SparesOne
  <2>4. RemovePatch(k) \in Seq(PagePatches) /\ Spares(RemovePatch(k), K)
    <3>1. PICK r \in PagePatches : RemovePatch(k) = <<r>> /\ r.target = k
      BY <1>2, RemoveIsPatch
    <3> QED
      BY <1>6, <3>1, SparesOne
  <2>5. add \in Seq(PagePatches) /\ Spares(add, K)
    BY <1>3, <2>2, <2>3, SparesConcat
  <2> HIDE DEF add
  <2>6. Spares(RemovePatch(k) \o add, K)
    BY <2>4, <2>5, SparesConcat
  <2> QED
    BY <2>5, <2>6
<1>7. CASE k \in K
  <2>1. k \in KidsOf(O, id) \cap KidsOf(W, id) /\ O[k].tag = W[k].tag
    BY <1>7, KeptBelow
  <2> QED
    BY <1>7, <2>1 DEF PartChanges
<1>8. CASE k \notin K
  <2>1. ~(k \in KidsOf(O, id) /\ O[k].tag = W[k].tag)
    BY <1>8 DEF KeepsNodes
  <2> QED
    BY <1>6, <1>8, <2>1 DEF PartChanges
<1> QED
  BY <1>7, <1>8

\* No change of a node that is kept creates or removes one.
LEMMA AllSpared ==
  ASSUME NEW O, NEW W, NEW g, NEW h, TwoTrees(O, W, g, h), NEW K, KeepsNodes(O, W, K),
         NEW created, CreatedBy(W, created), NEW changes, HandledBy(O, W, created, changes)
  PROVE  \A id \in K : Spares(changes[id], K)
PROOF
<1> DEFINE T == {id \in K : Spares(changes[id], K)}
<1>1. /\ PageTree(O, g) /\ PageTree(W, h) /\ K \subseteq DOMAIN O \cap DOMAIN W
      /\ \A id \in DOMAIN O \cap DOMAIN W :
           changes[id] = Emission(O, W, id, created, changes) /\ changes[id] \in Seq(PagePatches)
  BY DEF TwoTrees, KeepsNodes, HandledBy
<1>2. \A id \in K : h[id] \in Nat
  BY <1>1, TreeRow
<1>3. ASSUME NEW id \in K, \A k \in K : h[k] < h[id] => k \in T PROVE id \in T
  <2>1. /\ id \in DOMAIN O \cap DOMAIN W /\ KidsOf(W, id) = ToSet(W[id].kids)
        /\ W[id].kids \in Seq(PageIds)
        /\ KidsOf(W, id) \subseteq DOMAIN W \ {HostRoot} /\ \A k \in KidsOf(W, id) : h[k] < h[id]
        /\ KidsOf(O, id) \subseteq DOMAIN O
    BY <1>1, TreeRow
  <2>2. /\ \A k \in KidsOf(W, id) : created[k] \in Seq(PagePatches)
        /\ \A k \in KidsOf(O, id) \cap KidsOf(W, id) : changes[k] \in Seq(PagePatches)
    BY <1>1, <2>1 DEF CreatedBy
  <2>3. \A k \in KidsOf(W, id) : Spares(PartChanges(O, W, id, k, created, changes), K)
    <3> SUFFICES ASSUME NEW k \in KidsOf(W, id)
                 PROVE  Spares(PartChanges(O, W, id, k, created, changes), K)
      OBVIOUS
    <3>1. k \in K => Spares(changes[k], K)
      BY <1>3, <2>1
    <3> HIDE DEF T
    <3> QED
      BY <3>1, PartSpares
  <2> HIDE DEF T
  <2>4. TextPart(O, W, id) \in Seq(PagePatches) /\ Spares(TextPart(O, W, id), K)
    <3>1. \/ TextPart(O, W, id) = <<>>
          \/ \E p \in PagePatches : TextPart(O, W, id) = <<p>> /\ p.kind = "text"
      BY <2>1, TextPartIs
    <3>2. CASE TextPart(O, W, id) = <<>>
      <4>1. Spares(<<>>, K)
        BY SparesNothing
      <4> QED
        BY <3>2, <4>1
    <3>3. ASSUME NEW p \in PagePatches, TextPart(O, W, id) = <<p>>, p.kind = "text"
          PROVE  TextPart(O, W, id) \in Seq(PagePatches) /\ Spares(TextPart(O, W, id), K)
      <4>1. Spares(<<p>>, K) /\ <<p>> \in Seq(PagePatches)
        BY <3>3, SparesOne
      <4> QED
        BY <3>3, <4>1
    <3> QED
      BY <3>1, <3>2, <3>3
  <2>5. GonePart(O, W, id) \in Seq(PagePatches) /\ Spares(GonePart(O, W, id), K)
    <3>1. /\ GonePart(O, W, id) \in Seq(PagePatches)
          /\ \A p \in ToSet(GonePart(O, W, id)) : p.target \in KidsOf(O, id) \ KidsOf(W, id)
      BY <2>1, GonePartFacts
    <3>2. \A k \in KidsOf(O, id) \ KidsOf(W, id) : k \notin K
      BY KeptBelow
    <3> QED
      BY <3>1, <3>2 DEF Spares
  <2>6. KidsPart(O, W, id, created, changes) \in Seq(PagePatches) /\ Spares(KidsPart(O, W, id, created, changes), K)
    <3> DEFINE of == [k \in KidsOf(W, id) |-> PartChanges(O, W, id, k, created, changes)]
    <3>1. /\ \A k \in KidsOf(W, id) : PartChanges(O, W, id, k, created, changes) \in Seq(PagePatches)
          /\ KidsPart(O, W, id, created, changes) \in Seq(PagePatches)
      BY <2>1, <2>2, KidsPartTyped
    <3>2. \A k \in ToSet(W[id].kids) : of[k] \in Seq(PagePatches) /\ Spares(of[k], K)
      BY <2>1, <2>3, <3>1
    <3>3. KidsPart(O, W, id, created, changes) = EmittedBy(W[id].kids, of)
      BY DEF KidsPart
    <3> HIDE DEF of
    <3> QED
      BY <2>1, <3>1, <3>2, <3>3, SparesEmitted
  <2>7. OrderPart(O, W, id) \in Seq(PagePatches) /\ Spares(OrderPart(O, W, id), K)
    <3> DEFINE none == {}
               no == FALSE
    <3> HIDE DEF none, no
    <3>1. PlacementsDone(none, id, no, CurrentOrder(O, W, id), W[id].kids, OrderPart(O, W, id))
      BY <2>1, OrderPartFacts
    <3> QED
      BY <3>1 DEF PlacementsDone, PlacesIn, Spares
  <2>8. changes[id] = ((TextPart(O, W, id) \o GonePart(O, W, id)) \o KidsPart(O, W, id, created, changes)) \o OrderPart(O, W, id)
    BY <1>1, <2>1 DEF Emission
  <2>9. /\ TextPart(O, W, id) \o GonePart(O, W, id) \in Seq(PagePatches)
        /\ Spares(TextPart(O, W, id) \o GonePart(O, W, id), K)
    BY <2>4, <2>5, SparesConcat
  <2> DEFINE head == TextPart(O, W, id) \o GonePart(O, W, id)
             mid == head \o KidsPart(O, W, id, created, changes)
  <2> HIDE DEF head
  <2>10. mid \in Seq(PagePatches) /\ Spares(mid, K)
    <3>1. head \in Seq(PagePatches) /\ Spares(head, K)
      BY <2>9 DEF head
    <3> QED
      BY <2>6, <3>1, SparesConcat
  <2> HIDE DEF mid
  <2>11. Spares(mid \o OrderPart(O, W, id), K)
    BY <2>7, <2>10, SparesConcat
  <2> QED
    BY <2>8, <2>11 DEF T, mid, head
<1> HIDE DEF T
<1>4. K \subseteq T
  BY <1>2, <1>3, ByRank
<1> QED
  BY <1>4 DEF T
(* Renders. *)

\* What is kept, with the element of the host.
KeptPage(old, new) == KeptNodes(old, new) \cup {HostRoot}

\* The nodes whose children are not in order after a render, of those that were not before.
LooseAfter(old, new, loose) ==
  (loose \cap KeptNodes(old, new))
    \cup {id \in KeptNodes(old, new) : \E k \in Staying(old, new, id) : k \notin KeptNodes(old, new)}

\* What the model calls kept, with the element of the host, is such a set.
LEMMA KeptKeeps ==
  ASSUME NEW old \in PageTrees \cup {NoTree}, NEW new \in PageTrees
  PROVE  KeepsNodes(Expected(old), Expected(new), KeptPage(old, new))
PROOF
<1> DEFINE O == Expected(old)
           W == Expected(new)
           N == KeptNodes(old, new)
           same == SameNodes(old, new)
<1>1. PICK g : PageTree(O, g)
  BY ShownTree
<1>2. PICK h : PageTree(W, h)
  BY ShownTree
<1>3. /\ DOMAIN old = DOMAIN O \ {HostRoot} /\ \A id \in DOMAIN old : old[id] = O[id]
      /\ DOMAIN new = DOMAIN W \ {HostRoot} /\ \A id \in DOMAIN new : new[id] = W[id]
  BY ShownTree
<1>4. /\ N \subseteq same /\ Roots \cap same \subseteq N
      /\ \A id \in N : Staying(old, new, id) \cap same \subseteq N
      /\ \A Z : /\ Roots \cap same \subseteq Z
                /\ \A id \in Z \cap same : Staying(old, new, id) \cap same \subseteq Z
                => N \subseteq Z
  BY KeptFacts
<1> HIDE DEF N, O, W
<1>5. same = {id \in DOMAIN old \cap DOMAIN new : old[id].tag = new[id].tag}
  BY DEF SameNodes
<1> HIDE DEF same
<1>6. /\ same \subseteq (DOMAIN O \cap DOMAIN W) \ {HostRoot}
      /\ \A id \in same : O[id].tag = W[id].tag
      /\ \A id \in (DOMAIN O \cap DOMAIN W) \ {HostRoot} : O[id].tag = W[id].tag => id \in same
  BY <1>3, <1>5
<1>7. \A id \in same : Staying(old, new, id) = KidsOf(O, id) \cap KidsOf(W, id)
  BY <1>3, <1>5 DEF Staying, KidsOf
<1>8. /\ HostRoot \in DOMAIN O \cap DOMAIN W /\ O[HostRoot].tag = W[HostRoot].tag
      /\ KidsOf(O, HostRoot) = DOMAIN O \cap Roots /\ KidsOf(W, HostRoot) = DOMAIN W \cap Roots
      /\ HostRoot \notin Roots
  BY <1>1, <1>2, PageAssumption DEF PageTree, SoundPage, PageIds
<1>9. \A p \in DOMAIN O : KidsOf(O, p) \subseteq DOMAIN O \ {HostRoot}
  BY <1>1, TreeRow
<1>10. \A p \in DOMAIN W : KidsOf(W, p) \subseteq DOMAIN W \ {HostRoot}
  BY <1>2, TreeRow
<1> DEFINE K == N \cup {HostRoot}
<1>11. K \subseteq DOMAIN O \cap DOMAIN W /\ \A n \in K : O[n].tag = W[n].tag
  BY <1>4, <1>6, <1>8
<1>12. ASSUME NEW p \in K, NEW k \in KidsOf(O, p) \cap KidsOf(W, p), O[k].tag = W[k].tag PROVE k \in K
  <2>1. k \in same
    BY <1>6, <1>9, <1>10, <1>11, <1>12
  <2>2. CASE p = HostRoot
    BY <1>4, <1>8, <1>12, <2>1, <2>2
  <2>3. CASE p \in N
    BY <1>4, <1>7, <1>12, <2>1, <2>3
  <2> QED
    BY <2>2, <2>3
<1>13. ASSUME NEW k \in K \ {HostRoot} PROVE \E p \in K : k \in KidsOf(O, p) \cap KidsOf(W, p)
  <2> DEFINE Z == {x \in N : \E p \in K : x \in KidsOf(O, p) \cap KidsOf(W, p)}
  <2>1. Roots \cap same \subseteq Z
    BY <1>4, <1>6, <1>8
  <2>2. ASSUME NEW id \in Z \cap same PROVE Staying(old, new, id) \cap same \subseteq Z
    <3>1. id \in N /\ id \in K
      OBVIOUS
    <3>2. Staying(old, new, id) \cap same \subseteq N
      BY <1>4, <3>1
    <3>3. Staying(old, new, id) = KidsOf(O, id) \cap KidsOf(W, id)
      BY <1>7, <2>2
    <3> QED
      BY <3>1, <3>2, <3>3
  <2> HIDE DEF Z
  <2>3. N \subseteq Z
    BY <1>4, <2>1, <2>2
  <2> QED
    BY <2>3 DEF Z
<1> QED
  BY <1>11, <1>12, <1>13 DEF KeepsNodes, KeptPage, N, O, W

\* What is emitted for a render.
Rendering(old, new, g, h, created, changes) ==
  /\ TwoTrees(Expected(old), Expected(new), g, h)
  /\ CreatedBy(Expected(new), created)
  /\ HandledBy(Expected(old), Expected(new), created, changes)
  /\ Patches(old, new) = changes[HostRoot]

\* Every render emits such changes.
LEMMA SomethingRendered ==
  ASSUME NEW old \in PageTrees \cup {NoTree}, NEW new \in PageTrees
  PROVE  \E g, h, created, changes : Rendering(old, new, g, h, created, changes)
PROOF
<1>1. PICK g : PageTree(Expected(old), g)
  BY ShownTree
<1>2. TreeOf(Expected(old), old)
  BY ShownTree
<1>3. PICK h, root : PageTree(Expected(new), h) /\ RootedTree(Expected(new), new, root)
  BY TreeBuilt
<1>4. TwoTrees(Expected(old), Expected(new), g, h)
  BY <1>1, <1>3 DEF TwoTrees
<1>5. PICK changes : MadeFrom(Expected(old), Expected(new), Creations(new), changes, Patches(old, new))
  BY <1>2, <1>3, <1>4, PatchesMade
<1>6. Rendering(old, new, g, h, Creations(new), changes)
  BY <1>4, <1>5 DEF MadeFrom, Rendering
<1> QED
  BY <1>6

\* A render is what the lemmas on trees are about.
LEMMA RenderSetting ==
  ASSUME NEW old \in PageTrees \cup {NoTree}, NEW new \in PageTrees,
         NEW g, NEW h, NEW created, NEW changes, Rendering(old, new, g, h, created, changes),
         NEW clears \in BOOLEAN, NEW exact \in BOOLEAN, exact /\ clears => ~Tears(old, new),
         NEW loose
  PROVE  Setting(Expected(old), Expected(new), g, h, KeptPage(old, new), clears, exact,
                 loose \cup {HostRoot}, LooseAfter(old, new, loose) \cup {HostRoot}, created, changes)
PROOF
<1> DEFINE O == Expected(old)
           W == Expected(new)
           N == KeptNodes(old, new)
           K == KeptPage(old, new)
           was == loose \cup {HostRoot}
           is == LooseAfter(old, new, loose) \cup {HostRoot}
<1>1. /\ TwoTrees(O, W, g, h) /\ CreatedBy(W, created) /\ HandledBy(O, W, created, changes)
  BY DEF Rendering
<1>2. KeepsNodes(O, W, K)
  BY KeptKeeps
<1>3. /\ \A id \in DOMAIN old : old[id] = O[id]
      /\ \A id \in DOMAIN new : new[id] = W[id]
  BY ShownTree
<1>4. N \subseteq DOMAIN old \cap DOMAIN new
  BY KeptFacts DEF SameNodes
<1>5. O[HostRoot].text = "" /\ W[HostRoot].text = ""
  BY <1>1 DEF TwoTrees, PageTree
<1>6. K = N \cup {HostRoot}
  BY DEF KeptPage
<1>7. /\ is = (loose \cap N) \cup {id \in N : \E k \in Staying(old, new, id) : k \notin N} \cup {HostRoot}
  BY DEF LooseAfter
<1>8. Tears(old, new) <=> \E id \in N : old[id].text # new[id].text /\ Staying(old, new, id) # {}
  BY DEF Tears
<1> HIDE DEF N, O, W, K, is
<1>9. \A id \in N : /\ Staying(old, new, id) = KidsOf(O, id) \cap KidsOf(W, id)
                    /\ old[id].text = O[id].text /\ new[id].text = W[id].text
  BY <1>3, <1>4 DEF Staying, KidsOf
<1>10. \A n \in K \ is : n \notin was /\ KidsOf(O, n) \cap KidsOf(W, n) \subseteq K
  BY <1>6, <1>7, <1>9
<1>11. exact /\ clears =>
         \A n \in K : O[n].text # W[n].text => KidsOf(O, n) \cap KidsOf(W, n) = {}
  BY <1>5, <1>6, <1>8, <1>9
<1> HIDE DEF was
<1>12. Reconciling(O, W, K, clears, exact, was, is)
  BY <1>2, <1>10, <1>11 DEF Reconciling
<1>13. Setting(O, W, g, h, K, clears, exact, was, is, created, changes)
  BY <1>1, <1>12 DEF Setting
<1> QED
  BY <1>13 DEF O, W, K, was, is

\* A page that shows the tree, up to the order of loose children.
ShowsTree(P, tree, clears, exact, loose) ==
  ReadyPage(P, Expected(tree), HostRoot, clears, exact, loose \cup {HostRoot})

\* A batch that is applied as a whole brings the page to the next tree.
LEMMA RenderLeads ==
  ASSUME NEW old \in PageTrees \cup {NoTree}, NEW new \in PageTrees,
         NEW clears \in BOOLEAN, NEW exact \in BOOLEAN, exact /\ clears => ~Tears(old, new),
         NEW loose, NEW P, ShowsTree(P, old, clears, exact, loose),
         NEW Q, LeadsTo(P, Patches(old, new), clears, Q)
  PROVE  /\ ShowsTree(Q, new, clears, exact, LooseAfter(old, new, loose))
         /\ exact /\ DOMAIN P = DOMAIN Expected(old) => DOMAIN Q = DOMAIN Expected(new)
PROOF
<1> DEFINE O == Expected(old)
           W == Expected(new)
           K == KeptPage(old, new)
           was == loose \cup {HostRoot}
           is == LooseAfter(old, new, loose) \cup {HostRoot}
<1>1. PICK g, h, created, changes : Rendering(old, new, g, h, created, changes)
  BY SomethingRendered
<1>2. Setting(O, W, g, h, K, clears, exact, was, is, created, changes)
  BY <1>1, RenderSetting
<1>3. /\ Patches(old, new) = changes[HostRoot] /\ HostRoot \in K
      /\ ReadyPage(P, O, HostRoot, clears, exact, was)
  BY <1>1 DEF Rendering, KeptPage, ShowsTree
<1> HIDE DEF O, W, K, was, is
<1>4. Held(O, W, HostRoot, clears, exact, was, is, changes)
  BY <1>2, <1>3, AllHeld
<1>5. DonePage(P, Q, O, W, HostRoot, clears, exact, is)
  BY <1>3, <1>4 DEF Held
<1>6. PageTree(O, g) /\ PageTree(W, h)
  BY <1>2 DEF Setting, TwoTrees
<1>7. Under(O, HostRoot) = DOMAIN O /\ Under(W, HostRoot) = DOMAIN W
  BY <1>6, BelowHost
<1>8. /\ SoundPage(P) /\ SoundPage(Q)
      /\ \A n \in DOMAIN W : LikeNode(Q, W, n, clears, exact, is)
      /\ \A n \in DOMAIN P \ DOMAIN O : n \in DOMAIN Q \ DOMAIN W /\ Q[n] = P[n]
      /\ \A n \in DOMAIN Q \ DOMAIN W :
           /\ n \in DOMAIN P
           /\ n \in DOMAIN O => ~exact /\ KidsOf(Q, n) \subseteq DOMAIN O \ DOMAIN W
      /\ \A n \in DOMAIN P \ DOMAIN O : KidsOf(P, n) \cap DOMAIN O \subseteq {HostRoot}
  BY <1>3, <1>5, <1>7 DEF DonePage, ReadyPage
<1>9. ASSUME NEW n \in DOMAIN Q \ DOMAIN W PROVE KidsOf(Q, n) \cap DOMAIN W \subseteq {HostRoot}
  <2>1. CASE n \in DOMAIN O
    BY <1>8, <2>1
  <2>2. CASE n \notin DOMAIN O
    <3>1. n \in DOMAIN P /\ Q[n] = P[n] /\ KidsOf(P, n) \cap DOMAIN O \subseteq {HostRoot}
      BY <1>8, <2>2
    <3>2. KidsOf(Q, n) = KidsOf(P, n) /\ KidsOf(P, n) \subseteq DOMAIN P
      BY <1>8, <3>1, SoundRow DEF KidsOf
    <3> QED
      BY <1>8, <3>1, <3>2
  <2> QED
    BY <2>1, <2>2
<1>10. ReadyPage(Q, W, HostRoot, clears, exact, is)
  BY <1>7, <1>8, <1>9 DEF ReadyPage
<1>11. ASSUME exact, DOMAIN P = DOMAIN O PROVE DOMAIN Q = DOMAIN W
  BY <1>8, <1>11 DEF LikeNode
<1> QED
  BY <1>10, <1>11 DEF ShowsTree, O, W, is

\* What is counted on less exactly, or without the texts.
LEMMA ShowsLess ==
  ASSUME NEW P, NEW tree, NEW clears, NEW exact, NEW loose,
         NEW P1, P1 = P, ShowsTree(P1, tree, TRUE, TRUE, loose)
  PROVE  ShowsTree(P, tree, clears, exact, loose)
BY DEF ShowsTree, ReadyPage, LikeNode

\* A render is refused only where a node changes its parent.
LEMMA RenderAdmitted ==
  ASSUME NEW old \in PageTrees \cup {NoTree}, NEW new \in PageTrees,
         NEW loose, NEW P, ShowsTree(P, old, TRUE, TRUE, loose), DOMAIN P = DOMAIN Expected(old),
         \A id \in DOMAIN old \cap DOMAIN new :
           {p \in DOMAIN old : id \in KidsOf(old, p)} = {p \in DOMAIN new : id \in KidsOf(new, p)}
  PROVE  Admitted(P, Patches(old, new))
PROOF
<1> DEFINE O == Expected(old)
           W == Expected(new)
           K == KeptPage(old, new)
           was == loose \cup {HostRoot}
           is == LooseAfter(old, new, loose) \cup {HostRoot}
           no == FALSE
           yes == TRUE
<1>1. PICK g, h, created, changes : Rendering(old, new, g, h, created, changes)
  BY SomethingRendered
<1>2. ShowsTree(P, old, no, yes, loose)
  BY ShowsLess
<1>3. no \in BOOLEAN /\ yes \in BOOLEAN /\ (yes /\ no => ~Tears(old, new)) /\ yes = TRUE
  OBVIOUS
<1>4. Patches(old, new) \in Seq(PagePatches)
  BY PatchesTyped
<1>5. \A Q : LeadsTo(P, Patches(old, new), no, Q) => After(P, Patches(old, new), FALSE).whole
  BY OutcomeIs DEF LeadsTo
<1> HIDE DEF no, yes
<1>6. Setting(O, W, g, h, K, no, yes, was, is, created, changes)
  <2>1. /\ old \in PageTrees \cup {NoTree} /\ new \in PageTrees
        /\ Rendering(old, new, g, h, created, changes)
        /\ no \in BOOLEAN /\ yes \in BOOLEAN /\ (yes /\ no => ~Tears(old, new))
    BY <1>1, <1>3
  <2> QED
    BY ONLY <2>1, RenderSetting
<1>7. /\ Patches(old, new) = changes[HostRoot] /\ HostRoot \in K
      /\ ReadyPage(P, O, HostRoot, no, yes, was)
  BY <1>1, <1>2 DEF Rendering, KeptPage, ShowsTree
<1>8. /\ DOMAIN old = DOMAIN O \ {HostRoot} /\ \A id \in DOMAIN old : old[id] = O[id]
      /\ DOMAIN new = DOMAIN W \ {HostRoot} /\ \A id \in DOMAIN new : new[id] = W[id]
  BY ShownTree
<1> HIDE DEF O, W, K, was, is
<1>9. PageTree(O, g) /\ PageTree(W, h)
  BY <1>6 DEF Setting, TwoTrees
<1>10. /\ HostRoot \in DOMAIN O \cap DOMAIN W
       /\ KidsOf(O, HostRoot) = DOMAIN O \cap Roots /\ KidsOf(W, HostRoot) = DOMAIN W \cap Roots
       /\ \A p \in DOMAIN O : HostRoot \notin KidsOf(O, p)
       /\ \A p \in DOMAIN W : HostRoot \notin KidsOf(W, p)
  BY <1>9, TreeRow DEF PageTree, SoundPage
<1>11. Steady(O, W)
  <2> SUFFICES ASSUME NEW x \in DOMAIN O \cap DOMAIN W
               PROVE  {p \in DOMAIN O : x \in KidsOf(O, p)} = {p \in DOMAIN W : x \in KidsOf(W, p)}
    BY DEF Steady
  <2>1. CASE x = HostRoot
    BY <1>10, <2>1
  <2>2. CASE x # HostRoot
    <3>1. {p \in DOMAIN old : x \in KidsOf(old, p)} = {p \in DOMAIN new : x \in KidsOf(new, p)}
      BY <1>8, <2>2
    <3>2. {p \in DOMAIN O \ {HostRoot} : x \in KidsOf(O, p)} = {p \in DOMAIN W \ {HostRoot} : x \in KidsOf(W, p)}
      BY <1>8, <3>1 DEF KidsOf
    <3>3. x \in KidsOf(O, HostRoot) <=> x \in KidsOf(W, HostRoot)
      BY <1>10
    <3> QED
      BY <1>10, <3>2, <3>3
  <2> QED
    BY <2>1, <2>2
<1>12. Under(O, HostRoot) = DOMAIN O
  BY <1>9, BelowHost
<1>13. Under(W, HostRoot) \cap DOMAIN P \subseteq Under(O, HostRoot)
  BY <1>12 DEF O
<1>14. Going(O, W, HostRoot, no, yes, was, changes)
  BY ONLY <1>3, <1>6, <1>7, <1>11, AllGoing
<1>15. Passes(P, Patches(old, new), no)
  BY <1>7, <1>13, <1>14 DEF Going
<1> QED
  BY <1>5, <1>15 DEF Passes, Admitted

\* A batch that is admitted does not fail half-way, unless a text tears.
LEMMA RenderWhole ==
  ASSUME NEW old \in PageTrees \cup {NoTree}, NEW new \in PageTrees,
         NEW loose, NEW P, ShowsTree(P, old, TRUE, TRUE, loose), ~Tears(old, new),
         Admitted(P, Patches(old, new))
  PROVE  After(P, Patches(old, new), TRUE).whole
PROOF
<1> DEFINE O == Expected(old)
           W == Expected(new)
           K == KeptPage(old, new)
           was == loose \cup {HostRoot}
           is == LooseAfter(old, new, loose) \cup {HostRoot}
           no == FALSE
           yes == TRUE
           L == Patches(old, new)
<1>1. PICK g, h, created, changes : Rendering(old, new, g, h, created, changes)
  BY SomethingRendered
<1>2. ShowsTree(P, old, no, yes, loose) /\ ShowsTree(P, old, yes, yes, loose)
  BY ShowsLess
<1>3. L \in Seq(PagePatches) /\ SoundPage(P) /\ no \in BOOLEAN /\ yes \in BOOLEAN
  BY PatchesTyped DEF ShowsTree, ReadyPage
<1>4. After(P, L, no).whole
  BY DEF Admitted
<1>5. (yes /\ no => ~Tears(old, new)) /\ (yes /\ yes => ~Tears(old, new))
  OBVIOUS
<1> HIDE DEF no, yes
<1>6. Setting(O, W, g, h, K, no, yes, was, is, created, changes)
  <2>1. /\ old \in PageTrees \cup {NoTree} /\ new \in PageTrees
        /\ Rendering(old, new, g, h, created, changes)
        /\ no \in BOOLEAN /\ yes \in BOOLEAN /\ (yes /\ no => ~Tears(old, new))
    BY <1>1, <1>3, <1>5
  <2> QED
    BY ONLY <2>1, RenderSetting
<1>7. Setting(O, W, g, h, K, yes, yes, was, is, created, changes)
  BY <1>1, <1>3, <1>5, RenderSetting
<1>8. /\ L = changes[HostRoot] /\ HostRoot \in K
      /\ ReadyPage(P, O, HostRoot, no, yes, was) /\ ReadyPage(P, O, HostRoot, yes, yes, was)
  BY <1>1, <1>2 DEF Rendering, KeptPage, ShowsTree
<1> HIDE DEF O, W, K, was, is, L
<1>9. LeadsTo(P, L, no, After(P, L, no).page)
  BY <1>3, <1>4, WholeIs
<1>10. /\ Twice(O, W, g, h, K, was, is, created, changes)
       /\ BothReady(P, P, O, HostRoot, was) /\ LeadsTo(P, changes[HostRoot], FALSE, After(P, L, no).page)
  BY <1>6, <1>7, <1>8, <1>9 DEF Twice, BothReady, no, yes
<1>11. \A id \in K : Paired(O, W, id, was, is, changes)
  BY ONLY <1>10, AllPaired
<1>12. Passes(P, L, TRUE)
  BY <1>8, <1>10, <1>11 DEF Paired
<1>13. PICK Q : LeadsTo(P, L, TRUE, Q)
  BY <1>12 DEF Passes
<1>14. After(P, L, TRUE).whole
  BY <1>13, OutcomeIs DEF LeadsTo
<1> QED
  BY <1>14 DEF L

\* No render creates or removes what it keeps.
LEMMA RenderSpares ==
  ASSUME NEW old \in PageTrees \cup {NoTree}, NEW new \in PageTrees
  PROVE  Spares(Patches(old, new), KeptNodes(old, new))
PROOF
<1>1. PICK g, h, created, changes : Rendering(old, new, g, h, created, changes)
  BY SomethingRendered
<1>2. KeepsNodes(Expected(old), Expected(new), KeptPage(old, new))
  BY KeptKeeps
<1>3. HostRoot \in KeptPage(old, new) /\ KeptNodes(old, new) \subseteq KeptPage(old, new)
  BY DEF KeptPage
<1>4. \A id \in KeptPage(old, new) : Spares(changes[id], KeptPage(old, new))
  BY <1>1, <1>2, AllSpared DEF Rendering
<1> QED
  BY <1>1, <1>3, <1>4 DEF Rendering, Spares
(* The page shows what was rendered. *)

\* The page has the last tree as long as no render failed half-way; as long as no text
\* took anything away, it has nothing else.
PageInv ==
  /\ PageSound
  /\ harm # "broken" => ShowsTree(page, shown, TRUE, FALSE, displaced)
  /\ harm = "none" =>
       ShowsTree(page, shown, TRUE, TRUE, displaced) /\ DOMAIN page = DOMAIN Expected(shown)

\* At first the page has the element of the host alone.
LEMMA PageInvInit ==
  PageInit => PageInv
PROOF
<1> SUFFICES ASSUME PageInit PROVE PageInv
  OBVIOUS
<1> DEFINE E == Expected(NoTree)
<1>1. PageSound
  BY PageSoundInit
<1>2. PICK g : PageTree(E, g)
  BY NoTreeBuilt
<1>3. page = E /\ shown = NoTree
  BY DEF PageInit, Expected
<1>4. Under(E, HostRoot) = DOMAIN E /\ SoundPage(E)
  BY <1>2, BelowHost DEF PageTree
<1> HIDE DEF E
<1>5. ReadyPage(page, E, HostRoot, TRUE, TRUE, displaced \cup {HostRoot})
  BY <1>3, <1>4 DEF ReadyPage, LikeNode
<1>6. ShowsTree(page, shown, TRUE, TRUE, displaced) /\ DOMAIN page = DOMAIN Expected(shown)
  BY <1>3, <1>5 DEF ShowsTree, E
<1>7. ShowsTree(page, shown, TRUE, FALSE, displaced)
  BY <1>6, ShowsLess
<1> QED
  BY <1>1, <1>6, <1>7 DEF PageInv

\* No render breaks this.
LEMMA PageInvStep ==
  PageInv /\ [PageNext]_pageVars => PageInv'
PROOF
<1> SUFFICES ASSUME PageInv, [PageNext]_pageVars PROVE PageInv'
  OBVIOUS
<1>1. PageSound'
  BY PageSoundStep DEF PageInv
<1>2. CASE UNCHANGED pageVars
  BY <1>1, <1>2 DEF PageInv, pageVars, ShowsTree
<1>3. ASSUME NEW new \in PageTrees, RenderPage(new) PROVE PageInv'
  <2> DEFINE L == Patches(shown, new)
             after == After(page, L, TRUE)
             kept == KeptNodes(shown, new)
             no == FALSE
             yes == TRUE
  <2>1. shown \in PageTrees \cup {NoTree} /\ SoundPage(page) /\ yes \in BOOLEAN /\ no \in BOOLEAN
    BY DEF PageInv, PageSound
  <2>2. L \in Seq(PagePatches)
    BY <2>1, PatchesTyped
  <2>3. CASE ~Admitted(page, L)
    <3>1. UNCHANGED <<shown, page, displaced, harm>>
      BY <1>3, <2>3 DEF RenderPage
    <3> QED
      BY <1>1, <3>1 DEF PageInv, ShowsTree
  <2>4. CASE Admitted(page, L)
    <3>1. /\ page' = after.page
          /\ shown' = IF after.whole THEN new ELSE shown
          /\ harm' = IF ~after.whole THEN "broken"
                     ELSE IF harm = "none" /\ Tears(shown, new) THEN "torn" ELSE harm
          /\ displaced' = LooseAfter(shown, new, displaced)
      BY <1>3, <2>4 DEF RenderPage, LooseAfter
    <3>2. after.whole => LeadsTo(page, L, yes, after.page)
      BY <2>1, <2>2, WholeIs
    <3> HIDE DEF L, no, yes, after
    <3>3. CASE ~after.whole
      BY <1>1, <3>1, <3>3 DEF PageInv
    <3>4. CASE after.whole
      <4>1. page' = after.page /\ shown' = new /\ displaced' = LooseAfter(shown, new, displaced)
        BY <3>1, <3>4
      <4>2. ASSUME harm' # "broken" PROVE ShowsTree(after.page, new, yes, no, LooseAfter(shown, new, displaced))
        <5>1. ShowsTree(page, shown, yes, no, displaced)
          BY <3>1, <3>4, <4>2 DEF PageInv, yes, no
        <5>2. /\ shown \in PageTrees \cup {NoTree} /\ new \in PageTrees /\ yes \in BOOLEAN /\ no \in BOOLEAN
              /\ (no /\ yes => ~Tears(shown, new)) /\ ShowsTree(page, shown, yes, no, displaced)
              /\ LeadsTo(page, Patches(shown, new), yes, after.page)
          BY <2>1, <3>2, <3>4, <5>1 DEF no, L
        <5> QED
          BY ONLY <5>2, RenderLeads
      <4>3. ASSUME harm' = "none"
            PROVE  /\ ShowsTree(after.page, new, yes, yes, LooseAfter(shown, new, displaced))
                   /\ DOMAIN after.page = DOMAIN Expected(new)
        <5>1. harm = "none" /\ ~Tears(shown, new)
          BY <3>1, <3>4, <4>3
        <5>2. ShowsTree(page, shown, yes, yes, displaced) /\ DOMAIN page = DOMAIN Expected(shown)
          BY <5>1 DEF PageInv, yes
        <5>3. /\ shown \in PageTrees \cup {NoTree} /\ new \in PageTrees /\ yes \in BOOLEAN
              /\ (yes /\ yes => ~Tears(shown, new)) /\ ShowsTree(page, shown, yes, yes, displaced)
              /\ LeadsTo(page, Patches(shown, new), yes, after.page)
          BY <2>1, <3>2, <3>4, <5>1, <5>2 DEF L
        <5>4. /\ ShowsTree(after.page, new, yes, yes, LooseAfter(shown, new, displaced))
              /\ yes /\ DOMAIN page = DOMAIN Expected(shown) => DOMAIN after.page = DOMAIN Expected(new)
          BY ONLY <5>3, RenderLeads
        <5> QED
          BY <5>2, <5>4 DEF yes
      <4> QED
        BY <1>1, <4>1, <4>2, <4>3 DEF PageInv, yes, no
    <3> QED
      BY <3>3, <3>4
  <2> QED
    BY <2>3, <2>4
<1> QED
  BY <1>2, <1>3 DEF PageNext

\* A list without repetitions is one of those of its set.
LEMMA ListedSet ==
  ASSUME NEW X, NEW s \in Seq(X), Distinct(s)
  PROVE  s \in SetToSeqs(ToSet(s))
PROOF
<1>1. Cardinality(ToSet(s)) = Len(s)
  BY DistinctLength
<1>2. s \in [1..Len(s) -> ToSet(s)]
  BY DEF ToSet
<1> QED
  BY <1>1, <1>2 DEF SetToSeqs, Distinct

\* Two lists of one element.
LEMMA OneListed ==
  ASSUME NEW X, NEW s \in Seq(X), NEW t \in Seq(X), Distinct(s), Distinct(t), ToSet(s) = ToSet(t),
         Len(t) <= 1
  PROVE  s = t
PROOF
<1>1. Len(s) = Len(t)
  BY SameLength
<1>2. \A i \in 1..Len(s) : s[i] = t[i]
  <2> SUFFICES ASSUME NEW i \in 1..Len(s) PROVE s[i] = t[i]
    OBVIOUS
  <2>1. i = 1 /\ Len(t) = 1 /\ s[i] \in ToSet(s)
    BY <1>1 DEF ToSet
  <2>2. PICK j \in DOMAIN t : t[j] = s[i]
    BY <2>1 DEF ToSet
  <2>3. j = 1
    BY <2>1, <2>2
  <2> QED
    BY <2>1, <2>2, <2>3
<1> QED
  BY <1>1, <1>2

\* From this follows what is shown,
LEMMA PageInvShows ==
  PageInv => PageShowsNodes
PROOF
<1> SUFFICES ASSUME PageInv PROVE PageShowsNodes
  OBVIOUS
<1> DEFINE E == Expected(shown)
           loose == displaced \cup {HostRoot}
<1>1. /\ shown \in PageTrees \cup {NoTree} /\ SoundPage(page) /\ displaced \subseteq PageIds
      /\ HostRoot \notin displaced
  BY PageAssumption DEF PageInv, PageSound
<1>2. PICK g : PageTree(E, g)
  BY <1>1, ShownTree
<1>3. TreeOf(E, shown) /\ \A id \in DOMAIN shown : shown[id] = E[id]
  BY <1>1, ShownTree
<1>4. DOMAIN shown = DOMAIN E \ {HostRoot}
  BY <1>1, ShownTree
<1>5. Under(E, HostRoot) = DOMAIN E /\ SoundPage(E)
  BY <1>2, BelowHost DEF PageTree
<1>6. harm # "broken" => \A id \in DOMAIN E : LikeNode(page, E, id, TRUE, FALSE, loose)
  BY <1>5 DEF PageInv, ShowsTree, ReadyPage
<1>7. harm = "none" =>
        DOMAIN page = DOMAIN E /\ \A id \in DOMAIN E : LikeNode(page, E, id, TRUE, TRUE, loose)
  BY <1>5 DEF PageInv, ShowsTree, ReadyPage
<1>8. E[HostRoot].kids = <<>> \/ \E q : E[HostRoot].kids = <<q>>
  BY <1>3 DEF TreeOf, RootedTree
<1> HIDE DEF E
<1>9. harm # "broken" =>
        \A id \in DOMAIN E : id \in DOMAIN page /\ page[id].tag = E[id].tag /\ page[id].text = E[id].text
  BY <1>6 DEF LikeNode
<1>10. ASSUME harm = "none", NEW id \in DOMAIN page
       PROVE  IF id \in displaced THEN page[id].kids \in SetToSeqs(KidsOf(shown, id))
              ELSE page[id].kids = E[id].kids
  <2>1. id \in DOMAIN E /\ KidsOf(page, id) = KidsOf(E, id) /\ (id \notin loose => page[id].kids = E[id].kids)
    <3>1. id \in DOMAIN E
      BY <1>7, <1>10
    <3>2. LikeNode(page, E, id, TRUE, TRUE, loose)
      BY <1>7, <1>10, <3>1
    <3> HIDE DEF loose
    <3>3. /\ KidsOf(page, id) \subseteq KidsOf(E, id) /\ KidsOf(E, id) \subseteq KidsOf(page, id)
          /\ (id \notin loose => page[id].kids = E[id].kids)
      BY <3>2 DEF LikeNode
    <3> QED
      BY <3>1, <3>3
  <2>2. /\ page[id].kids \in Seq(PageIds) /\ Distinct(page[id].kids) /\ KidsOf(page, id) = ToSet(page[id].kids)
        /\ E[id].kids \in Seq(PageIds) /\ Distinct(E[id].kids) /\ KidsOf(E, id) = ToSet(E[id].kids)
    BY <1>1, <1>5, <2>1, SoundRow
  <2>3. CASE id \in displaced
    <3>1. KidsOf(shown, id) = KidsOf(page, id)
      BY <1>1, <1>3, <1>4, <2>1, <2>3 DEF KidsOf
    <3>2. page[id].kids \in SetToSeqs(ToSet(page[id].kids))
      BY <2>2, ListedSet
    <3> QED
      BY <2>2, <2>3, <3>1, <3>2
  <2>4. CASE id = HostRoot
    <3>1. Len(E[id].kids) <= 1
      <4>1. CASE E[HostRoot].kids = <<>>
        BY <2>4, <4>1
      <4>2. ASSUME NEW q, E[HostRoot].kids = <<q>> PROVE Len(E[id].kids) <= 1
        <5>1. Len(<<q>>) = 1
          OBVIOUS
        <5> QED
          BY <2>4, <4>2, <5>1
      <4> QED
        BY <1>8, <4>1, <4>2
    <3>2. page[id].kids = E[id].kids
      BY <2>1, <2>2, <3>1, OneListed
    <3> QED
      BY <1>1, <2>4, <3>2
  <2>5. CASE id \notin loose
    BY <2>1, <2>5
  <2> QED
    BY <2>3, <2>4, <2>5
<1> QED
  BY <1>7, <1>9, <1>10 DEF PageShowsNodes, E

\* and what every next render does.
LEMMA PageInvKeeps ==
  PageInv => RendersKeepNodes
PROOF
<1> SUFFICES ASSUME PageInv, NEW new \in PageTrees
             PROVE  LET patches == Patches(shown, new)
                        kept    == KeptNodes(shown, new)
                        parents(tree, id) == {p \in DOMAIN tree : id \in KidsOf(tree, p)}
                    IN  /\ harm = "none" =>
                             /\ \/ Admitted(page, patches)
                                \/ \E id \in DOMAIN shown \cap DOMAIN new : parents(shown, id) # parents(new, id)
                             /\ Admitted(page, patches) => After(page, patches, TRUE).whole \/ Tears(shown, new)
                        /\ \A i \in DOMAIN patches :
                             patches[i].kind \in {"create", "remove"} => patches[i].target \notin kept
  BY DEF RendersKeepNodes
<1> DEFINE L == Patches(shown, new)
<1>1. shown \in PageTrees \cup {NoTree}
  BY DEF PageInv, PageSound
<1>2. L \in Seq(PagePatches) /\ Spares(L, KeptNodes(shown, new))
  BY <1>1, PatchesTyped, RenderSpares
<1>3. ASSUME NEW i \in DOMAIN L, L[i].kind \in {"create", "remove"} PROVE L[i].target \notin KeptNodes(shown, new)
  BY <1>2, <1>3 DEF Spares, ToSet
<1>4. ASSUME harm = "none",
             \A id \in DOMAIN shown \cap DOMAIN new :
               {p \in DOMAIN shown : id \in KidsOf(shown, p)} = {p \in DOMAIN new : id \in KidsOf(new, p)}
      PROVE  Admitted(page, L)
  <2>1. ShowsTree(page, shown, TRUE, TRUE, displaced) /\ DOMAIN page = DOMAIN Expected(shown)
    BY <1>4 DEF PageInv
  <2> QED
    BY <1>1, <1>4, <2>1, RenderAdmitted
<1>5. ASSUME harm = "none", Admitted(page, L), ~Tears(shown, new) PROVE After(page, L, TRUE).whole
  <2>1. ShowsTree(page, shown, TRUE, TRUE, displaced)
    BY <1>5 DEF PageInv
  <2> QED
    BY <1>1, <1>5, <2>1, RenderWhole
<1> QED
  BY <1>3, <1>4, <1>5

\* The page shows the nodes of the last tree, and renders keep the nodes that they can.
THEOREM PageHeld == PageSpec => []PageHolds
PROOF
<1>1. PageInit => PageInv
  BY PageInvInit
<1>2. PageInv /\ [PageNext]_pageVars => PageInv'
  BY PageInvStep
<1>3. PageInv => PageHolds
  BY PageInvShows, PageInvKeeps DEF PageHolds
<1> QED
  BY <1>1, <1>2, <1>3, PTL DEF PageSpec
=============================================================================
