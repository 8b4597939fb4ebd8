-------------------------- MODULE ExecSessionProofs --------------------------
(***************************************************************************)
(* Proofs about ExecSession, for any characters, programs, line caps and   *)
(* requests: the recorder's buffer is bounded, the log is the output, the  *)
(* record is what the client got, the status comes last and nothing of a   *)
(* session is left behind.  They rest on an invariant that says for every  *)
(* stage of a session what runs, what is in the copiers' hands and what was*)
(* recorded, and on induction over text, by which the recorder's loops are *)
(* shown to keep every visible character.                                  *)
(***************************************************************************)
EXTENDS ExecSession, WellFoundedInduction, SequenceTheorems, TLAPS

-----------------------------------------------------------------------------
(* Induction *)

\* Induction, for a set in the place of a predicate: there is no least natural
\* number outside S.
LEMMA SetInduction ==
    ASSUME NEW S, 0 \in S, \A n \in Nat : n \in S => n + 1 \in S
    PROVE  Nat \subseteq S
<1> DEFINE T == Nat \ S
           R == {p \in Nat \X Nat : p[1] < p[2]}
<1> SUFFICES ASSUME T # {} PROVE FALSE
  OBVIOUS
<1>1. IsWellFoundedOn(R, Nat)
  BY NatLessThanWellFounded, Zenon DEF OpToRel
<1>2. PICK n \in T : \A m \in T : <<m, n>> \notin R
  <2> HIDE DEF R
  <2> QED
    BY <1>1, WFMin, Zenon
<1>3. n \in Nat /\ n # 0
  OBVIOUS
<1>4. n - 1 \in Nat /\ <<n - 1, n>> \in R
  BY <1>3
<1>5. n - 1 \in S
  BY <1>2, <1>4
<1> QED
  BY <1>3, <1>4, <1>5

\* Induction up to a bound.
LEMMA BoundedInduction ==
    ASSUME NEW n \in Nat, NEW S, 0 \in S, \A i \in 0 .. (n - 1) : i \in S => i + 1 \in S
    PROVE  0 .. n \subseteq S
<1> DEFINE T == {i \in Nat : i \in S \/ i > n}
<1>1. 0 \in T
  OBVIOUS
<1>2. \A i \in Nat : i \in T => i + 1 \in T
  OBVIOUS
<1>3. Nat \subseteq T
  <2> HIDE DEF T
  <2> QED
    BY <1>1, <1>2, SetInduction
<1> QED
  BY <1>3

\* g starts with a, and step takes each value and its index to the next value.
Iterates(g, n, a, step) == g = [i \in 0 .. n |-> IF i = 0 THEN a ELSE step[<<g[i - 1], i>>]]

\* A function that is to satisfy a recursion exists.
LEMMA RecursionExists ==
    ASSUME NEW n \in Nat, NEW A, NEW a \in A, NEW step \in [A \X (1 .. n) -> A]
    PROVE  \E g \in [0 .. n -> A] : Iterates(g, n, a, step)
<1> DEFINE Solves(g, m) == Iterates(g, m, a, step)
           S == {m \in 0 .. n : \E g \in [0 .. m -> A] : Solves(g, m)}
<1>1. 0 \in S
  <2> DEFINE g == [i \in 0 .. 0 |-> a]
  <2>1. g \in [0 .. 0 -> A] /\ Solves(g, 0)
    BY DEF Iterates
  <2> HIDE DEF g, Solves
  <2> QED
    BY <2>1
<1>2. ASSUME NEW m \in 0 .. (n - 1), m \in S PROVE m + 1 \in S
  <2>1. PICK g \in [0 .. m -> A] : Solves(g, m)
    BY <1>2
  <2> DEFINE f == [i \in 0 .. (m + 1) |-> IF i = m + 1 THEN step[<<g[m], m + 1>>] ELSE g[i]]
  <2>2. m \in 0 .. m /\ m + 1 \in 1 .. n /\ g[m] \in A
    OBVIOUS
  <2>3. step[<<g[m], m + 1>>] \in A
    BY <2>2
  <2>4. f \in [0 .. (m + 1) -> A]
    BY <2>3
  <2>5. \A i \in 0 .. (m + 1) : f[i] = IF i = 0 THEN a ELSE step[<<f[i - 1], i>>]
    <3> TAKE i \in 0 .. (m + 1)
    <3>1. CASE i = m + 1
      <4>1. f[i] = step[<<g[m], m + 1>>] /\ f[m] = g[m]
        BY <3>1
      <4>2. i # 0 /\ i - 1 = m
        BY <3>1
      <4> HIDE DEF f
      <4> QED
        BY <3>1, <4>1, <4>2
    <3>2. CASE i # m + 1
      <4>1. i \in 0 .. m /\ f[i] = g[i] /\ (i # 0 => f[i - 1] = g[i - 1])
        BY <3>2
      <4>2. g[i] = IF i = 0 THEN a ELSE step[<<g[i - 1], i>>]
        BY <2>1, <4>1 DEF Iterates
      <4> QED
        BY <4>1, <4>2, Zenon
    <3> QED
      BY <3>1, <3>2
  <2>6. Solves(f, m + 1)
    <3> HIDE DEF f
    <3> QED
      BY <2>4, <2>5 DEF Iterates
  <2> HIDE DEF f, Solves
  <2> QED
    BY <2>4, <2>6
<1>3. n \in S
  <2> HIDE DEF S
  <2>1. 0 .. n \subseteq S
    BY <1>1, <1>2, BoundedInduction
  <2> QED
    BY <2>1
<1> QED
  BY <1>3

\* Induction over sequences.
LEMMA SequenceInduction ==
    ASSUME NEW A, NEW T, <<>> \in T,
           \A s \in Seq(A), x \in A : s \in T => Append(s, x) \in T
    PROVE  Seq(A) \subseteq T
<1> DEFINE N == {n \in Nat : \A s \in Seq(A) : Len(s) = n => s \in T}
<1>1. 0 \in N
  BY EmptySeq
<1>2. ASSUME NEW n \in Nat, n \in N PROVE n + 1 \in N
  <2> SUFFICES ASSUME NEW s \in Seq(A), Len(s) = n + 1 PROVE s \in T
    OBVIOUS
  <2>1. s # <<>>
    BY EmptySeq
  <2>2. PICK t \in Seq(A), x \in A : s = Append(t, x)
    BY <2>1, SequenceEmptyOrAppend
  <2>3. Len(t) = n
    BY <2>2, AppendProperties
  <2> QED
    BY <1>2, <2>2, <2>3
<1>3. Nat \subseteq N
  <2> HIDE DEF N
  <2> QED
    BY <1>1, <1>2, SetInduction
<1> QED
  BY <1>3, LenProperties

\* Two loops that go alike agree.
LEMMA SameLoop ==
    ASSUME NEW n \in Nat, NEW f, NEW g, f[0] = g[0],
           \A i \in 0 .. (n - 1) : f[i] = g[i] => f[i + 1] = g[i + 1]
    PROVE  f[n] = g[n]
<1> DEFINE T == {i \in 0 .. n : f[i] = g[i]}
<1>1. 0 \in T
  OBVIOUS
<1>2. \A i \in 0 .. (n - 1) : i \in T => i + 1 \in T
  OBVIOUS
<1>3. 0 .. n \subseteq T
  <2> HIDE DEF T
  <2> QED
    BY <1>1, <1>2, BoundedInduction
<1> QED
  BY <1>3

-----------------------------------------------------------------------------
(* Subsequences *)

\* The loop of Only is well defined: it satisfies its equation.
LEMMA OnlyRecursion ==
    ASSUME NEW A, NEW s \in Seq(A), NEW S
    PROVE  /\ OnlyUpTo(s, S) \in [0 .. Len(s) -> Seq(A)]
           /\ OnlyUpTo(s, S)[0] = <<>>
           /\ \A i \in 1 .. Len(s) :
                 OnlyUpTo(s, S)[i] = IF s[i] \in S THEN Append(OnlyUpTo(s, S)[i - 1], s[i])
                                                  ELSE OnlyUpTo(s, S)[i - 1]
<1> DEFINE n == Len(s)
           B == Seq(A)
           none == <<>>
           f == OnlyUpTo(s, S)
           next(x, i) == IF s[i] \in S THEN Append(x, s[i]) ELSE x
           step == [p \in B \X (1 .. n) |-> next(p[1], p[2])]
<1>1. n \in Nat /\ none \in B
  OBVIOUS
<1>2. \A x \in B, i \in 1 .. n : next(x, i) \in B
  OBVIOUS
<1>3. OnlyUpTo(s, S) = CHOOSE k : k = [i \in 0 .. n |-> IF i = 0 THEN none ELSE next(k[i - 1], i)]
  BY DEF OnlyUpTo
<1> HIDE DEF n, B, none, f, next
<1>4. step \in [B \X (1 .. n) -> B]
  BY <1>2
<1>5. \A x \in B, i \in 1 .. n : step[<<x, i>>] = next(x, i)
  OBVIOUS
<1> HIDE DEF step
<1>6. PICK g \in [0 .. n -> B] : Iterates(g, n, none, step)
  BY <1>1, <1>4, RecursionExists, Zenon
<1>7. \A i \in 0 .. n : i # 0 => i \in 1 .. n /\ i - 1 \in 0 .. n
  BY <1>1
<1>8. g = [i \in 0 .. n |-> IF i = 0 THEN none ELSE next(g[i - 1], i)]
  BY <1>5, <1>6, <1>7 DEF Iterates
<1>9. f = [i \in 0 .. n |-> IF i = 0 THEN none ELSE next(f[i - 1], i)]
  BY <1>3, <1>8, Zenon DEF f
<1>10. f[0] = none /\ \A i \in 1 .. n : f[i] = next(f[i - 1], i)
  BY <1>1, <1>9
<1>11. \A i \in 0 .. n : f[i] \in B
  <2> DEFINE T == {i \in 0 .. n : f[i] \in B}
  <2>1. 0 \in T
    BY <1>1, <1>10
  <2>2. ASSUME NEW i \in 0 .. (n - 1), i \in T PROVE i + 1 \in T
    <3>1. i + 1 \in 1 .. n /\ (i + 1) - 1 = i
      BY <1>1
    <3>2. f[i + 1] = next(f[i], i + 1)
      BY <1>10, <3>1
    <3> QED
      BY <1>1, <1>2, <2>2, <3>1, <3>2
  <2>3. 0 .. n \subseteq T
    <3> HIDE DEF T
    <3> QED
      BY <1>1, <2>1, <2>2, BoundedInduction, Zenon
  <2> QED
    BY <2>3
<1>12. f \in [0 .. n -> B]
  BY <1>9, <1>11
<1> QED
  BY <1>10, <1>12 DEF f, n, B, none, next

\* Nothing is left of nothing.
LEMMA OnlyEmpty == \A S : Only(<<>>, S) = <<>>
<1> TAKE S
<1> DEFINE e == <<>>
<1>1. e \in Seq(Char)
  BY EmptySeq
<1>2. Len(e) = 0
  BY EmptySeq
<1> HIDE DEF e
<1>3. OnlyUpTo(e, S)[0] = <<>>
  BY <1>1, OnlyRecursion
<1> QED
  BY <1>2, <1>3 DEF Only, e

\* A subsequence is a sequence of the same things.
LEMMA OnlyType ==
    ASSUME NEW A, NEW s \in Seq(A), NEW S
    PROVE  Only(s, S) \in Seq(A)
<1>1. Len(s) \in 0 .. Len(s)
  BY LenProperties
<1> QED
  BY <1>1, OnlyRecursion DEF Only

\* One more element is kept or dropped, whatever came before it.
LEMMA OnlyAppend ==
    ASSUME NEW A, NEW s \in Seq(A), NEW x \in A, NEW S
    PROVE  Only(Append(s, x), S) = IF x \in S THEN Append(Only(s, S), x) ELSE Only(s, S)
<1> DEFINE t == Append(s, x)
           f == OnlyUpTo(t, S)
           g == OnlyUpTo(s, S)
           n == Len(s)
<1>1. n \in Nat /\ t \in Seq(A) /\ Len(t) = n + 1 /\ t[n + 1] = x
      /\ \A i \in 1 .. n : t[i] = s[i]
  BY AppendProperties, LenProperties
<1> HIDE DEF t
<1>2. f[0] = <<>> /\ g[0] = <<>>
  BY <1>1, OnlyRecursion
<1>3. \A i \in 1 .. (n + 1) : f[i] = IF t[i] \in S THEN Append(f[i - 1], t[i]) ELSE f[i - 1]
  BY <1>1, OnlyRecursion
<1>4. \A i \in 1 .. n : g[i] = IF s[i] \in S THEN Append(g[i - 1], s[i]) ELSE g[i - 1]
  BY <1>1, OnlyRecursion
<1>5. Only(t, S) = f[n + 1] /\ Only(s, S) = g[n]
  BY <1>1 DEF Only
<1> HIDE DEF f, g, n
<1>6. ASSUME NEW i \in 0 .. (n - 1), f[i] = g[i] PROVE f[i + 1] = g[i + 1]
  <2>1. i + 1 \in 1 .. n /\ i + 1 \in 1 .. (n + 1) /\ (i + 1) - 1 = i
    BY <1>1
  <2> QED
    BY <1>1, <1>3, <1>4, <1>6, <2>1
<1>7. f[n] = g[n]
  <2>1. n \in Nat /\ f[0] = g[0]
    BY <1>1, <1>2
  <2>2. \A i \in 0 .. (n - 1) : f[i] = g[i] => f[i + 1] = g[i + 1]
    BY <1>6
  <2> QED
    BY <2>1, <2>2, SameLoop
<1>8. n + 1 \in 1 .. (n + 1) /\ (n + 1) - 1 = n
  BY <1>1
<1> QED
  BY <1>1, <1>3, <1>5, <1>7, <1>8 DEF t

\* Selecting commutes with concatenation; induction on the second part.
LEMMA OnlyConcat ==
    ASSUME NEW A, NEW s \in Seq(A), NEW S
    PROVE  \A t \in Seq(A) : Only(s \o t, S) = Only(s, S) \o Only(t, S)
<1> DEFINE T == {t \in Seq(A) : Only(s \o t, S) = Only(s, S) \o Only(t, S)}
<1>1. <<>> \in T
  <2>1. <<>> \in Seq(A) /\ s \o <<>> = s /\ Only(s, S) \o <<>> = Only(s, S)
    BY EmptySeq, ConcatEmptySeq, OnlyType
  <2> QED
    BY <2>1, OnlyEmpty, Zenon
<1>2. ASSUME NEW t \in Seq(A), NEW x \in A, t \in T PROVE Append(t, x) \in T
  <2>1. s \o Append(t, x) = Append(s \o t, x) /\ Append(t, x) \in Seq(A) /\ s \o t \in Seq(A)
    OBVIOUS
  <2>2. Only(s, S) \in Seq(A) /\ Only(t, S) \in Seq(A)
    BY OnlyType
  <2> DEFINE a == Only(s, S)
             b == Only(t, S)
  <2>3. a \o Append(b, x) = Append(a \o b, x)
    <3> HIDE DEF a, b
    <3> QED
      BY <2>2 DEF a, b
  <2> DEFINE c == s \o t
  <2>4. Only(s \o Append(t, x), S) = IF x \in S THEN Append(a \o b, x) ELSE a \o b
    <3>1. Only(c, S) = a \o b /\ c \in Seq(A) /\ s \o Append(t, x) = Append(c, x)
      BY <1>2, <2>1
    <3> HIDE DEF a, b, c
    <3>2. Only(Append(c, x), S) = IF x \in S THEN Append(Only(c, S), x) ELSE Only(c, S)
      BY <3>1, OnlyAppend, Zenon
    <3> QED
      BY <3>1, <3>2
  <2>5. Only(Append(t, x), S) = IF x \in S THEN Append(b, x) ELSE b
    BY OnlyAppend
  <2> QED
    BY <2>1, <2>3, <2>4, <2>5, Zenon
<1>3. Seq(A) \subseteq T
  <2> HIDE DEF T
  <2> QED
    BY <1>1, <1>2, SequenceInduction
<1> QED
  BY <1>3

\* Nothing is kept of a text that has none of the letters.
LEMMA OnlyNone ==
    ASSUME NEW A, NEW S, A \cap S = {}
    PROVE  \A s \in Seq(A) : Only(s, S) = <<>>
<1> DEFINE T == {s \in Seq(A) : Only(s, S) = <<>>}
<1>1. <<>> \in T
  BY OnlyEmpty, EmptySeq
<1>2. ASSUME NEW s \in Seq(A), NEW x \in A, s \in T PROVE Append(s, x) \in T
  BY <1>2, OnlyAppend, AppendProperties
<1>3. Seq(A) \subseteq T
  <2> HIDE DEF T
  <2> QED
    BY <1>1, <1>2, SequenceInduction
<1> QED
  BY <1>3
-----------------------------------------------------------------------------
(* The recorder *)

\* Joined is well defined: each line is put behind the ones before it.
LEMMA JoinedRecursion ==
    ASSUME NEW lines \in Seq(Seq(Char))
    PROVE  /\ JoinedTo(lines) \in [0 .. Len(lines) -> Seq(Char)]
           /\ JoinedTo(lines)[0] = <<>>
           /\ \A i \in 1 .. Len(lines) : JoinedTo(lines)[i] = JoinedTo(lines)[i - 1] \o lines[i]
<1> DEFINE n == Len(lines)
           B == Seq(Char)
           none == <<>>
           f == JoinedTo(lines)
           next(x, i) == x \o lines[i]
           step == [p \in B \X (1 .. n) |-> next(p[1], p[2])]
<1>1. n \in Nat /\ none \in B
  OBVIOUS
<1>2. \A x \in B, i \in 1 .. n : next(x, i) \in B
  OBVIOUS
<1>3. JoinedTo(lines) = CHOOSE k : k = [i \in 0 .. n |-> IF i = 0 THEN none ELSE next(k[i - 1], i)]
  BY DEF JoinedTo
<1> HIDE DEF n, B, none, f, next
<1>4. step \in [B \X (1 .. n) -> B]
  BY <1>2
<1>5. \A x \in B, i \in 1 .. n : step[<<x, i>>] = next(x, i)
  OBVIOUS
<1> HIDE DEF step
<1>6. PICK g \in [0 .. n -> B] : Iterates(g, n, none, step)
  BY <1>1, <1>4, RecursionExists, Zenon
<1>7. \A i \in 0 .. n : i # 0 => i \in 1 .. n /\ i - 1 \in 0 .. n
  BY <1>1
<1>8. g = [i \in 0 .. n |-> IF i = 0 THEN none ELSE next(g[i - 1], i)]
  BY <1>5, <1>6, <1>7, Zenon DEF Iterates
<1>9. f = [i \in 0 .. n |-> IF i = 0 THEN none ELSE next(f[i - 1], i)]
  BY <1>3, <1>8, Zenon DEF f
<1>10. f[0] = none /\ \A i \in 1 .. n : f[i] = next(f[i - 1], i)
  BY <1>1, <1>9
<1>11. \A i \in 0 .. n : f[i] \in B
  <2> DEFINE T == {i \in 0 .. n : f[i] \in B}
  <2>1. 0 \in T
    BY <1>1, <1>10
  <2>2. ASSUME NEW i \in 0 .. (n - 1), i \in T PROVE i + 1 \in T
    <3>1. i + 1 \in 1 .. n /\ (i + 1) - 1 = i
      BY <1>1
    <3>2. f[i + 1] = next(f[i], i + 1)
      BY <1>10, <3>1
    <3> QED
      BY <1>1, <1>2, <2>2, <3>1, <3>2
  <2>3. 0 .. n \subseteq T
    <3> HIDE DEF T
    <3> QED
      BY <1>1, <2>1, <2>2, BoundedInduction, Zenon
  <2> QED
    BY <2>3
<1>12. f \in [0 .. n -> B]
  BY <1>9, <1>11
<1> QED
  BY <1>10, <1>12, Zenon DEF f, n, B, none, next

\* Joined lines are text.
LEMMA JoinedType ==
    ASSUME NEW lines \in Seq(Seq(Char))
    PROVE  Joined(lines) \in Seq(Char)
<1>1. Len(lines) \in 0 .. Len(lines)
  BY LenProperties
<1> QED
  BY <1>1, JoinedRecursion, Zenon DEF Joined

\* No lines, no text.
LEMMA JoinedEmpty == Joined(<<>>) = <<>>
<1> DEFINE e == <<>>
<1>1. e \in Seq(Seq(Char))
  BY EmptySeq
<1>2. Len(e) = 0
  BY EmptySeq
<1> HIDE DEF e
<1>3. JoinedTo(e)[0] = <<>>
  BY <1>1, JoinedRecursion, Zenon
<1> QED
  BY <1>2, <1>3 DEF Joined, e

\* One more line is put behind the text there is.
LEMMA JoinedAppend ==
    ASSUME NEW lines \in Seq(Seq(Char)), NEW l \in Seq(Char)
    PROVE  Joined(Append(lines, l)) = Joined(lines) \o l
<1> DEFINE t == Append(lines, l)
           f == JoinedTo(t)
           g == JoinedTo(lines)
           n == Len(lines)
<1>1. n \in Nat /\ t \in Seq(Seq(Char)) /\ Len(t) = n + 1 /\ t[n + 1] = l
      /\ \A i \in 1 .. n : t[i] = lines[i]
  BY AppendProperties, LenProperties
<1> HIDE DEF t
<1>2. f[0] = <<>> /\ g[0] = <<>>
  BY <1>1, JoinedRecursion, Zenon
<1>3. \A i \in 1 .. (n + 1) : f[i] = f[i - 1] \o t[i]
  BY <1>1, JoinedRecursion, Zenon
<1>4. \A i \in 1 .. n : g[i] = g[i - 1] \o lines[i]
  BY <1>1, JoinedRecursion, Zenon
<1>5. Joined(t) = f[n + 1] /\ Joined(lines) = g[n]
  BY <1>1 DEF Joined
<1> HIDE DEF f, g, n
<1>6. ASSUME NEW i \in 0 .. (n - 1), f[i] = g[i] PROVE f[i + 1] = g[i + 1]
  <2>1. i + 1 \in 1 .. n /\ i + 1 \in 1 .. (n + 1) /\ (i + 1) - 1 = i
    BY <1>1
  <2>2. f[i + 1] = f[i] \o t[i + 1] /\ g[i + 1] = g[i] \o lines[i + 1]
    BY <1>3, <1>4, <2>1, Zenon
  <2> QED
    BY <1>1, <1>6, <2>1, <2>2, Zenon
<1>7. f[n] = g[n]
  <2>1. n \in Nat /\ f[0] = g[0]
    BY <1>1, <1>2
  <2>2. \A i \in 0 .. (n - 1) : f[i] = g[i] => f[i + 1] = g[i + 1]
    BY <1>6
  <2> QED
    BY <2>1, <2>2, SameLoop
<1>8. n + 1 \in 1 .. (n + 1) /\ (n + 1) - 1 = n
  BY <1>1
<1>9. f[n + 1] = f[n] \o t[n + 1]
  BY <1>3, <1>8, Zenon
<1> QED
  BY <1>1, <1>5, <1>7, <1>9 DEF t

\* A bounded set of numbers has its maximum.
LEMMA MaxExists ==
    ASSUME NEW n \in Nat, NEW M, M \subseteq 0 .. n, 0 \in M
    PROVE  Max(M) \in M /\ \A y \in M : Max(M) >= y
<1> DEFINE T == {k \in 0 .. n : \E x \in M : \A y \in M : y <= k => x >= y}
<1>1. 0 \in T
  OBVIOUS
<1>2. ASSUME NEW k \in 0 .. (n - 1), k \in T PROVE k + 1 \in T
  <2>1. CASE k + 1 \in M
    BY <2>1
  <2>2. CASE k + 1 \notin M
    BY <1>2, <2>2
  <2> QED
    BY <2>1, <2>2
<1>3. 0 .. n \subseteq T
  <2> HIDE DEF T
  <2> QED
    BY <1>1, <1>2, BoundedInduction
<1>4. \E x \in M : \A y \in M : x >= y
  <2>1. n \in T
    <3> HIDE DEF T
    <3> QED
      BY <1>3
  <2>2. PICK x \in M : \A y \in M : y <= n => x >= y
    BY <2>1
  <2> QED
    BY <2>2
<1> QED
  BY <1>4, Zenon DEF Max

\* strings.TrimRight takes off characters of the cutset and no other.
LEMMA TrimRightCuts ==
    ASSUME NEW text \in Seq(Char), NEW cutset
    PROVE  /\ TrimRight(text, cutset) \in Seq(Char)
           /\ \E tail \in Seq(Char \cap cutset) : text = TrimRight(text, cutset) \o tail
<1> DEFINE n == Len(text)
           M == {0} \cup {i \in 1 .. n : text[i] \notin cutset}
           m == Max(M)
           tail == SubSeq(text, m + 1, n)
<1>1. n \in Nat
  BY LenProperties
<1>2. m \in M /\ \A y \in M : m >= y
  <2>1. M \subseteq 0 .. n /\ 0 \in M
    BY <1>1
  <2> HIDE DEF M, n
  <2> QED
    BY <1>1, <2>1, MaxExists, Zenon
<1>3. m \in 0 .. n
  <2> HIDE DEF m
  <2> QED
    BY <1>1, <1>2
<1>4. \A i \in (m + 1) .. n : text[i] \in Char \cap cutset
  <2> HIDE DEF m
  <2> QED
    BY <1>1, <1>2, <1>3
<1>5. TrimRight(text, cutset) = SubSeq(text, 1, m)
  BY DEF TrimRight
<1> HIDE DEF m
<1>6. tail \in Seq(Char \cap cutset)
  BY <1>1, <1>3, <1>4, SubSeqProperties
<1>7. SubSeq(text, 1, m) \in Seq(Char) /\ text = SubSeq(text, 1, m) \o tail
  <2>1. \A i \in 1 .. m : text[i] \in Char
    BY <1>1, <1>3
  <2>2. SubSeq(text, 1, m) \in Seq(Char)
    BY <1>3, <2>1, SubSeqProperties
  <2>3. SubSeq(text, 1, n) = text
    BY SubSeqFull
  <2>4. SubSeq(text, 1, m) \o SubSeq(text, m + 1, n) = SubSeq(text, 1, n)
    <3> DEFINE one == 1
    <3>1. one \in 1 .. Len(text) + 1 /\ m \in one - 1 .. Len(text) /\ n \in m .. Len(text)
      BY <1>1, <1>3
    <3> HIDE DEF n, one
    <3>2. SubSeq(text, one, m) \o SubSeq(text, m + 1, n) = SubSeq(text, one, n)
      BY <3>1, ConcatAdjacentSubSeq
    <3> QED
      BY <3>2, Zenon DEF one
  <2> QED
    BY <2>2, <2>3, <2>4, Zenon
<1> QED
  BY <1>5, <1>6, <1>7, Zenon

\* Concatenation of text, in the form the steps below use it.
LEMMA TextAssociative ==
    \A a, b, c \in Seq(Char) : (a \o b) \o c = a \o (b \o c)
  BY ConcatAssociative

\* Nothing put behind nothing is nothing.
LEMMA EmptyConcat == <<>> \o <<>> = <<>>
<1> DEFINE e == <<>>
<1>1. e \in Seq(Char)
  BY EmptySeq
<1> HIDE DEF e
<1>2. e \o <<>> = e
  BY <1>1, ConcatEmptySeq
<1> QED
  BY <1>2 DEF e

\* What is visible of a text is made up of what is visible of its parts.
LEMMA VisibleConcat ==
    ASSUME NEW s \in Seq(Char), NEW t \in Seq(Char)
    PROVE  /\ Visible(s) \in Seq(Char)
           /\ Visible(s \o t) = Visible(s) \o Visible(t)
<1> DEFINE V == Char \ {"n", "r"}
<1>1. Visible(s) = Only(s, V) /\ Visible(t) = Only(t, V) /\ Visible(s \o t) = Only(s \o t, V)
  BY DEF Visible
<1> HIDE DEF V
<1>2. Only(s, V) \in Seq(Char)
  BY OnlyType
<1>3. Only(s \o t, V) = Only(s, V) \o Only(t, V)
  BY OnlyConcat
<1> QED
  BY <1>1, <1>2, <1>3

\* What is trimmed off a line is not visible.
LEMMA VisibleTrim ==
    ASSUME NEW text \in Seq(Char), NEW cutset, cutset \subseteq {"n", "r"}
    PROVE  Visible(TrimRight(text, cutset)) = Visible(text)
<1> DEFINE t == TrimRight(text, cutset)
           C == Char \cap cutset
<1>1. t \in Seq(Char)
  BY TrimRightCuts, Zenon
<1>2. PICK tail \in Seq(C) : text = t \o tail
  BY TrimRightCuts, Zenon
<1>3. C \cap (Char \ {"n", "r"}) = {} /\ C \subseteq Char
  BY Zenon
<1> HIDE DEF t, C
<1>4. tail \in Seq(Char)
  BY <1>3, SeqMonotonic
<1>5. Visible(tail) = <<>>
  BY <1>3, OnlyNone DEF Visible
<1>6. Visible(text) = Visible(t) \o Visible(tail)
  BY <1>1, <1>2, <1>4, VisibleConcat, Zenon
<1>7. Visible(t) \o <<>> = Visible(t)
  BY <1>1, VisibleConcat, ConcatEmptySeq
<1> QED
  BY <1>5, <1>6, <1>7 DEF t

\* Emit drops line ends only: what is visible of the log grows by what is
\* visible of the line.
LEMMA EmitKeeps ==
    ASSUME NEW lines \in Seq(Seq(Char)), NEW text \in Seq(Char),
           NEW cutset, cutset \subseteq {"n", "r"}
    PROVE  /\ Emit(lines, text, cutset) \in Seq(Seq(Char))
           /\ Visible(Joined(Emit(lines, text, cutset))) = Visible(Joined(lines)) \o Visible(text)
<1> DEFINE t == TrimRight(text, cutset)
           j == Joined(lines)
<1>1. t \in Seq(Char) /\ Visible(t) = Visible(text)
  BY TrimRightCuts, VisibleTrim, Zenon
<1>2. j \in Seq(Char) /\ Visible(j) \in Seq(Char)
  BY JoinedType, VisibleConcat
<1>3. Emit(lines, text, cutset) = IF t = <<>> THEN lines ELSE Append(lines, t)
  BY DEF Emit
<1> HIDE DEF t
<1>4. CASE t = <<>>
  <2>1. Visible(t) = <<>>
    BY <1>4, OnlyEmpty DEF Visible
  <2>2. Visible(j) \o <<>> = Visible(j)
    BY <1>2, ConcatEmptySeq
  <2> QED
    BY <1>1, <1>3, <1>4, <2>1, <2>2, Zenon
<1>5. CASE t # <<>>
  <2>1. Append(lines, t) \in Seq(Seq(Char))
    BY <1>1, AppendProperties
  <2>2. Joined(Append(lines, t)) = j \o t
    BY <1>1, JoinedAppend
  <2>3. Visible(j \o t) = Visible(j) \o Visible(t)
    BY <1>1, <1>2, VisibleConcat, Zenon
  <2> QED
    BY <1>1, <1>3, <1>5, <2>1, <2>2, <2>3, Zenon
<1> QED
  BY <1>4, <1>5

\* What the loop of Write works on: a pending text holds no newline.
Cuts == [lines : Seq(Seq(Char)), pending : Seq(Char \ {"n"})]

CutStep(c, x) ==
    IF x = "n" THEN [lines |-> Emit(c.lines, c.pending, {"r"}), pending |-> <<>>]
    ELSE [c EXCEPT !.pending = Append(@, x)]

\* The loop of Write stays within its types, one character at a time.
LEMMA CutStepType ==
    ASSUME NEW c \in Cuts, NEW x \in Char
    PROVE  CutStep(c, x) \in Cuts
<1>1. c.pending \in Seq(Char) /\ c.lines \in Seq(Seq(Char))
  <2>1. c.pending \in Seq(Char \ {"n"}) /\ c.lines \in Seq(Seq(Char))
    BY DEF Cuts
  <2> QED
    BY <2>1, SeqMonotonic
<1>2. CASE x = "n"
  <2>1. Emit(c.lines, c.pending, {"r"}) \in Seq(Seq(Char))
    BY <1>1, EmitKeeps
  <2> QED
    BY <1>2, <2>1, EmptySeq DEF CutStep, Cuts
<1>3. CASE x # "n"
  <2> DEFINE D == Char \ {"n"}
  <2>1. x \in D /\ c.pending \in Seq(D)
    BY <1>3 DEF Cuts
  <2> HIDE DEF D
  <2>2. Append(c.pending, x) \in Seq(D)
    BY <2>1, AppendProperties
  <2> QED
    BY <1>3, <2>2, Zenon DEF CutStep, Cuts, D
<1> QED
  BY <1>2, <1>3

\* CutTo is well defined: it is that loop.
LEMMA CutRecursion ==
    ASSUME NEW lines \in Seq(Seq(Char)), NEW text \in Seq(Char)
    PROVE  /\ CutTo(lines, text) \in [0 .. Len(text) -> Cuts]
           /\ CutTo(lines, text)[0] = [lines |-> lines, pending |-> <<>>]
           /\ \A i \in 1 .. Len(text) :
                 CutTo(lines, text)[i] = CutStep(CutTo(lines, text)[i - 1], text[i])
<1> DEFINE n == Len(text)
           B == Cuts
           none == [lines |-> lines, pending |-> <<>>]
           f == CutTo(lines, text)
           next(x, i) == CutStep(x, text[i])
           step == [p \in B \X (1 .. n) |-> next(p[1], p[2])]
<1>1. n \in Nat /\ none \in B
  BY EmptySeq, LenProperties DEF Cuts
<1>2. \A x \in B, i \in 1 .. n : next(x, i) \in B
  BY CutStepType
<1>3. CutTo(lines, text) = CHOOSE k : k = [i \in 0 .. n |-> IF i = 0 THEN none ELSE next(k[i - 1], i)]
  BY DEF CutTo, CutStep
<1> HIDE DEF n, B, none, f, next
<1>4. step \in [B \X (1 .. n) -> B]
  BY <1>2
<1>5. \A x \in B, i \in 1 .. n : step[<<x, i>>] = next(x, i)
  OBVIOUS
<1> HIDE DEF step
<1>6. PICK g \in [0 .. n -> B] : Iterates(g, n, none, step)
  BY <1>1, <1>4, RecursionExists, Zenon
<1>7. \A i \in 0 .. n : i # 0 => i \in 1 .. n /\ i - 1 \in 0 .. n
  BY <1>1
<1>8. g = [i \in 0 .. n |-> IF i = 0 THEN none ELSE next(g[i - 1], i)]
  BY <1>5, <1>6, <1>7 DEF Iterates
<1>9. f = [i \in 0 .. n |-> IF i = 0 THEN none ELSE next(f[i - 1], i)]
  BY <1>3, <1>8, Zenon DEF f
<1>10. f[0] = none /\ \A i \in 1 .. n : f[i] = next(f[i - 1], i)
  BY <1>1, <1>9
<1>11. \A i \in 0 .. n : f[i] \in B
  <2> DEFINE T == {i \in 0 .. n : f[i] \in B}
  <2>1. 0 \in T
    BY <1>1, <1>10
  <2>2. ASSUME NEW i \in 0 .. (n - 1), i \in T PROVE i + 1 \in T
    <3>1. i + 1 \in 1 .. n /\ (i + 1) - 1 = i
      BY <1>1
    <3>2. f[i + 1] = next(f[i], i + 1)
      BY <1>10, <3>1
    <3> QED
      BY <1>1, <1>2, <2>2, <3>1, <3>2
  <2>3. 0 .. n \subseteq T
    <3> HIDE DEF T
    <3> QED
      BY <1>1, <2>1, <2>2, BoundedInduction, Zenon
  <2> QED
    BY <2>3
<1>12. f \in [0 .. n -> B]
  BY <1>9, <1>11
<1> QED
  BY <1>10, <1>12 DEF f, n, B, none, next

\* Nothing written is nothing cut.
LEMMA CutEmpty ==
    ASSUME NEW lines \in Seq(Seq(Char))
    PROVE  CutLines(lines, <<>>) = [lines |-> lines, pending |-> <<>>]
<1> DEFINE e == <<>>
<1>1. e \in Seq(Char)
  BY EmptySeq
<1>2. Len(e) = 0
  BY EmptySeq
<1> HIDE DEF e
<1>3. CutTo(lines, e)[0] = [lines |-> lines, pending |-> <<>>]
  BY <1>1, CutRecursion
<1> QED
  BY <1>2, <1>3 DEF CutLines, e

\* One more character is one more round of the loop.
LEMMA CutAppend ==
    ASSUME NEW lines \in Seq(Seq(Char)), NEW s \in Seq(Char), NEW x \in Char
    PROVE  /\ CutLines(lines, s) \in Cuts
           /\ CutLines(lines, Append(s, x)) = CutStep(CutLines(lines, s), x)
<1> DEFINE t == Append(s, x)
           f == CutTo(lines, t)
           g == CutTo(lines, s)
           n == Len(s)
<1>1. n \in Nat /\ t \in Seq(Char) /\ Len(t) = n + 1 /\ t[n + 1] = x
      /\ \A i \in 1 .. n : t[i] = s[i]
  BY AppendProperties, LenProperties
<1> HIDE DEF t
<1>2. f[0] = g[0]
  BY <1>1, CutRecursion, Zenon
<1>3. \A i \in 1 .. (n + 1) : f[i] = CutStep(f[i - 1], t[i])
  BY <1>1, CutRecursion, Zenon
<1>4. \A i \in 1 .. n : g[i] = CutStep(g[i - 1], s[i])
  BY <1>1, CutRecursion, Zenon
<1>5. CutLines(lines, t) = f[n + 1] /\ CutLines(lines, s) = g[n]
  BY <1>1 DEF CutLines
<1>6. g \in [0 .. n -> Cuts]
  BY CutRecursion, Zenon
<1> HIDE DEF f, g, n
<1>7. ASSUME NEW i \in 0 .. (n - 1), f[i] = g[i] PROVE f[i + 1] = g[i + 1]
  <2>1. i + 1 \in 1 .. n /\ i + 1 \in 1 .. (n + 1) /\ (i + 1) - 1 = i
    BY <1>1
  <2>2. f[i + 1] = CutStep(f[i], t[i + 1]) /\ g[i + 1] = CutStep(g[i], s[i + 1])
    BY <1>3, <1>4, <2>1
  <2> QED
    BY <1>1, <1>7, <2>1, <2>2
<1>8. f[n] = g[n]
  <2>1. n \in Nat /\ f[0] = g[0]
    BY <1>1, <1>2
  <2>2. \A i \in 0 .. (n - 1) : f[i] = g[i] => f[i + 1] = g[i + 1]
    BY <1>7
  <2> QED
    BY <2>1, <2>2, SameLoop
<1>9. n + 1 \in 1 .. (n + 1) /\ (n + 1) - 1 = n
  BY <1>1
<1>10. f[n + 1] = CutStep(f[n], t[n + 1])
  BY <1>3, <1>9
<1> QED
  <2>1. g[n] \in Cuts
    BY <1>1, <1>6
  <2> QED
    BY <1>1, <1>5, <1>8, <1>10, <2>1 DEF t

\* What is seen of lines and of a pending text.
Seen(lines, pending) == Visible(Joined(lines)) \o Visible(pending)

\* The cutting of a text into lines loses nothing visible.
LEMMA CutKeeps ==
    ASSUME NEW lines \in Seq(Seq(Char))
    PROVE  \A text \in Seq(Char) :
              LET c == CutLines(lines, text)
              IN  c \in Cuts /\ Seen(c.lines, c.pending) = Seen(lines, text)
<1> DEFINE T == {text \in Seq(Char) :
                   /\ CutLines(lines, text) \in Cuts
                   /\ Seen(CutLines(lines, text).lines, CutLines(lines, text).pending) = Seen(lines, text)}
<1>1. <<>> \in T
  <2> DEFINE e == <<>>
             c == CutLines(lines, e)
  <2>1. c.lines = lines /\ c.pending = e /\ c = [lines |-> lines, pending |-> e]
    BY CutEmpty
  <2>2. e \in Seq(Char) /\ e \in Seq(Char \ {"n"})
    BY EmptySeq
  <2> HIDE DEF e, c
  <2>3. c \in Cuts /\ Seen(c.lines, c.pending) = Seen(lines, e)
    BY <2>1, <2>2 DEF Cuts
  <2> QED
    BY <2>2, <2>3 DEF e, c
<1>2. ASSUME NEW s \in Seq(Char), NEW x \in Char, s \in T PROVE Append(s, x) \in T
  <2> DEFINE t == Append(s, x)
             c == CutLines(lines, s)
             d == CutLines(lines, t)
             vl == Visible(Joined(c.lines))
             vp == Visible(c.pending)
             vj == Visible(Joined(lines))
             vs == Visible(s)
             vx == Visible(<<x>>)
  <2>1. t \in Seq(Char) /\ <<x>> \in Seq(Char) /\ t = s \o <<x>>
    BY AppendProperties, AppendIsConcat
  <2>2. c \in Cuts /\ d = CutStep(c, x)
    BY CutAppend
  <2>3. d \in Cuts
    BY <2>2, CutStepType
  <2>4. vl \o vp = vj \o vs
    BY <1>2 DEF Seen
  <2>5. c.lines \in Seq(Seq(Char)) /\ c.pending \in Seq(Char)
    <3>1. c.lines \in Seq(Seq(Char)) /\ c.pending \in Seq(Char \ {"n"})
      BY <2>2 DEF Cuts
    <3> QED
      BY <3>1, SeqMonotonic
  <2>6. vl \in Seq(Char) /\ vp \in Seq(Char) /\ vj \in Seq(Char) /\ vs \in Seq(Char)
    BY <2>5, JoinedType, VisibleConcat, Zenon
  <2>7. vx \in Seq(Char) /\ Visible(t) = vs \o vx
    BY <2>1, VisibleConcat, Zenon
  <2>8. Seen(lines, t) = (vj \o vs) \o vx
    <3>1. Seen(lines, t) = vj \o (vs \o vx)
      BY <2>7 DEF Seen
    <3> HIDE DEF vj, vs, vx
    <3>2. (vj \o vs) \o vx = vj \o (vs \o vx)
      <4>1. vj \in Seq(Char) /\ vs \in Seq(Char) /\ vx \in Seq(Char)
        BY <2>6, <2>7
      <4> QED
        BY <4>1, TextAssociative, ZenonT(60)
    <3> QED
      BY <3>1, <3>2, Zenon
  <2>9. Seen(d.lines, d.pending) = (vl \o vp) \o vx
    <3>1. CASE x = "n"
      <4>1. d = [lines |-> Emit(c.lines, c.pending, {"r"}), pending |-> <<>>]
        BY <2>2, <3>1 DEF CutStep
      <4>2. Visible(Joined(Emit(c.lines, c.pending, {"r"}))) = vl \o vp
        BY <2>5, EmitKeeps
      <4>3. vx = <<>>
        <5>1. <<x>> \in Seq({"n"}) /\ {"n"} \cap (Char \ {"n", "r"}) = {}
          BY <3>1
        <5> QED
          BY <5>1, OnlyNone, Zenon DEF Visible
      <4>4. Visible(<<>>) = <<>>
        BY OnlyEmpty DEF Visible
      <4>5. Seen(d.lines, d.pending) = (vl \o vp) \o <<>>
        <5>1. d.lines = Emit(c.lines, c.pending, {"r"}) /\ d.pending = <<>>
          BY <4>1
        <5> HIDE DEF c, d, vl, vp
        <5> QED
          BY <5>1, <4>2, <4>4, Zenon DEF Seen
      <4> QED
        BY <4>3, <4>5, Zenon
    <3>2. CASE x # "n"
      <4>1. d.lines = c.lines /\ d.pending = Append(c.pending, x)
        BY <2>2, <3>2 DEF CutStep, Cuts
      <4>2. Append(c.pending, x) = c.pending \o <<x>>
        BY <2>5, AppendIsConcat
      <4>3. Visible(c.pending \o <<x>>) = vp \o vx
        BY <2>1, <2>5, VisibleConcat, Zenon
      <4>4. Seen(d.lines, d.pending) = vl \o (vp \o vx)
        BY <4>1, <4>2, <4>3, Zenon DEF Seen
      <4> HIDE DEF vl, vp, vx, c, d
      <4>5. (vl \o vp) \o vx = vl \o (vp \o vx)
        <5>1. vl \in Seq(Char) /\ vp \in Seq(Char) /\ vx \in Seq(Char)
          BY <2>6, <2>7
        <5> QED
          BY <5>1, TextAssociative, ZenonT(60)
      <4> QED
        BY <4>4, <4>5, Zenon
    <3> QED
      BY <3>1, <3>2, Zenon
  <2> QED
    BY <2>1, <2>3, <2>4, <2>8, <2>9, Zenon
<1>3. Seq(Char) \subseteq T
  <2> HIDE DEF T
  <2> QED
    BY <1>1, <1>2, SequenceInduction
<1> QED
  BY <1>3

\* The recorder, and what its lines and its pending text stand for.
Logs == [open : BOOLEAN, lines : Seq(Seq(Char)), pending : Seq(Char \ {"n"}), bytes : Nat]

Transcribes(s, text) == s.bytes = Len(text) /\ Seen(s.lines, s.pending) = Visible(text)

\* Write: the pending text stays within its cap, and all that is visible of
\* what is written is kept.
LEMMA WriteKeeps ==
    ASSUME NEW s \in Logs, NEW p \in Seq(Char), NEW text \in Seq(Char), Transcribes(s, text)
    PROVE  /\ WriteLog(s, p) \in Logs
           /\ WriteLog(s, p).open = s.open
           /\ Len(WriteLog(s, p).pending) <= maxPendingLine
           /\ Transcribes(WriteLog(s, p), text \o p)
<1> DEFINE q == s.pending \o p
           c == CutLines(s.lines, q)
           long == Len(c.pending) > maxPendingLine
           trim == TrimRight(c.pending, {"r"})
           lines == IF long THEN Append(c.lines, trim) ELSE c.lines
           pending == IF long THEN <<>> ELSE c.pending
           w == WriteLog(s, p)
<1>1. s.lines \in Seq(Seq(Char)) /\ s.pending \in Seq(Char) /\ s.bytes \in Nat /\ s.open \in BOOLEAN
  <2>1. s.lines \in Seq(Seq(Char)) /\ s.pending \in Seq(Char \ {"n"}) /\ s.bytes \in Nat
        /\ s.open \in BOOLEAN
    BY DEF Logs
  <2> QED
    BY <2>1, SeqMonotonic
<1>2. q \in Seq(Char)
  BY <1>1, ConcatProperties
<1>3. c \in Cuts /\ Seen(c.lines, c.pending) = Seen(s.lines, q)
  <2> HIDE DEF q
  <2> QED
    BY <1>1, <1>2, CutKeeps
<1>4. w.lines = lines /\ w.pending = pending /\ w.bytes = s.bytes + Len(p) /\ w.open = s.open
      /\ w = [open |-> s.open, lines |-> lines, pending |-> pending, bytes |-> s.bytes + Len(p)]
  <2>1. w = [s EXCEPT !.bytes = s.bytes + Len(p), !.lines = lines, !.pending = pending]
    BY DEF WriteLog
  <2> HIDE DEF w, lines, pending
  <2> QED
    BY <2>1, Zenon DEF Logs
<1> HIDE DEF w, c
<1>5. c.lines \in Seq(Seq(Char)) /\ c.pending \in Seq(Char \ {"n"})
  BY <1>3 DEF Cuts
<1>6. c.pending \in Seq(Char) /\ Len(c.pending) \in Nat
  BY <1>5, SeqMonotonic, LenProperties
<1>7. trim \in Seq(Char) /\ Visible(trim) = Visible(c.pending)
  BY <1>6, TrimRightCuts, VisibleTrim, Zenon
<1> HIDE DEF trim
<1>8. lines \in Seq(Seq(Char)) /\ pending \in Seq(Char \ {"n"})
  BY <1>5, <1>7, AppendProperties, EmptySeq
<1>9. Len(pending) <= maxPendingLine
  BY <1>6, PendingAssumption, EmptySeq
<1>10. Seen(lines, pending) = Seen(c.lines, c.pending)
  <2>1. CASE long
    <3> DEFINE j == Joined(c.lines)
    <3>1. j \in Seq(Char) /\ Joined(Append(c.lines, trim)) = j \o trim
      BY <1>5, <1>7, JoinedType, JoinedAppend
    <3>2. Visible(j \o trim) = Visible(j) \o Visible(c.pending)
      BY <1>7, <3>1, VisibleConcat, Zenon
    <3>3. Visible(<<>>) = <<>>
      BY OnlyEmpty DEF Visible
    <3>4. Visible(j \o trim) \o <<>> = Visible(j \o trim)
      <4>1. j \o trim \in Seq(Char)
        BY <1>7, <3>1, ConcatProperties
      <4> QED
        BY <4>1, VisibleConcat, ConcatEmptySeq
    <3>5. Seen(Append(c.lines, trim), <<>>) = Visible(j) \o Visible(c.pending)
      BY <3>1, <3>2, <3>3, <3>4, Zenon DEF Seen
    <3> QED
      BY <2>1, <3>5 DEF Seen
  <2>2. CASE ~long
    BY <2>2
  <2> QED
    BY <2>1, <2>2
<1>11. Seen(s.lines, q) = Visible(text \o p)
  <2> DEFINE a == Visible(Joined(s.lines))
             b == Visible(s.pending)
             v == Visible(p)
  <2>1. a \in Seq(Char) /\ b \in Seq(Char) /\ v \in Seq(Char)
    BY <1>1, JoinedType, VisibleConcat, Zenon
  <2>2. Visible(q) = b \o v
    BY <1>1, VisibleConcat, Zenon
  <2>3. Visible(text \o p) = Visible(text) \o v
    BY VisibleConcat, Zenon
  <2>4. a \o b = Visible(text)
    BY DEF Transcribes, Seen
  <2>5. Seen(s.lines, q) = a \o (b \o v)
    BY <2>2 DEF Seen
  <2> HIDE DEF a, b, v, q
  <2>6. (a \o b) \o v = a \o (b \o v)
    BY <2>1, TextAssociative, SMTT(30)
  <2> QED
    BY <2>3, <2>4, <2>5, <2>6, Zenon
<1>12. w.bytes = Len(text \o p)
  BY <1>4, ConcatProperties DEF Transcribes
<1>13. Len(p) \in Nat
  BY LenProperties
<1>14. w \in Logs
  <2> HIDE DEF lines, pending
  <2> QED
    BY <1>1, <1>4, <1>8, <1>13 DEF Logs
<1>15. Transcribes(w, text \o p)
  <2> HIDE DEF lines, pending
  <2> QED
    BY <1>3, <1>4, <1>10, <1>11, <1>12 DEF Transcribes
<1> QED
  BY <1>4, <1>9, <1>14, <1>15 DEF w

\* done: what was pending is logged.
LEMMA DoneKeeps ==
    ASSUME NEW s \in Logs, NEW text \in Seq(Char), Transcribes(s, text)
    PROVE  /\ DoneLog(s) \in Logs
           /\ ~DoneLog(s).open
           /\ DoneLog(s).pending = <<>>
           /\ Transcribes(DoneLog(s), text)
<1> DEFINE d == DoneLog(s)
           lines == Emit(s.lines, s.pending, {"r", "n"})
<1>1. s.lines \in Seq(Seq(Char)) /\ s.pending \in Seq(Char) /\ s.bytes \in Nat
  <2>1. s.lines \in Seq(Seq(Char)) /\ s.pending \in Seq(Char \ {"n"}) /\ s.bytes \in Nat
    BY DEF Logs
  <2> QED
    BY <2>1, SeqMonotonic
<1>2. d.lines = lines /\ d.pending = <<>> /\ d.bytes = s.bytes /\ d.open = FALSE
      /\ d = [open |-> FALSE, lines |-> lines, pending |-> <<>>, bytes |-> s.bytes]
  <2>1. d = [s EXCEPT !.lines = lines, !.pending = <<>>, !.open = FALSE]
    BY DEF DoneLog
  <2> HIDE DEF d, lines
  <2> QED
    BY <2>1, Zenon DEF Logs
<1>3. lines \in Seq(Seq(Char)) /\ Visible(Joined(lines)) = Seen(s.lines, s.pending)
  BY <1>1, EmitKeeps DEF Seen
<1> HIDE DEF lines, d
<1>4. d \in Logs
  BY <1>1, <1>2, <1>3, EmptySeq DEF Logs
<1>5. Seen(d.lines, d.pending) = Visible(Joined(lines))
  <2>1. Visible(<<>>) = <<>>
    BY OnlyEmpty DEF Visible
  <2>2. Visible(Joined(lines)) \o <<>> = Visible(Joined(lines))
    BY <1>3, JoinedType, VisibleConcat, ConcatEmptySeq
  <2> QED
    BY <1>2, <2>1, <2>2, Zenon DEF Seen
<1> QED
  BY <1>2, <1>3, <1>4, <1>5 DEF d, Transcribes
-----------------------------------------------------------------------------
(* The inductive invariant *)

\* Where the handler is before there is a session, and while there is one.
Early == {"mux", "lookup", "collect", "route"}
Within == {"start", "run", "ended"}

SessionTypes ==
    /\ req \in Requests /\ cfg \in Settings /\ process \in Processes
    /\ pc \in Early \cup Within \cup {"done"}
    /\ proc \in {"none", "running", "exited"} /\ at \in Nat
    /\ copying \subseteq Outputs
    /\ out \in [Outputs -> Seq(Char)] /\ hand \in [Outputs -> Seq(Char)]
    /\ got \in [Outputs -> Seq(Char)]
    /\ slog \in Logs /\ recorded \in Seq(Char)

\* What is there at each step of the handler.
SessionStages ==
    /\ pc \in {"mux", "lookup"} => streams = {}
    /\ pc \in Early => recorded = <<>>
    /\ pc \in Early \cup {"start"} => proc = "none"
    /\ proc = "running" => pc = "run"
    /\ copying # {} => pc = "run"
    /\ \A s \in Outputs : s \notin copying => out[s] = <<>> /\ hand[s] = <<>>
    /\ dir => pc \in Within
    /\ status # <<>> => pc = "done" /\ Len(status) = 1
    /\ pc = "done" => streams \cap (Outputs \cup {"error"}) \subseteq closed

\* The recorder is open during a session that is recorded.
SessionRecording ==
    /\ slog.open <=> cfg.record /\ pc \in Within
    /\ ~slog.open => slog.pending = <<>>
    /\ pc \in Early => slog = NoLog
    /\ ~cfg.record => slog = NoLog /\ recorded = <<>> /\ \A s \in Outputs : hand[s] = <<>>
    /\ Len(slog.pending) <= maxPendingLine
    /\ Transcribes(slog, recorded)

\* The text of an output has no letter of the other.
SessionLettered ==
    \A s, t \in Outputs : s # t => /\ out[s] \in Seq(Char \ Letters(t))
                                  /\ hand[s] \in Seq(Char \ Letters(t))

SessionInv ==
    SessionTypes /\ SessionStages /\ SessionRecording /\ SessionLettered /\ RecordedIsDelivered

\* Before a request nothing runs, nothing is recorded and nothing was sent.
LEMMA InitInv == Init => SessionInv
<1> SUFFICES ASSUME Init PROVE SessionInv
  OBVIOUS
<1> USE DEF Init
<1>1. SessionTypes
  BY EmptySeq DEF SessionTypes, Logs, NoLog, Early, Within
<1>2. SessionStages
  BY DEF SessionStages, Within
<1>3. SessionRecording
  <2>1. Transcribes(NoLog, <<>>)
    <3> DEFINE e == <<>>
    <3>1. NoLog.lines = e /\ NoLog.pending = e /\ NoLog.bytes = 0 /\ Len(e) = 0
      BY DEF NoLog
    <3>2. Visible(e) = <<>> /\ Joined(e) = <<>>
      BY JoinedEmpty, OnlyEmpty DEF Visible
    <3>3. Visible(e) \o Visible(e) = Visible(e)
      BY <3>2, EmptyConcat, Zenon
    <3> QED
      BY <3>1, <3>2, <3>3 DEF Transcribes, Seen
  <2>2. slog.pending = <<>> /\ slog.open = FALSE /\ Len(slog.pending) = 0
    BY DEF NoLog
  <2>3. \A s \in Outputs : hand[s] = <<>>
    OBVIOUS
  <2> QED
    BY <2>1, <2>2, <2>3, PendingAssumption DEF SessionRecording, Within
<1>4. SessionLettered
  BY EmptySeq DEF SessionLettered
<1>5. RecordedIsDelivered
  <2> SUFFICES ASSUME NEW s \in Outputs
               PROVE  Only(recorded, Letters(s)) \o Only(hand[s], Letters(s)) = Only(got[s], Letters(s))
    BY DEF RecordedIsDelivered
  <2>1. recorded = <<>> /\ hand[s] = <<>> /\ got[s] = <<>>
    OBVIOUS
  <2>2. Only(<<>>, Letters(s)) = <<>>
    BY OnlyEmpty
  <2> QED
    BY <2>1, <2>2, EmptyConcat, Zenon
<1> QED
  BY <1>1, <1>2, <1>3, <1>4, <1>5 DEF SessionInv

\* A step that does nothing to the session and leaves the handler on its side
\* of it.
LEMMA QuietStep ==
    ASSUME SessionInv, UNCHANGED <<req, cfg, process>>, UNCHANGED session,
           pc' \in Early \cup Within \cup {"done"},
           pc' \in Within <=> pc \in Within, pc' \in Early => pc \in Early
    PROVE  SessionTypes' /\ SessionRecording' /\ SessionLettered' /\ RecordedIsDelivered'
<1>1. SessionTypes'
  BY DEF SessionInv, SessionTypes, session
<1>2. SessionRecording'
  BY DEF SessionInv, SessionRecording, session, Transcribes
<1>3. SessionLettered'
  BY Zenon DEF SessionInv, SessionLettered, session, Letters
<1>4. RecordedIsDelivered'
  BY Zenon DEF SessionInv, RecordedIsDelivered, session, Letters
<1> QED
  BY <1>1, <1>2, <1>3, <1>4

\* The same for a step that gives a client without a session its text.
LEMMA TextStep ==
    ASSUME SessionInv, UNCHANGED <<req, cfg, process, recorded, hand, slog, out, proc, at, copying>>,
           req.mode # "exec", got' \in [Outputs -> Seq(Char)],
           pc \in Early, pc' = "done"
    PROVE  SessionTypes' /\ SessionRecording' /\ SessionLettered' /\ RecordedIsDelivered'
<1>0. pc \notin Within /\ pc' \notin Within /\ pc' \notin Early /\ pc' \in Early \cup Within \cup {"done"}
  BY DEF Early, Within
<1>1. SessionTypes'
  BY <1>0 DEF SessionInv, SessionTypes
<1>2. SessionRecording'
  BY <1>0 DEF SessionInv, SessionRecording, Transcribes
<1>3. SessionLettered'
  BY Zenon DEF SessionInv, SessionLettered, Letters
<1>4. RecordedIsDelivered'
  BY DEF RecordedIsDelivered
<1> QED
  BY <1>1, <1>2, <1>3, <1>4

\* The status is written once, at the end.
LEMMA FinishStatus ==
    ASSUME NEW what, Finish(what), status = <<>>
    PROVE  /\ pc' = "done"
           /\ status' # <<>> => Len(status') = 1
           /\ streams' \cap (Outputs \cup {"error"}) \subseteq closed'
<1>1. Len(Append(<<>>, what)) = 1
  OBVIOUS
<1> QED
  BY <1>1 DEF Finish, Outputs

\* An answer without a session leaves everything of a session as it was.
LEMMA AnswerStep ==
    ASSUME SessionInv, NEW http, Answer(http), pc \in {"mux", "lookup"}
    PROVE  SessionInv'
<1>1. pc \in Early /\ pc \notin Within /\ pc' = "done" /\ pc' \notin Within /\ pc' \notin Early
  BY DEF Answer, Early, Within
<1>2. UNCHANGED <<req, cfg, process>> /\ UNCHANGED session /\ streams' = streams /\ status' = status
  BY DEF Answer, world, session, ending
<1>3. SessionTypes' /\ SessionRecording' /\ SessionLettered' /\ RecordedIsDelivered'
  BY <1>1, <1>2, QuietStep
<1>4. SessionStages'
  BY <1>1, <1>2 DEF SessionInv, SessionStages, SessionTypes, session
<1> QED
  BY <1>3, <1>4 DEF SessionInv

\* Routing, lookups and the answers that need no process.
LEMMA BeforeSession ==
    ASSUME SessionInv,
           NewServer \/ handleLogs \/ handleStream \/ collect \/ writeExecNotFound \/ attach
    PROVE  SessionInv'
<1> USE DEF SessionInv
<1>0. \A t : t \in {"mux", "lookup", "collect", "route"} <=> t \in Early
  BY DEF Early
<1>1. CASE NewServer
  <2>1. CASE \E http : Answer(http)
    BY <1>1, <2>1, AnswerStep DEF NewServer
  <2>2. CASE ~\E http : Answer(http)
    <3>1. pc = "mux" /\ pc' = "lookup" /\ UNCHANGED <<req, cfg, process, streams, status, closed>>
          /\ UNCHANGED session
      BY <1>1, <2>2 DEF NewServer, world, ending
    <3>2. SessionTypes' /\ SessionRecording' /\ SessionLettered' /\ RecordedIsDelivered'
      BY <3>1, QuietStep DEF Early, Within
    <3>3. SessionStages'
      BY <3>1 DEF SessionStages, session, Early, Within
    <3> QED
      BY <3>2, <3>3
  <2> QED
    BY <2>1, <2>2
<1>2. CASE handleLogs
  <2>1. CASE \E http : Answer(http)
    BY <1>2, <2>1, AnswerStep DEF handleLogs
  <2>2. CASE ~\E http : Answer(http)
    <3>1. /\ pc = "lookup" /\ pc' = "done" /\ req.mode # "exec"
          /\ got' = [got EXCEPT !["stdout"] = LogLines]
          /\ UNCHANGED <<req, cfg, process, recorded, hand, slog, out, proc, at, copying,
                         streams, dir, status, closed>>
      BY <1>2, <2>2 DEF handleLogs, world, ending
    <3>2. got' \in [Outputs -> Seq(Char)]
      BY <3>1, SessionAssumption DEF SessionTypes, Outputs
    <3>3. SessionTypes' /\ SessionRecording' /\ SessionLettered' /\ RecordedIsDelivered'
      BY <1>0, <3>1, <3>2, TextStep
    <3>4. SessionStages'
      BY <3>1 DEF SessionStages, Early, Within
    <3> QED
      BY <3>3, <3>4
  <2> QED
    BY <2>1, <2>2
<1>3. CASE handleStream
  <2>1. CASE \E http : Answer(http)
    BY <1>3, <2>1, AnswerStep DEF handleStream
  <2>2. CASE ~\E http : Answer(http)
    <3>1. pc = "lookup" /\ pc' = "collect" /\ UNCHANGED <<req, cfg, process, streams, status, closed>>
          /\ UNCHANGED session
      BY <1>3, <2>2 DEF handleStream, world, ending
    <3>2. SessionTypes' /\ SessionRecording' /\ SessionLettered' /\ RecordedIsDelivered'
      BY <3>1, QuietStep DEF Early, Within
    <3>3. SessionStages'
      BY <3>1 DEF SessionStages, session, Early, Within
    <3> QED
      BY <3>2, <3>3
  <2> QED
    BY <2>1, <2>2
<1>4. CASE collect
  <2>1. pc = "collect" /\ pc' \in {"collect", "route"} /\ UNCHANGED <<req, cfg, process, status, closed>>
        /\ UNCHANGED session
    BY <1>4 DEF collect, world, ending
  <2>2. SessionTypes' /\ SessionRecording' /\ SessionLettered' /\ RecordedIsDelivered'
    BY <2>1, QuietStep DEF Early, Within
  <2>3. SessionStages'
    BY <2>1 DEF SessionStages, session, Early, Within
  <2> QED
    BY <2>2, <2>3
<1>5. CASE writeExecNotFound
  <2>1. pc = "route" /\ Finish("not found") /\ UNCHANGED session
    BY <1>5, Zenon DEF writeExecNotFound
  <2>2. status = <<>> /\ ~dir /\ copying = {} /\ proc = "none"
    BY <2>1, Zenon DEF SessionStages, Within, Early
  <2>3. /\ pc' = "done" /\ (status' # <<>> => Len(status') = 1)
        /\ streams' \cap (Outputs \cup {"error"}) \subseteq closed'
        /\ UNCHANGED <<req, cfg, process>>
    BY <2>1, <2>2, FinishStatus, Zenon DEF Finish, world
  <2>4. SessionTypes' /\ SessionRecording' /\ SessionLettered' /\ RecordedIsDelivered'
    BY <2>1, <2>3, QuietStep, Zenon DEF Early, Within
  <2>5. SessionStages'
    BY <2>1, <2>2, <2>3, Zenon DEF SessionStages, session, Early, Within
  <2> QED
    BY <2>4, <2>5
<1>6. CASE attach
  <2>1. /\ pc = "route" /\ Finish(0) /\ req.mode # "exec"
        /\ UNCHANGED <<recorded, hand, slog, out, proc, at, copying, dir>>
    BY <1>6 DEF attach
  <2>2. status = <<>> /\ ~dir /\ copying = {} /\ proc = "none"
    BY <2>1 DEF SessionStages, Within, Early
  <2>3. /\ pc' = "done" /\ (status' # <<>> => Len(status') = 1)
        /\ streams' \cap (Outputs \cup {"error"}) \subseteq closed'
        /\ UNCHANGED <<req, cfg, process>>
    BY <2>1, <2>2, FinishStatus DEF Finish, world
  <2>4. got' \in [Outputs -> Seq(Char)]
    BY <1>6, SessionAssumption DEF SessionTypes, Outputs, attach
  <2>5. SessionTypes' /\ SessionRecording' /\ SessionLettered' /\ RecordedIsDelivered'
    BY <1>0, <2>1, <2>3, <2>4, TextStep
  <2>6. SessionStages'
    BY <2>1, <2>2, <2>3 DEF SessionStages, Early, Within
  <2> QED
    BY <2>5, <2>6
<1> QED
  BY <1>1, <1>2, <1>3, <1>4, <1>5, <1>6

\* What the client does by itself touches only its own side.
LEMMA ClientStep ==
    ASSUME SessionInv, (\E s \in Expected : OpenStream(s)) \/ CloseStdin \/ TypeExit \/ Disconnect
    PROVE  SessionInv'
<1>1. UNCHANGED <<req, cfg, process, pc, streams, status, closed>> /\ UNCHANGED session
  BY DEF OpenStream, CloseStdin, TypeExit, Disconnect, world, ending
<1>2. SessionTypes' /\ SessionRecording' /\ SessionLettered' /\ RecordedIsDelivered'
  BY <1>1, QuietStep DEF SessionInv, SessionTypes
<1>3. SessionStages'
  BY <1>1, Zenon DEF SessionInv, SessionStages, session
<1> QED
  BY <1>2, <1>3 DEF SessionInv

\* The working directory is made before the process.
LEMMA SandboxStep ==
    ASSUME SessionInv, newExecSandbox
    PROVE  SessionInv'
<1> USE DEF SessionInv
<1>1. /\ pc = "route" /\ pc' = "start"
      /\ slog' = IF cfg.record THEN newSessionLog ELSE slog
      /\ UNCHANGED <<req, cfg, process, streams, proc, at, out, copying, hand, got, recorded,
                     status, closed>>
  BY DEF newExecSandbox, world, ending
<1>2. /\ newSessionLog \in Logs /\ newSessionLog.open = TRUE /\ newSessionLog.pending = <<>>
      /\ newSessionLog.lines = <<>> /\ newSessionLog.bytes = 0
  BY EmptySeq DEF Logs, newSessionLog
<1>3. NoLog.lines = <<>> /\ NoLog.pending = <<>> /\ NoLog.bytes = 0 /\ NoLog.open = FALSE
  BY DEF NoLog
<1>4. slog = NoLog /\ recorded = <<>> /\ Transcribes(slog, recorded)
  BY <1>1 DEF SessionRecording, SessionStages, Early
<1>5. SessionTypes'
  BY <1>1, <1>2, Zenon DEF SessionTypes, Early, Within
<1>6. SessionStages'
  BY <1>1 DEF SessionStages, Early, Within
<1>7. SessionRecording'
  <2>1. Transcribes(newSessionLog, recorded)
    BY <1>2, <1>3, <1>4 DEF Transcribes
  <2>2. cfg.record \in BOOLEAN
    BY SessionAssumption DEF SessionTypes
  <2>3. Len(<<>>) <= maxPendingLine
    BY EmptySeq, PendingAssumption
  <2>4. CASE cfg.record
    <3>1. slog' = newSessionLog /\ slog'.open = TRUE /\ slog'.pending = <<>> /\ cfg' = cfg
          /\ recorded' = recorded /\ pc' = "start" /\ hand' = hand
      BY <1>1, <1>2, <2>4
    <3>2. Transcribes(slog', recorded')
      BY <2>1, <3>1
    <3> QED
      BY <2>3, <2>4, <3>1, <3>2 DEF SessionRecording, Early, Within, Transcribes
  <2>5. CASE ~cfg.record
    <3>1. slog' = slog /\ cfg' = cfg /\ recorded' = recorded /\ pc' = "start" /\ hand' = hand
      BY <1>1, <2>5
    <3> QED
      BY <1>3, <1>4, <2>5, <3>1 DEF SessionRecording, Early, Within, Transcribes
  <2> QED
    BY <2>2, <2>4, <2>5
<1>8. SessionLettered'
  BY <1>1, Zenon DEF SessionLettered, Letters
<1>9. RecordedIsDelivered'
  BY <1>1, Zenon DEF RecordedIsDelivered, Letters
<1> QED
  BY <1>5, <1>6, <1>7, <1>8, <1>9

\* What Record does to the recorder while it is open.
LEMMA RecordStep ==
    ASSUME SessionInv, NEW text \in Seq(Char), Record(text), cfg' = cfg, pc \in Within, pc' \in Within,
           ~cfg.record => \A s \in Outputs : hand'[s] = <<>>
    PROVE  /\ slog' \in Logs /\ recorded' \in Seq(Char)
           /\ SessionRecording'
<1> USE DEF SessionInv
<1>0. pc' \notin Early /\ slog \in Logs /\ recorded \in Seq(Char)
  BY DEF Early, Within, SessionTypes
<1>1. CASE cfg.record
  <2>1. slog' = WriteLog(slog, text) /\ recorded' = recorded \o text
    BY <1>1 DEF Record
  <2>2. Transcribes(slog, recorded) /\ slog.open
    BY <1>1 DEF SessionRecording
  <2>3. WriteLog(slog, text) \in Logs /\ WriteLog(slog, text).open = slog.open
        /\ Len(WriteLog(slog, text).pending) <= maxPendingLine
        /\ Transcribes(WriteLog(slog, text), recorded \o text)
    BY <1>0, <2>2, WriteKeeps, ZenonT(30)
  <2>4. recorded \o text \in Seq(Char)
    BY <1>0, ConcatProperties
  <2>5. slog' \in Logs /\ slog'.open = slog.open /\ Len(slog'.pending) <= maxPendingLine
    BY <2>1, <2>3
  <2>6. Transcribes(slog, recorded)'
    BY <2>1, <2>3 DEF Transcribes
  <2> QED
    BY <1>0, <1>1, <2>1, <2>2, <2>4, <2>5, <2>6 DEF SessionRecording
<1>2. CASE ~cfg.record
  <2>1. slog' = slog /\ recorded' = recorded
    BY <1>2 DEF Record
  <2> QED
    BY <1>0, <1>2, <2>1 DEF SessionRecording, Transcribes
<1>3. cfg.record \in BOOLEAN
  BY SessionAssumption DEF SessionTypes
<1> QED
  BY <1>1, <1>2, <1>3

\* Text that has no letter of an output changes nothing of what Only keeps.
LEMMA ForeignText ==
    ASSUME NEW text \in Seq(Char), NEW S, NEW more \in Seq(Char \ S)
    PROVE  /\ more \in Seq(Char)
           /\ Only(text \o more, S) = Only(text, S)
<1> DEFINE D == Char \ S
<1>1. D \subseteq Char /\ D \cap S = {} /\ more \in Seq(D)
  OBVIOUS
<1> HIDE DEF D
<1>2. more \in Seq(Char)
  BY <1>1, SeqMonotonic
<1>3. Only(more, S) = <<>>
  BY <1>1, OnlyNone
<1>4. Only(text \o more, S) = Only(text, S) \o Only(more, S)
  BY <1>2, OnlyConcat
<1>5. Only(text, S) \o <<>> = Only(text, S)
  BY OnlyType, ConcatEmptySeq
<1> QED
  BY <1>2, <1>3, <1>4, <1>5

\* OnlyConcat for text.
LEMMA OnlyText ==
    ASSUME NEW S
    PROVE  \A a, b \in Seq(Char) : Only(a \o b, S) = Only(a, S) \o Only(b, S)
  BY OnlyConcat

\* RecordedIsDelivered of the next state, with the constants of a session as
\* they were.
LEMMA DeliveredNext ==
    ASSUME UNCHANGED <<req, cfg>>,
           cfg.record /\ req.mode = "exec" =>
              \A s \in Outputs :
                Only(recorded', Letters(s)) \o Only(hand'[s], Letters(s)) = Only(got'[s], Letters(s))
    PROVE  RecordedIsDelivered'
<1>1. \A s : Letters(s)' = Letters(s)
  BY DEF Letters
<1> QED
  BY <1>1, Zenon DEF RecordedIsDelivered

\* Text of one output is recorded: the other's part of the record is as it was.
LEMMA RecordOthers ==
    ASSUME SessionInv, UNCHANGED <<req, cfg>>, NEW s \in Outputs, NEW text \in Seq(Char), Record(text),
           NEW t \in Outputs, t # s, text \in Seq(Char \ Letters(t)),
           got'[t] = got[t], hand'[t] = hand[t], cfg.record, req.mode = "exec"
    PROVE  Only(recorded', Letters(t)) \o Only(hand'[t], Letters(t)) = Only(got'[t], Letters(t))
<1> DEFINE L == Letters(t)
<1>1. recorded' = recorded \o text
  BY DEF Record
<1>2. recorded \in Seq(Char) /\ text \in Seq(Char \ L)
  BY DEF SessionInv, SessionTypes
<1>3. Only(recorded, L) \o Only(hand[t], L) = Only(got[t], L)
  BY Zenon DEF SessionInv, RecordedIsDelivered
<1> HIDE DEF L
<1>4. Only(recorded \o text, L) = Only(recorded, L)
  BY <1>2, ForeignText
<1> QED
  BY <1>1, <1>3, <1>4 DEF L

\* The process is started, or the attempt fails and the session ends.
LEMMA StartStep ==
    ASSUME SessionInv, startSession
    PROVE  SessionInv'
<1> USE DEF SessionInv
<1>1. /\ pc = "start"
      /\ UNCHANGED <<req, cfg, process, streams, dir, at, hand, status, closed>>
  BY DEF startSession, world, ending
<1>2. copying = {} /\ proc = "none" /\ status = <<>>
      /\ \A s \in Outputs : out[s] = <<>> /\ hand[s] = <<>>
  BY <1>1 DEF SessionStages, Early
<1>3. CASE proc' = "running"
  <2>1. /\ pc' = "run" /\ copying' \subseteq Outputs
        /\ UNCHANGED <<got, slog, recorded, out>>
    BY <1>3 DEF startSession, StartFails, Outputs
  <2>2. SessionTypes'
    BY <1>1, <1>3, <2>1 DEF SessionTypes, Early, Within
  <2>3. SessionStages'
    BY <1>1, <1>2, <1>3, <2>1 DEF SessionStages, Early, Within
  <2>4. SessionRecording'
    BY <1>1, <2>1, Zenon DEF SessionRecording, Early, Within, Transcribes
  <2>5. SessionLettered'
    BY <1>1, <2>1, Zenon DEF SessionLettered, Letters
  <2>6. RecordedIsDelivered'
    BY <1>1, <2>1, ZenonT(30) DEF RecordedIsDelivered, Letters
  <2> QED
    BY <2>2, <2>3, <2>4, <2>5, <2>6
<1>4. CASE proc' # "running"
  <2> DEFINE s == IF req.tty THEN "stdout" ELSE "stderr"
  <2>1. /\ proc' = "exited" /\ pc' = "ended" /\ UNCHANGED <<out, copying>>
        /\ \/ got' = [got EXCEPT ![s] = got[s] \o NotFoundText] /\ Record(NotFoundText)
           \/ UNCHANGED <<got, slog, recorded>>
    BY <1>4 DEF startSession, StartFails
  <2>2. NotFoundText \in Seq(Char)
    <3> DEFINE D == Char \ {"o"}
    <3>1. NotFoundText \in Seq(D) /\ D \subseteq Char
      BY LetterAssumption
    <3> HIDE DEF D
    <3> QED
      BY <3>1, SeqMonotonic
  <2>3. SessionStages'
    BY <1>1, <1>2, <2>1 DEF SessionStages, Early, Within
  <2>4. SessionLettered'
    BY <1>1, <2>1, Zenon DEF SessionLettered, Letters
  <2>5. CASE UNCHANGED <<got, slog, recorded>>
    <3>1. SessionTypes'
      BY <1>1, <2>1, <2>5 DEF SessionTypes, Early, Within
    <3>2. SessionRecording'
      BY <1>1, <2>1, <2>5 DEF SessionRecording, Early, Within, Transcribes
    <3>3. RecordedIsDelivered'
      BY <1>1, <2>1, <2>5, ZenonT(30) DEF RecordedIsDelivered, Letters
    <3> QED
      BY <2>3, <2>4, <3>1, <3>2, <3>3
  <2>6. CASE got' = [got EXCEPT ![s] = got[s] \o NotFoundText] /\ Record(NotFoundText)
    <3>1. s \in Outputs /\ got \in [Outputs -> Seq(Char)] /\ recorded \in Seq(Char)
      BY DEF Outputs, SessionTypes
    <3>2. got[s] \o NotFoundText \in Seq(Char)
      BY <2>2, <3>1, ConcatProperties
    <3>3. slog' \in Logs /\ recorded' \in Seq(Char) /\ SessionRecording'
      BY <1>1, <1>2, <2>1, <2>2, <2>6, RecordStep DEF Within
    <3>4. SessionTypes'
      BY <1>1, <2>1, <2>6, <3>1, <3>2, <3>3 DEF SessionTypes, Early, Within
    <3>5. ASSUME NEW t \in Outputs, t # s, cfg.record, req.mode = "exec"
          PROVE  Only(recorded', Letters(t)) \o Only(hand'[t], Letters(t)) = Only(got'[t], Letters(t))
      <4>1. NotFoundText \in Seq(Char \ Letters(t))
        <5>0. req.tty \in BOOLEAN
          BY SessionAssumption DEF SessionTypes
        <5>1. CASE req.tty
          <6>1. t = "stderr" /\ Letters(t) = {}
            BY <3>5, <5>1 DEF Outputs, Letters
          <6> QED
            BY <2>2, <6>1
        <5>2. CASE ~req.tty
          <6>1. t = "stdout" /\ Letters(t) = {"o"}
            BY <3>5, <5>2 DEF Outputs, Letters
          <6> QED
            BY <6>1, LetterAssumption
        <5> QED
          BY <5>0, <5>1, <5>2
      <4>2. got'[t] = got[t] /\ hand'[t] = hand[t]
        BY <1>1, <2>6, <3>1, <3>5
      <4> HIDE DEF s, SessionInv
      <4> QED
        BY <1>1, <2>2, <2>6, <3>1, <3>5, <4>1, <4>2, RecordOthers, Zenon
    <3>6. ASSUME cfg.record, req.mode = "exec"
          PROVE  Only(recorded', Letters(s)) \o Only(hand'[s], Letters(s)) = Only(got'[s], Letters(s))
      <4> DEFINE L == Letters(s)
                 N == NotFoundText
      <4>1. recorded' = recorded \o N /\ got'[s] = got[s] \o N /\ hand'[s] = <<>> /\ hand[s] = <<>>
        BY <1>1, <1>2, <2>6, <3>1, <3>6 DEF Record
      <4>2. Only(recorded, L) \o Only(hand[s], L) = Only(got[s], L)
        BY <3>1, <3>6, Zenon DEF RecordedIsDelivered
      <4>3. Only(<<>>, L) = <<>>
        BY OnlyEmpty
      <4> HIDE DEF L, N, s
      <4>4. /\ Only(recorded, L) \in Seq(Char) /\ recorded' \in Seq(Char)
            /\ Only(recorded', L) \in Seq(Char) /\ got[s] \in Seq(Char) /\ N \in Seq(Char)
        BY <2>2, <3>1, <3>3, OnlyType DEF N
      <4>5. Only(recorded, L) = Only(got[s], L)
        <5>1. Only(recorded, L) \o <<>> = Only(recorded, L)
          BY <4>4, ConcatEmptySeq
        <5> QED
          BY <4>1, <4>2, <4>3, <5>1, Zenon
      <4>6. Only(recorded \o N, L) = Only(recorded, L) \o Only(N, L)
        BY <3>1, <4>4, OnlyText, Zenon
      <4>7. Only(got[s] \o N, L) = Only(got[s], L) \o Only(N, L)
        BY <4>4, OnlyText, Zenon
      <4>8. Only(recorded', L) \o <<>> = Only(recorded', L)
        BY <4>4, ConcatEmptySeq
      <4> QED
        BY <4>1, <4>3, <4>5, <4>6, <4>7, <4>8, Zenon DEF L
    <3>7. RecordedIsDelivered'
      <4> HIDE DEF s
      <4> QED
        BY <1>1, <3>5, <3>6, DeliveredNext, Zenon
    <3> QED
      BY <2>3, <2>4, <3>3, <3>4, <3>7
  <2> QED
    BY <2>1, <2>5, <2>6
<1> QED
  BY <1>3, <1>4

\* The text of a write, and the output it is for.
LEMMA WriteText ==
    ASSUME SessionInv, at < Len(Writes)
    PROVE  LET w == Writes[at + 1]
               s == IF req.tty THEN "stdout" ELSE w.to
           IN  /\ w.text \in Seq(Char) /\ s \in Outputs
               /\ \A t \in Outputs : t # s => w.text \in Seq(Char \ Letters(t))
<1> DEFINE w == Writes[at + 1]
           s == IF req.tty THEN "stdout" ELSE w.to
<1>1. process \in Processes /\ at \in Nat /\ req.tty \in BOOLEAN
  BY SessionAssumption DEF SessionInv, SessionTypes
<1>2. process.found \in BOOLEAN /\ process.writes \in Seq([to : {"stdout", "stderr"}, text : Seq(Char)])
  BY <1>1, SessionAssumption, Zenon
<1>3. process.found
  BY <1>1, <1>2 DEF Writes
<1>4. Writes = process.writes /\ at + 1 \in 1 .. Len(process.writes)
  BY <1>1, <1>2, <1>3, LenProperties DEF Writes
<1>5. w.text \in Seq(Char) /\ w.to \in Outputs
  <2>1. w \in [to : {"stdout", "stderr"}, text : Seq(Char)]
    BY <1>2, <1>4, ElementOfSeq, Zenon
  <2> QED
    BY <2>1 DEF Outputs
<1>6. \/ w.to = "stdout" /\ w.text \in Seq(Char \ {"e"})
      \/ w.to = "stderr" /\ w.text \in Seq(Char \ {"o"})
  BY <1>1, <1>4, LetterAssumption
<1> HIDE DEF w
<1>7. s \in Outputs
  BY <1>5 DEF Outputs
<1>8. ASSUME NEW t \in Outputs, t # s PROVE w.text \in Seq(Char \ Letters(t))
  <2>1. CASE req.tty
    <3>1. Letters(t) = {} /\ Char \ {} = Char
      BY <1>8, <2>1 DEF Letters, Outputs
    <3> QED
      BY <1>5, <3>1
  <2>2. CASE ~req.tty
    <3>1. s = w.to /\ (t = "stdout" => Letters(t) = {"o"}) /\ (t = "stderr" => Letters(t) = {"e"})
      BY <2>2 DEF Letters
    <3> QED
      BY <1>6, <1>8, <3>1 DEF Outputs
  <2> QED
    BY <1>1, <2>1, <2>2
<1> QED
  BY <1>5, <1>7, <1>8 DEF w

\* The process writes to its own outputs, reads, or exits.
LEMMA ProcessStep ==
    ASSUME SessionInv, Process
    PROVE  SessionInv'
<1> USE DEF SessionInv
<1>0. /\ UNCHANGED <<req, cfg, process, pc, streams, dir, copying, hand, got, slog, recorded,
                     status, closed>>
      /\ proc = "running" /\ proc' \in {"running", "exited"} /\ at' \in Nat
  <2>1. at \in Nat
    BY DEF SessionTypes
  <2>2. CASE ProcessWrites
    <3>1. proc = "running" /\ at' = at + 1 /\ (proc' = proc \/ proc' = "exited")
      BY <2>2, ZenonT(30) DEF ProcessWrites
    <3>2. UNCHANGED <<world, pc, streams, dir, copying, hand, got, slog, recorded, ending>>
      BY <2>2, Zenon DEF ProcessWrites
    <3> QED
      BY <2>1, <3>1, <3>2 DEF world, ending
  <2>3. CASE ProcessExits
    BY <2>1, <2>3 DEF ProcessExits, world, ending
  <2> QED
    BY <2>2, <2>3 DEF Process
<1>1. SessionRecording'
  BY <1>0 DEF SessionRecording, Transcribes
<1>2. RecordedIsDelivered'
  BY <1>0, ZenonT(30) DEF RecordedIsDelivered, Letters
<1>3. CASE out' = out
  <2>1. SessionTypes'
    BY <1>0, <1>3 DEF SessionTypes
  <2>2. SessionStages'
    BY <1>0, <1>3 DEF SessionStages, Early
  <2>3. SessionLettered'
    BY <1>0, <1>3, ZenonT(30) DEF SessionLettered, Letters
  <2> QED
    BY <1>1, <1>2, <2>1, <2>2, <2>3
<1>4. CASE out' # out
  <2> DEFINE w == Writes[at + 1]
             s == IF req.tty THEN "stdout" ELSE w.to
  <2>1. at < Len(Writes) /\ s \in copying /\ out' = [out EXCEPT ![s] = out[s] \o w.text]
    BY <1>4, Zenon DEF Process, ProcessWrites, ProcessExits
  <2>2. w.text \in Seq(Char) /\ s \in Outputs
        /\ \A t \in Outputs : t # s => w.text \in Seq(Char \ Letters(t))
    BY <2>1, WriteText, Zenon
  <2> HIDE DEF w, s
  <2>3. out \in [Outputs -> Seq(Char)] /\ out[s] \in Seq(Char)
    BY <2>2 DEF SessionTypes
  <2>4. out[s] \o w.text \in Seq(Char)
    BY <2>2, <2>3, ConcatProperties
  <2>5. SessionTypes'
    BY <1>0, <2>1, <2>2, <2>3, <2>4 DEF SessionTypes
  <2>6. SessionStages'
    BY <1>0, <2>1, <2>3 DEF SessionStages, Early
  <2>7. SessionLettered'
    <3>1. ASSUME NEW r \in Outputs, NEW t \in Outputs, r # t
          PROVE  out'[r] \in Seq(Char \ Letters(t)) /\ hand'[r] \in Seq(Char \ Letters(t))
      <4> DEFINE E == Char \ Letters(t)
      <4>1. out[r] \in Seq(E) /\ hand[r] \in Seq(E) /\ (r = s => w.text \in Seq(E))
        BY <2>2, <3>1, Zenon DEF SessionLettered
      <4> HIDE DEF E
      <4>2. r = s => out[r] \o w.text \in Seq(E)
        BY <4>1, ConcatProperties
      <4>3. out'[r] = (IF r = s THEN out[r] \o w.text ELSE out[r]) /\ hand'[r] = hand[r]
        BY <1>0, <2>1, <2>3
      <4> QED
        BY <4>1, <4>2, <4>3 DEF E
    <3>2. \A t : Letters(t)' = Letters(t)
      BY <1>0 DEF Letters
    <3> QED
      BY <3>1, <3>2, Zenon DEF SessionLettered
  <2> QED
    BY <1>1, <1>2, <2>5, <2>6, <2>7
<1> QED
  BY <1>3, <1>4

\* A chunk goes to the client and into the recorder's hand.
LEMMA CopyToClientStep ==
    ASSUME SessionInv, NEW s \in Outputs, copyToClient(s)
    PROVE  SessionInv'
<1> USE DEF SessionInv
<1>0. /\ UNCHANGED <<req, cfg, process, pc, streams, dir, proc, at, slog, recorded, status, closed>>
      /\ s \in copying /\ hand[s] = <<>> /\ out' = [out EXCEPT ![s] = <<>>]
  BY DEF copyToClient, world, ending
<1>1. /\ out \in [Outputs -> Seq(Char)] /\ hand \in [Outputs -> Seq(Char)]
      /\ got \in [Outputs -> Seq(Char)] /\ recorded \in Seq(Char) /\ cfg.record \in BOOLEAN
  BY SessionAssumption DEF SessionTypes
<1>2. \A t : Letters(t)' = Letters(t)
  BY <1>0 DEF Letters
<1>3. CASE conn = "gone"
  <2>1. copying' = copying \ {s} /\ UNCHANGED <<got, hand>>
    BY <1>3 DEF copyToClient
  <2>2. SessionTypes'
    BY <1>0, <1>1, <2>1, EmptySeq DEF SessionTypes
  <2>3. SessionStages'
    BY <1>0, <1>1, <2>1 DEF SessionStages
  <2>4. SessionRecording'
    BY <1>0, <2>1, Zenon DEF SessionRecording, Transcribes
  <2>5. SessionLettered'
    BY <1>0, <1>1, <1>2, <2>1, EmptySeq, Zenon DEF SessionLettered
  <2>6. RecordedIsDelivered'
    BY <1>0, <2>1, ZenonT(30) DEF RecordedIsDelivered, Letters
  <2> QED
    BY <2>2, <2>3, <2>4, <2>5, <2>6
<1>4. CASE conn # "gone"
  <2>1. /\ got' = [got EXCEPT ![s] = got[s] \o out[s]]
        /\ hand' = IF cfg.record THEN [hand EXCEPT ![s] = out[s]] ELSE hand
        /\ copying' = copying
    BY <1>4, Zenon DEF copyToClient
  <2>2. got[s] \o out[s] \in Seq(Char)
    BY <1>1, ConcatProperties
  <2>3. SessionTypes'
    <3>1. got' \in [Outputs -> Seq(Char)]
      BY <1>1, <2>1, <2>2
    <3>2. hand' \in [Outputs -> Seq(Char)]
      BY <1>1, <2>1
    <3>3. out' \in [Outputs -> Seq(Char)]
      BY <1>0, <1>1, EmptySeq
    <3> QED
      BY <1>0, <2>1, <3>1, <3>2, <3>3 DEF SessionTypes
  <2>4. SessionStages'
    BY <1>0, <1>1, <2>1 DEF SessionStages
  <2>5. SessionRecording'
    BY <1>0, <1>1, <2>1, ZenonT(30) DEF SessionRecording, Transcribes
  <2>6. SessionLettered'
    BY <1>0, <1>1, <1>2, <2>1, EmptySeq, Zenon DEF SessionLettered
  <2>7. RecordedIsDelivered'
    <3> SUFFICES ASSUME cfg.record, req.mode = "exec", NEW t \in Outputs
                 PROVE  Only(recorded', Letters(t)) \o Only(hand'[t], Letters(t)) = Only(got'[t], Letters(t))
      BY <1>0, DeliveredNext
    <3> DEFINE L == Letters(t)
    <3>1. Only(recorded, L) \o Only(hand[t], L) = Only(got[t], L)
      BY DEF RecordedIsDelivered
    <3>2. CASE t # s
      BY <1>0, <1>1, <2>1, <3>1, <3>2
    <3>3. CASE t = s
      <4>1. recorded' = recorded /\ hand'[t] = out[t] /\ got'[t] = got[t] \o out[t] /\ hand[t] = <<>>
        BY <1>0, <1>1, <2>1, <3>3
      <4>2. Only(<<>>, L) = <<>>
        BY OnlyEmpty
      <4> HIDE DEF L
      <4>3. Only(recorded, L) \o <<>> = Only(recorded, L)
        BY <1>1, OnlyType, ConcatEmptySeq
      <4>4. Only(got[t] \o out[t], L) = Only(got[t], L) \o Only(out[t], L)
        BY <1>1, OnlyText, Zenon
      <4> QED
        BY <3>1, <4>1, <4>2, <4>3, <4>4, ZenonT(30) DEF L
    <3> QED
      BY <3>2, <3>3
  <2> QED
    BY <2>3, <2>4, <2>5, <2>6, <2>7
<1> QED
  BY <1>3, <1>4

\* What is in the hand is recorded: record and hand together do not change.
LEMMA TeeStep ==
    ASSUME SessionInv, NEW s \in Outputs, tee(s)
    PROVE  SessionInv'
<1> USE DEF SessionInv
<1>0. /\ UNCHANGED <<req, cfg, process, pc, streams, dir, proc, at, out, copying, got, status, closed>>
      /\ hand[s] # <<>> /\ hand' = [hand EXCEPT ![s] = <<>>] /\ Record(hand[s])
  BY DEF tee, world, ending
<1>1. /\ out \in [Outputs -> Seq(Char)] /\ hand \in [Outputs -> Seq(Char)]
      /\ got \in [Outputs -> Seq(Char)] /\ recorded \in Seq(Char) /\ cfg.record \in BOOLEAN
  BY SessionAssumption DEF SessionTypes
<1>2. \A t : Letters(t)' = Letters(t)
  BY <1>0 DEF Letters
<1>3. s \in copying /\ pc = "run" /\ pc \in Within /\ pc \notin Early
  BY <1>0, ZenonT(30) DEF SessionStages, Early, Within
<1>4. cfg.record
  BY <1>0, Zenon DEF SessionRecording
<1>5. slog' \in Logs /\ recorded' \in Seq(Char) /\ SessionRecording'
  <2>1. hand[s] \in Seq(Char) /\ pc' \in Within
    BY <1>0, <1>1, <1>3
  <2> HIDE DEF SessionInv
  <2> QED
    BY <1>0, <1>3, <1>4, <2>1, RecordStep
<1>6. SessionTypes'
  BY <1>0, <1>1, <1>5, EmptySeq DEF SessionTypes
<1>7. SessionStages'
  BY <1>0, <1>1, <1>3 DEF SessionStages, Early
<1>8. SessionLettered'
  BY <1>0, <1>1, <1>2, EmptySeq, Zenon DEF SessionLettered
<1>9. RecordedIsDelivered'
  <2> SUFFICES ASSUME cfg.record, req.mode = "exec", NEW t \in Outputs
               PROVE  Only(recorded', Letters(t)) \o Only(hand'[t], Letters(t)) = Only(got'[t], Letters(t))
    BY <1>0, DeliveredNext
  <2>1. CASE t # s
    <3>1. hand[s] \in Seq(Char) /\ hand[s] \in Seq(Char \ Letters(t))
      BY <1>1, <2>1 DEF SessionLettered
    <3>2. got'[t] = got[t] /\ hand'[t] = hand[t]
      BY <1>0, <1>1, <2>1
    <3> HIDE DEF SessionInv
    <3> QED
      BY <1>0, <2>1, <3>1, <3>2, RecordOthers
  <2>2. CASE t = s
    <3> DEFINE L == Letters(t)
               h == hand[t]
    <3>1. Only(recorded, L) \o Only(h, L) = Only(got[t], L)
      BY DEF RecordedIsDelivered
    <3>2. recorded' = recorded \o h /\ hand'[t] = <<>> /\ got'[t] = got[t]
      BY <1>0, <1>1, <2>2 DEF Record
    <3>3. Only(<<>>, L) = <<>>
      BY OnlyEmpty
    <3>4. h \in Seq(Char)
      BY <1>1
    <3> HIDE DEF L, h
    <3>5. Only(recorded \o h, L) = Only(recorded, L) \o Only(h, L)
      BY <1>1, <3>4, OnlyText, ZenonT(30)
    <3>6. Only(recorded', L) \o <<>> = Only(recorded', L)
      BY <1>5, OnlyType, ConcatEmptySeq
    <3> QED
      BY <3>1, <3>2, <3>3, <3>5, <3>6 DEF L
  <2> QED
    BY <2>1, <2>2
<1> QED
  BY <1>5, <1>6, <1>7, <1>8, <1>9

\* Copiers end with nothing in their hands, and the session after them.
LEMMA EndStep ==
    ASSUME SessionInv,
           (\E s \in Outputs : copyEnds(s)) \/ runPTYSession \/ runPipeSession
    PROVE  SessionInv'
<1> USE DEF SessionInv
<1>0. UNCHANGED <<req, cfg, process, streams, dir, proc, at, out, hand, got, slog, recorded, status, closed>>
  BY Zenon DEF copyEnds, runPTYSession, runPipeSession, world, ending
<1>1. CASE \E s \in Outputs : copyEnds(s)
  <2>1. PICK s \in Outputs : /\ out[s] = <<>> /\ hand[s] = <<>> /\ s \in copying
                             /\ copying' = copying \ {s} /\ pc' = pc
    BY <1>1, Zenon DEF copyEnds
  <2>2. SessionTypes'
    BY <1>0, <2>1 DEF SessionTypes
  <2>3. SessionStages'
    BY <1>0, <2>1 DEF SessionStages
  <2>4. SessionRecording'
    BY <1>0, <2>1 DEF SessionRecording, Transcribes
  <2>5. SessionLettered'
    BY <1>0, Zenon DEF SessionLettered, Letters
  <2>6. RecordedIsDelivered'
    BY <1>0, ZenonT(30) DEF RecordedIsDelivered, Letters
  <2> QED
    BY <2>2, <2>3, <2>4, <2>5, <2>6
<1>2. CASE runPTYSession \/ runPipeSession
  <2>1. pc = "run" /\ pc' = "ended" /\ copying = {} /\ copying' = {} /\ proc = "exited"
    BY <1>2 DEF runPTYSession, runPipeSession
  <2>2. SessionTypes'
    BY <1>0, <2>1 DEF SessionTypes, Within
  <2>3. SessionStages'
    BY <1>0, <2>1 DEF SessionStages, Early, Within
  <2>4. SessionRecording'
    BY <1>0, <2>1, ZenonT(30) DEF SessionRecording, Transcribes, Early, Within
  <2>5. SessionLettered'
    BY <1>0, Zenon DEF SessionLettered, Letters
  <2>6. RecordedIsDelivered'
    BY <1>0, Zenon DEF RecordedIsDelivered, Letters
  <2> QED
    BY <2>2, <2>3, <2>4, <2>5, <2>6
<1> QED
  BY <1>1, <1>2

\* The recorder is flushed, the directory removed and the status sent.
LEMMA StatusStep ==
    ASSUME SessionInv, writeExecStatus
    PROVE  SessionInv'
<1> USE DEF SessionInv
<1>0. /\ pc = "ended" /\ ~dir' /\ Finish(code)
      /\ slog' = IF cfg.record THEN DoneLog(slog) ELSE slog
      /\ UNCHANGED <<proc, at, out, copying, hand, got, recorded>>
  BY DEF writeExecStatus
<1>1. status = <<>> /\ copying = {} /\ proc # "running"
  BY <1>0 DEF SessionStages
<1>2. /\ pc' = "done" /\ (status' # <<>> => Len(status') = 1)
      /\ streams' \cap (Outputs \cup {"error"}) \subseteq closed'
      /\ UNCHANGED <<req, cfg, process>>
  BY <1>0, <1>1, FinishStatus DEF Finish, world
<1>3. slog \in Logs /\ recorded \in Seq(Char) /\ Transcribes(slog, recorded) /\ cfg.record \in BOOLEAN
  BY SessionAssumption DEF SessionTypes, SessionRecording
<1>4. slog' \in Logs /\ SessionRecording'
  <2>1. CASE cfg.record
    <3>1. slog' = DoneLog(slog)
      BY <1>0, <2>1
    <3>2. slog' \in Logs /\ ~slog'.open /\ slog'.pending = <<>> /\ Transcribes(slog', recorded)
      BY <1>3, <3>1, DoneKeeps
    <3>3. Len(<<>>) <= maxPendingLine
      BY EmptySeq, PendingAssumption
    <3> QED
      BY <1>0, <1>2, <2>1, <3>2, <3>3, Zenon DEF SessionRecording, Transcribes, Early, Within
  <2>2. CASE ~cfg.record
    <3>1. slog' = slog
      BY <1>0, <2>2
    <3> QED
      BY <1>0, <1>2, <1>3, <2>2, <3>1, Zenon DEF SessionRecording, Transcribes, Early, Within
  <2> QED
    BY <1>3, <2>1, <2>2
<1>5. SessionTypes'
  BY <1>0, <1>2, <1>4 DEF SessionTypes
<1>6. SessionStages'
  BY <1>0, <1>1, <1>2 DEF SessionStages, Early, Within
<1>7. SessionLettered'
  BY <1>0, <1>2, Zenon DEF SessionLettered, Letters
<1>8. RecordedIsDelivered'
  BY <1>0, <1>2, Zenon DEF RecordedIsDelivered, Letters
<1> QED
  BY <1>4, <1>5, <1>6, <1>7, <1>8

\* All of the above holds throughout every session.
THEOREM SessionInvariant == Spec => []SessionInv
<1>1. Init => SessionInv
  BY InitInv
<1>2. SessionInv /\ [Next]_vars => SessionInv'
  <2> SUFFICES ASSUME SessionInv, [Next]_vars PROVE SessionInv'
    OBVIOUS
  <2>1. CASE Handle
    BY <2>1, BeforeSession, SandboxStep, StartStep, EndStep, StatusStep DEF Handle
  <2>2. CASE Process
    BY <2>2, ProcessStep
  <2>3. CASE \E s \in Outputs : Copier(s)
    BY <2>3, CopyToClientStep, TeeStep, EndStep DEF Copier
  <2>4. CASE (\E s \in Expected : OpenStream(s)) \/ CloseStdin \/ TypeExit \/ Disconnect
    BY <2>4, ClientStep
  <2>5. CASE UNCHANGED vars
    <3>1. UNCHANGED <<req, cfg, process, pc, streams, status, closed>> /\ UNCHANGED session
      BY <2>5 DEF vars, session
    <3>2. SessionTypes' /\ SessionRecording' /\ SessionLettered' /\ RecordedIsDelivered'
      BY <3>1, QuietStep DEF SessionInv, SessionTypes
    <3>3. SessionStages'
      BY <3>1, Zenon DEF SessionInv, SessionStages, session
    <3> QED
      BY <3>2, <3>3 DEF SessionInv
  <2> QED
    BY <2>1, <2>2, <2>3, <2>4, <2>5 DEF Next
<1> QED
  BY <1>1, <1>2, PTL DEF Spec

-----------------------------------------------------------------------------
(* The properties *)

\* The recorder never holds more than the cap of a line, nor a newline.
THEOREM RecorderIsBounded == Spec => []PendingBounded
<1>1. SessionInv => PendingBounded
  <2> SUFFICES ASSUME SessionInv, NEW i \in 1 .. Len(slog.pending)
               PROVE  Len(slog.pending) <= maxPendingLine /\ slog.pending[i] # "n"
    BY DEF PendingBounded, SessionInv, SessionRecording
  <2>1. slog.pending \in Seq(Char \ {"n"})
    BY DEF SessionInv, SessionTypes, Logs
  <2>2. slog.pending[i] \in Char \ {"n"}
    BY <2>1, ElementOfSeq
  <2> QED
    BY <2>2 DEF SessionInv, SessionRecording
<1> QED
  BY <1>1, SessionInvariant, PTL

\* The log of a session is what was written to it, only cut into other lines.
THEOREM TranscriptIsFaithful == Spec => []TranscriptFaithful
<1>1. SessionInv => TranscriptFaithful
  <2> SUFFICES ASSUME SessionInv PROVE TranscriptFaithful
    OBVIOUS
  <2>1. slog.lines \in Seq(Seq(Char)) /\ slog.pending \in Seq(Char)
    <3>1. slog.lines \in Seq(Seq(Char)) /\ slog.pending \in Seq(Char \ {"n"})
      BY DEF SessionInv, SessionTypes, Logs
    <3> QED
      BY <3>1, SeqMonotonic
  <2>2. Visible(Joined(slog.lines) \o slog.pending) = Seen(slog.lines, slog.pending)
    BY <2>1, JoinedType, VisibleConcat, ZenonT(30) DEF Seen
  <2> QED
    BY <2>2 DEF SessionInv, SessionRecording, Transcribes, TranscriptFaithful
<1> QED
  BY <1>1, SessionInvariant, PTL

\* What is recorded of each output is what the client has got of it.
THEOREM RecordIsDelivered == Spec => []RecordedIsDelivered
<1>1. SessionInv => RecordedIsDelivered
  BY DEF SessionInv
<1> QED
  BY <1>1, SessionInvariant, PTL

\* The status is written once, after all of the output.
THEOREM StatusIsLast == Spec => []StatusComesLast
<1>1. SessionInv => StatusComesLast
  BY DEF SessionInv, SessionTypes, SessionStages, StatusComesLast
<1> QED
  BY <1>1, SessionInvariant, PTL

\* A request that is over has cleaned up.
THEOREM SessionCleansUp == Spec => []NothingLeftBehind
<1>1. SessionInv => NothingLeftBehind
  BY DEF SessionInv, SessionStages, SessionRecording, NothingLeftBehind, Within
<1> QED
  BY <1>1, SessionInvariant, PTL
==============================================================================
