------------------------- MODULE AuditPipelineProofs -------------------------
(***************************************************************************)
(* Proofs about AuditPipeline, for any number of batches, handlers, Alerts *)
(* and AuditSinks and for batches of any length: what each Alert and       *)
(* AuditSink gets, and what an acknowledgement means.                      *)
(***************************************************************************)
EXTENDS AuditPipeline, WellFoundedInduction, SequenceTheorems, TLAPS

-----------------------------------------------------------------------------
(* Induction *)

\* Induction, for a set in the place of a predicate: there is no least natural
\* number outside S.
LEMMA SetInduction ==
    ASSUME NEW S, 0 \in S, \A n \in Nat : n \in S => n + 1 \in S
    PROVE  Nat \subseteq S
<1> DEFINE T == Nat \ S
           R == {p \in Nat \X Nat : p[1] < p[2]}
<1> SUFFICES ASSUME T # {} PROVE FALSE
  OBVIOUS
<1>1. IsWellFoundedOn(R, Nat)
  BY NatLessThanWellFounded, Zenon DEF OpToRel
<1>2. PICK n \in T : \A m \in T : <<m, n>> \notin R
  <2> HIDE DEF R
  <2> QED
    BY <1>1, WFMin, Zenon
<1>3. n \in Nat /\ n # 0
  OBVIOUS
<1>4. n - 1 \in Nat /\ <<n - 1, n>> \in R
  BY <1>3
<1>5. n - 1 \in S
  BY <1>2, <1>4
<1> QED
  BY <1>3, <1>4, <1>5

\* Induction up to a bound.
LEMMA BoundedInduction ==
    ASSUME NEW n \in Nat, NEW S, 0 \in S, \A i \in 0 .. (n - 1) : i \in S => i + 1 \in S
    PROVE  0 .. n \subseteq S
<1> DEFINE T == {i \in Nat : i \in S \/ i > n}
<1>1. 0 \in T
  OBVIOUS
<1>2. \A i \in Nat : i \in T => i + 1 \in T
  OBVIOUS
<1>3. Nat \subseteq T
  <2> HIDE DEF T
  <2> QED
    BY <1>1, <1>2, SetInduction
<1> QED
  BY <1>3

\* g starts with a, and step takes each value and its index to the next value.
Iterates(g, n, a, step) == g = [i \in 0 .. n |-> IF i = 0 THEN a ELSE step[<<g[i - 1], i>>]]

\* A function that is to satisfy a recursion exists.
LEMMA RecursionExists ==
    ASSUME NEW n \in Nat, NEW A, NEW a \in A, NEW step \in [A \X (1 .. n) -> A]
    PROVE  \E g \in [0 .. n -> A] : Iterates(g, n, a, step)
<1> DEFINE Solves(g, m) == Iterates(g, m, a, step)
           S == {m \in 0 .. n : \E g \in [0 .. m -> A] : Solves(g, m)}
<1>1. 0 \in S
  <2> DEFINE g == [i \in 0 .. 0 |-> a]
  <2>1. g \in [0 .. 0 -> A] /\ Solves(g, 0)
    BY DEF Iterates
  <2> HIDE DEF g, Solves
  <2> QED
    BY <2>1
<1>2. ASSUME NEW m \in 0 .. (n - 1), m \in S PROVE m + 1 \in S
  <2>1. PICK g \in [0 .. m -> A] : Solves(g, m)
    BY <1>2
  <2> DEFINE f == [i \in 0 .. (m + 1) |-> IF i = m + 1 THEN step[<<g[m], m + 1>>] ELSE g[i]]
  <2>2. m \in 0 .. m /\ m + 1 \in 1 .. n /\ g[m] \in A
    OBVIOUS
  <2>3. step[<<g[m], m + 1>>] \in A
    BY <2>2
  <2>4. f \in [0 .. (m + 1) -> A]
    BY <2>3
  <2>5. \A i \in 0 .. (m + 1) : f[i] = IF i = 0 THEN a ELSE step[<<f[i - 1], i>>]
    <3> TAKE i \in 0 .. (m + 1)
    <3>1. CASE i = m + 1
      <4>1. f[i] = step[<<g[m], m + 1>>] /\ f[m] = g[m]
        BY <3>1
      <4>2. i # 0 /\ i - 1 = m
        BY <3>1
      <4> HIDE DEF f
      <4> QED
        BY <3>1, <4>1, <4>2
    <3>2. CASE i # m + 1
      <4>1. i \in 0 .. m /\ f[i] = g[i] /\ (i # 0 => f[i - 1] = g[i - 1])
        BY <3>2
      <4>2. g[i] = IF i = 0 THEN a ELSE step[<<g[i - 1], i>>]
        BY <2>1, <4>1 DEF Iterates
      <4> QED
        BY <4>1, <4>2, Zenon
    <3> QED
      BY <3>1, <3>2
  <2>6. Solves(f, m + 1)
    <3> HIDE DEF f
    <3> QED
      BY <2>4, <2>5 DEF Iterates
  <2> HIDE DEF f, Solves
  <2> QED
    BY <2>4, <2>6
<1>3. n \in S
  <2> HIDE DEF S
  <2>1. 0 .. n \subseteq S
    BY <1>1, <1>2, BoundedInduction
  <2> QED
    BY <2>1
<1> QED
  BY <1>3

-----------------------------------------------------------------------------
(* Subsequences *)

\* The loop of Only is well defined: it satisfies its equation.
LEMMA OnlyRecursion ==
    ASSUME NEW A, NEW s \in Seq(A), NEW S
    PROVE  /\ OnlyUpTo(s, S) \in [0 .. Len(s) -> Seq(A)]
           /\ OnlyUpTo(s, S)[0] = <<>>
           /\ \A i \in 1 .. Len(s) :
                 OnlyUpTo(s, S)[i] = IF s[i] \in S THEN Append(OnlyUpTo(s, S)[i - 1], s[i])
                                                  ELSE OnlyUpTo(s, S)[i - 1]
<1> DEFINE n == Len(s)
           B == Seq(A)
           none == <<>>
           f == OnlyUpTo(s, S)
           next(x, i) == IF s[i] \in S THEN Append(x, s[i]) ELSE x
           step == [p \in B \X (1 .. n) |-> next(p[1], p[2])]
<1>1. n \in Nat /\ none \in B
  OBVIOUS
<1>2. \A x \in B, i \in 1 .. n : next(x, i) \in B
  OBVIOUS
<1>3. OnlyUpTo(s, S) = CHOOSE k : k = [i \in 0 .. n |-> IF i = 0 THEN none ELSE next(k[i - 1], i)]
  BY DEF OnlyUpTo
<1> HIDE DEF n, B, none, f, next
<1>4. step \in [B \X (1 .. n) -> B]
  BY <1>2
<1>5. \A x \in B, i \in 1 .. n : step[<<x, i>>] = next(x, i)
  OBVIOUS
<1> HIDE DEF step
<1>6. PICK g \in [0 .. n -> B] : Iterates(g, n, none, step)
  BY <1>1, <1>4, RecursionExists, Zenon
<1>7. \A i \in 0 .. n : i # 0 => i \in 1 .. n /\ i - 1 \in 0 .. n
  BY <1>1
<1>8. g = [i \in 0 .. n |-> IF i = 0 THEN none ELSE next(g[i - 1], i)]
  BY <1>5, <1>6, <1>7 DEF Iterates
<1>9. f = [i \in 0 .. n |-> IF i = 0 THEN none ELSE next(f[i - 1], i)]
  BY <1>3, <1>8, Zenon DEF f
<1>10. f[0] = none /\ \A i \in 1 .. n : f[i] = next(f[i - 1], i)
  BY <1>1, <1>9
<1>11. \A i \in 0 .. n : f[i] \in B
  <2> DEFINE T == {i \in 0 .. n : f[i] \in B}
  <2>1. 0 \in T
    BY <1>1, <1>10
  <2>2. ASSUME NEW i \in 0 .. (n - 1), i \in T PROVE i + 1 \in T
    <3>1. i + 1 \in 1 .. n /\ (i + 1) - 1 = i
      BY <1>1
    <3>2. f[i + 1] = next(f[i], i + 1)
      BY <1>10, <3>1
    <3> QED
      BY <1>1, <1>2, <2>2, <3>1, <3>2
  <2>3. 0 .. n \subseteq T
    <3> HIDE DEF T
    <3> QED
      BY <1>1, <2>1, <2>2, BoundedInduction, Zenon
  <2> QED
    BY <2>3
<1>12. f \in [0 .. n -> B]
  BY <1>9, <1>11
<1> QED
  BY <1>10, <1>12 DEF f, n, B, none, next

\* A subsequence is a sequence of the same things.
LEMMA OnlyType ==
    ASSUME NEW A, NEW s \in Seq(A), NEW S
    PROVE  Only(s, S) \in Seq(A)
<1>1. Len(s) \in 0 .. Len(s)
  BY LenProperties
<1> QED
  BY <1>1, OnlyRecursion DEF Only

-----------------------------------------------------------------------------
(* The inductive invariant *)

Evs == Events \cup {JoinEvent}
AlertNames == UNION {DOMAIN c.alerts : c \in Configs}
SinkNames == UNION {DOMAIN c.sinks : c \in Configs}
Lists == {<<>>} \cup {c.alerts : c \in Configs} \cup {c.sinks : c \in Configs}

\* Where a handler is before the Dispatcher has read a list, and in its loops.
Fresh == {"count", "record", "alerts", "join"}
Loops == {"alert", "sink"}

Handlings ==
    [pc : Fresh \cup Loops \cup {"sinks", "respond"}, kt : Decoys, batch : Batches \cup {NoName},
     events : Seq(Evs), list : Lists, todo : SUBSET Names, at : Names \cup {NoName},
     left : Seq(Evs), size : Nat, sent : [Names -> Seq(Evs)], err : SUBSET Names,
     want : [Names -> Seq(Evs)]]

\* What one handler has sent, at each of its steps: an entry still to visit has
\* got nothing, the one at hand what it is to get but for what is left.
Progress(r) ==
    /\ r.pc \notin Loops => r.todo = {} /\ r.at = NoName
    /\ r.pc \in Fresh => \A n \in Names : r.sent[n] = <<>>
    /\ r.pc \in {"alert", "sinks"} => \A n \in SinkNames : r.sent[n] = <<>>
    /\ r.pc = "alert" => r.todo \subseteq AlertNames /\ r.at \in AlertNames \cup {NoName}
    /\ \A n \in r.todo : r.sent[n] = <<>> /\ n # r.at
    /\ r.at # NoName => r.sent[r.at] \o r.left = r.want[r.at]
    /\ \A n \in Names : /\ IsPrefixOf(r.sent[n], r.want[n])
                        /\ \/ r.sent[n] = r.want[n] \/ n \in r.err
                           \/ n \in r.todo \/ r.at = n

HandlersInv ==
    /\ conf \in Configs
    /\ sender \in [Batches -> [body : Bodies, state : {"new", "waiting", "acked", "failed"},
                                by : Handlers \cup {NoHandler}]]
    /\ DOMAIN h = Handlers
    /\ \A i \in Handlers : h[i] = Idle \/ (h[i] \in Handlings /\ Progress(h[i]))
    /\ AckedIsSettled

-----------------------------------------------------------------------------
(* Events in order *)

\* Concatenation of events, in the form the steps below use it.
LEMMA EvsAssociative ==
    \A a, b, c \in Seq(Evs) : (a \o b) \o c = a \o (b \o c)
  BY ConcatAssociative

\* A list starts with each of its beginnings, the empty one among them.
LEMMA PrefixOfConcat ==
    ASSUME NEW a \in Seq(Evs), NEW b \in Seq(Evs)
    PROVE  IsPrefixOf(a, a \o b) /\ IsPrefixOf(<<>>, a)
<1>1. Len(a \o b) = Len(a) + Len(b) /\ Len(a) \in Nat /\ Len(b) \in Nat
  OBVIOUS
<1>2. SubSeq(a \o b, 1, Len(a)) = a
  OBVIOUS
<1>3. SubSeq(a, 1, 0) = <<>> /\ Len(<<>>) = 0
  BY SubSeqEmpty, EmptySeq
<1> QED
  BY <1>1, <1>2, <1>3 DEF IsPrefixOf

\* A chunk and the rest are the whole.
LEMMA ChunkAndRest ==
    ASSUME NEW left \in Seq(Evs), NEW size \in Nat
    PROVE  LET n == Least(size, Len(left))
               chunk == SubSeq(left, 1, n)
               rest == SubSeq(left, n + 1, Len(left))
           IN  chunk \in Seq(Evs) /\ rest \in Seq(Evs) /\ chunk \o rest = left
<1> DEFINE n == Least(size, Len(left))
           chunk == SubSeq(left, 1, n)
           rest == SubSeq(left, n + 1, Len(left))
<1>1. n \in 0 .. Len(left) /\ Len(left) \in Nat
  BY LenProperties DEF Least
<1> HIDE DEF n
<1>2. chunk \in Seq(Evs)
  <2>1. \A i \in 1 .. n : left[i] \in Evs
    BY <1>1
  <2> QED
    BY <1>1, <2>1, SubSeqProperties
<1>3. rest \in Seq(Evs)
  <2>1. \A i \in (n + 1) .. Len(left) : left[i] \in Evs
    BY <1>1
  <2> QED
    BY <1>1, <2>1, SubSeqProperties
<1>4. chunk \o rest = left
  <2> DEFINE one == 1
             m == Len(left)
  <2>1. one \in 1 .. Len(left) + 1 /\ n \in one - 1 .. Len(left) /\ m \in n .. Len(left)
    BY <1>1
  <2>2. SubSeq(left, one, m) = left
    BY SubSeqFull
  <2> HIDE DEF one, m
  <2>3. SubSeq(left, one, n) \o SubSeq(left, n + 1, m) = SubSeq(left, one, m)
    BY <2>1, ConcatAdjacentSubSeq
  <2> QED
    BY <2>2, <2>3, Zenon DEF one, m
<1> QED
  BY <1>2, <1>3, <1>4 DEF n

-----------------------------------------------------------------------------
(* The steps of one handler *)

\* A handler that begins.
LEMMA BeginsWell ==
    ASSUME NEW kind \in Fresh, NEW kt \in Decoys, NEW batch \in Batches \cup {NoName},
           NEW events \in Seq(Evs)
    PROVE  LET r == Handler(kind, kt, batch, events) IN r \in Handlings /\ Progress(r)
<1> DEFINE r == Handler(kind, kt, batch, events)
           none == <<>>
<1>1. none \in Seq(Evs) /\ none \in Lists /\ IsPrefixOf(none, none)
  BY EmptySeq, PrefixOfConcat, Zenon DEF Lists
<1>2. r = [pc |-> kind, kt |-> kt, batch |-> batch, events |-> events,
           list |-> none, todo |-> {}, at |-> NoName, left |-> none, size |-> 0,
           sent |-> [n \in Names |-> none], err |-> {}, want |-> [n \in Names |-> none]]
  BY DEF Handler
<1>3. SinkNames \subseteq Names
  BY NameAssumption DEF SinkNames
<1> HIDE DEF none
<1>4. r \in Handlings
  BY <1>1, <1>2 DEF Handlings
<1>5. /\ r.pc = kind /\ r.todo = {} /\ r.at = NoName
      /\ \A n \in Names : r.sent[n] = none /\ r.want[n] = none
  BY <1>2
<1>6. Progress(r)
  <2> HIDE DEF r
  <2> QED
    BY <1>1, <1>3, <1>5 DEF Progress, none, Fresh, Loops
<1> QED
  BY <1>4, <1>6

\* A step that goes on without sending.
LEMMA MovesOn ==
    ASSUME NEW r \in Handlings, Progress(r), r.todo = {}, r.at = NoName,
           NEW pc \in (Fresh \cup {"sinks", "respond"}),
           \/ pc \in Fresh \cup {"sinks"} /\ r.pc \in Fresh
           \/ pc = "sinks" /\ r.pc = "alert"
           \/ pc = "respond"
    PROVE  LET q == [r EXCEPT !.pc = pc] IN q \in Handlings /\ Progress(q)
<1> DEFINE q == [r EXCEPT !.pc = pc]
<1>1. q \in Handlings
  BY Zenon DEF Handlings
<1>2. /\ q.pc = pc /\ q.todo = r.todo /\ q.at = r.at /\ q.sent = r.sent /\ q.want = r.want
      /\ q.err = r.err /\ q.left = r.left
  BY DEF Handlings
<1>3. SinkNames \subseteq Names
  BY NameAssumption DEF SinkNames
<1> HIDE DEF q
<1>4. Progress(q)
  BY <1>2, <1>3 DEF Progress, Fresh, Loops
<1> QED
  BY <1>1, <1>4 DEF q

\* A loop is entered: what it is over has got nothing so far.
LEMMA EntersLoop ==
    ASSUME NEW r \in Handlings, Progress(r), NEW pc \in Loops, NEW list \in Lists, NEW todo,
           \/ pc = "alert" /\ r.pc \in Fresh /\ todo \subseteq AlertNames
           \/ pc = "sink" /\ r.pc = "sinks" /\ todo \subseteq SinkNames,
           NEW w \in [Names -> Seq(Evs)], \A n \in Names : n \notin todo => w[n] = r.want[n],
           NEW q, q = [r EXCEPT !.pc = pc, !.list = list, !.todo = todo, !.want = w]
    PROVE  q \in Handlings /\ Progress(q)
<1>1. SinkNames \subseteq Names /\ AlertNames \subseteq Names /\ NoName \notin Names
  BY NameAssumption, PipelineAssumption DEF SinkNames, AlertNames
<1>2. todo \subseteq Names
  BY <1>1
<1>3. r.want \in [Names -> Seq(Evs)] /\ r.sent \in [Names -> Seq(Evs)] /\ r.at = NoName
  BY DEF Handlings, Progress, Loops, Fresh
<1>5. q \in Handlings
  BY <1>2, Zenon DEF Handlings
<1>6. /\ q.pc = pc /\ q.todo = todo /\ q.at = r.at /\ q.sent = r.sent /\ q.want = w
      /\ q.err = r.err
  BY DEF Handlings
<1>7. \A n \in todo : r.sent[n] = <<>> /\ IsPrefixOf(<<>>, w[n])
  <2>1. \A n \in todo : r.sent[n] = <<>>
    BY <1>2 DEF Progress
  <2>2. \A n \in todo : IsPrefixOf(<<>>, w[n])
    BY <1>2, PrefixOfConcat, EmptySeq
  <2> QED
    BY <2>1, <2>2
<1>9. ASSUME NEW n \in Names
      PROVE  /\ IsPrefixOf(q.sent[n], q.want[n])
             /\ q.sent[n] = q.want[n] \/ n \in q.err \/ n \in q.todo \/ q.at = n
  <2>1. CASE n \in todo
    BY <1>6, <1>7, <2>1
  <2>2. CASE n \notin todo
    <3>1. n \notin r.todo /\ r.at # n
      BY <1>1, <1>3 DEF Progress, Loops, Fresh
    <3> QED
      BY <1>6, <2>2, <3>1 DEF Progress
  <2> QED
    BY <2>1, <2>2
<1>10. Progress(q)
  BY <1>1, <1>2, <1>3, <1>6, <1>7, <1>9, ZenonT(60) DEF Progress, Loops, Fresh
<1> QED
  BY <1>5, <1>10

\* An entry is visited: nothing is to be sent, or an error is logged, or the
\* sending begins.
LEMMA VisitsWell ==
    ASSUME NEW r \in Handlings, Progress(r), NEW n \in r.todo, r.at = NoName, NEW size \in Nat, NEW q,
           \/ r.want[n] = <<>> /\ q = [r EXCEPT !.todo = r.todo \ {n}]
           \/ q = [r EXCEPT !.todo = r.todo \ {n}, !.err = r.err \cup {n}]
           \/ q = [r EXCEPT !.todo = r.todo \ {n}, !.at = n, !.left = r.want[n], !.size = size]
    PROVE  q \in Handlings /\ Progress(q)
<1>1. r.todo \subseteq Names /\ r.want \in [Names -> Seq(Evs)] /\ r.sent \in [Names -> Seq(Evs)]
      /\ r.err \subseteq Names
  BY DEF Handlings
<1>2. n \in Names /\ r.want[n] \in Seq(Evs) /\ r.sent[n] = <<>> /\ r.pc \in Loops /\ NoName \notin Names
  BY <1>1, PipelineAssumption DEF Progress
<1>3. <<>> \o r.want[n] = r.want[n]
  BY <1>2, ConcatEmptySeq
<1>4. r.pc = "alert" => n \in AlertNames
  BY DEF Progress
<1>5. CASE r.want[n] = <<>> /\ q = [r EXCEPT !.todo = r.todo \ {n}]
  <2>1. q \in Handlings
    BY <1>1, <1>5, Zenon DEF Handlings
  <2>2. /\ q.pc = r.pc /\ q.todo = r.todo \ {n} /\ q.at = NoName /\ q.sent = r.sent /\ q.want = r.want
        /\ q.err = r.err
    BY <1>5 DEF Handlings
  <2>3. Progress(q)
    BY <1>2, <1>5, <2>2, Zenon DEF Progress
  <2> QED
    BY <2>1, <2>3
<1>6. CASE q = [r EXCEPT !.todo = r.todo \ {n}, !.err = r.err \cup {n}]
  <2>1. q \in Handlings
    BY <1>1, <1>2, <1>6, Zenon DEF Handlings
  <2>2. /\ q.pc = r.pc /\ q.todo = r.todo \ {n} /\ q.at = NoName /\ q.sent = r.sent /\ q.want = r.want
        /\ q.err = r.err \cup {n}
    BY <1>6 DEF Handlings
  <2>3. Progress(q)
    BY <1>2, <2>2 DEF Progress
  <2> QED
    BY <2>1, <2>3
<1>7. CASE q = [r EXCEPT !.todo = r.todo \ {n}, !.at = n, !.left = r.want[n], !.size = size]
  <2>1. q \in Handlings
    BY <1>1, <1>2, <1>7, Zenon DEF Handlings
  <2>2. /\ q.pc = r.pc /\ q.todo = r.todo \ {n} /\ q.at = n /\ q.sent = r.sent /\ q.want = r.want
        /\ q.err = r.err /\ q.left = r.want[n]
    BY <1>7 DEF Handlings
  <2>3. q.sent[q.at] \o q.left = q.want[q.at]
    BY <1>2, <1>3, <2>2, Zenon
  <2>4. Progress(q)
    BY <1>2, <1>4, <2>2, <2>3, Zenon DEF Progress
  <2> QED
    BY <2>1, <2>4
<1> QED
  BY <1>5, <1>6, <1>7

\* A post: the chunk arrives and the rest is left; or it fails, with an error,
\* and may have arrived.
LEMMA PostsWell ==
    ASSUME NEW r \in Handlings, Progress(r), r.at # NoName,
           NEW chunk \in Seq(Evs), NEW rest \in Seq(Evs), chunk \o rest = r.left, NEW q,
           \/ q = [r EXCEPT !.sent = [r.sent EXCEPT ![r.at] = r.sent[r.at] \o chunk], !.left = rest,
                            !.at = IF rest = <<>> THEN NoName ELSE r.at]
           \/ \E arrived \in {<<>>, chunk} :
                 q = [r EXCEPT !.sent = [r.sent EXCEPT ![r.at] = r.sent[r.at] \o arrived],
                               !.left = <<>>, !.at = NoName, !.err = r.err \cup {r.at}]
    PROVE  q \in Handlings /\ Progress(q)
<1> DEFINE n == r.at
           a == r.sent[n]
           b == a \o chunk
           w == r.want[n]
<1>1. /\ n \in Names /\ r.want \in [Names -> Seq(Evs)] /\ r.sent \in [Names -> Seq(Evs)]
      /\ r.err \subseteq Names /\ a \in Seq(Evs) /\ NoName \notin Names /\ r.todo \subseteq Names
  BY PipelineAssumption DEF Handlings
<1>2. a \o r.left = w /\ IsPrefixOf(a, w)
  BY <1>1, Zenon DEF Progress
<1>3. b \in Seq(Evs)
  BY <1>1, ConcatProperties
<1>4. b \o rest = w
  <2>1. (a \o chunk) \o rest = a \o (chunk \o rest)
    <3> HIDE DEF a
    <3> QED
      BY <1>1, EvsAssociative, ZenonT(60)
  <2> QED
    BY <1>2, <2>1, Zenon
<1>5. IsPrefixOf(b, w)
  <2> HIDE DEF b, w
  <2> QED
    BY <1>3, <1>4, PrefixOfConcat, Zenon
<1>6. a \o <<>> = a
  BY <1>1, ConcatEmptySeq
<1>7. rest = <<>> => b = w
  <2> HIDE DEF b, w
  <2>1. b \o <<>> = b
    BY <1>3, ConcatEmptySeq
  <2> QED
    BY <1>4, <2>1
<1>8. r.pc \in Loops /\ n \notin r.todo /\ (r.pc = "alert" => n \notin SinkNames)
  <2>1. AlertNames \cap SinkNames = {}
    BY NameAssumption DEF AlertNames, SinkNames
  <2> QED
    BY <1>1, <2>1 DEF Progress
<1>9. SinkNames \subseteq Names
  BY NameAssumption DEF SinkNames
<1> DEFINE Sent(x) == [r.sent EXCEPT ![n] = x]
<1>10. \A x \in Seq(Evs) : /\ Sent(x) \in [Names -> Seq(Evs)]
                           /\ \A m \in Names : Sent(x)[m] = IF m = n THEN x ELSE r.sent[m]
  BY <1>1
<1>11. CASE q = [r EXCEPT !.sent = Sent(b), !.left = rest, !.at = IF rest = <<>> THEN NoName ELSE n]
  <2> HIDE DEF b, Sent
  <2>1. q \in Handlings
    BY <1>1, <1>3, <1>10, <1>11, Zenon DEF Handlings
  <2>2. /\ q.pc = r.pc /\ q.todo = r.todo /\ q.at = (IF rest = <<>> THEN NoName ELSE n)
        /\ q.sent = Sent(b) /\ q.want = r.want /\ q.err = r.err /\ q.left = rest
    BY <1>11 DEF Handlings
  <2>3. \A m \in Names : q.sent[m] = IF m = n THEN b ELSE r.sent[m]
    BY <1>3, <1>10, <2>2
  <2>4. q.at # NoName => q.sent[q.at] \o q.left = q.want[q.at]
    BY <1>1, <1>4, <2>2, <2>3, Zenon
  <2>5. \A m \in Names : /\ IsPrefixOf(q.sent[m], q.want[m])
                         /\ \/ q.sent[m] = q.want[m] \/ m \in q.err
                            \/ m \in q.todo \/ q.at = m
    BY <1>1, <1>5, <1>7, <2>2, <2>3 DEF Progress
  <2>6. \A m \in q.todo : q.sent[m] = <<>> /\ m # q.at
    BY <1>1, <1>8, <2>2, <2>3 DEF Progress
  <2>7. Progress(q)
    BY <1>1, <1>8, <1>9, <2>2, <2>3, <2>4, <2>5, <2>6, Zenon DEF Progress, Loops, Fresh
  <2> QED
    BY <2>1, <2>7
<1>12. CASE \E x \in {a, b} : q = [r EXCEPT !.sent = Sent(x), !.left = <<>>, !.at = NoName,
                                         !.err = r.err \cup {n}]
  <2> HIDE DEF b, Sent
  <2>1. PICK x \in {a, b} : q = [r EXCEPT !.sent = Sent(x), !.left = <<>>, !.at = NoName,
                                          !.err = r.err \cup {n}]
    BY <1>12, Zenon
  <2>2. x \in Seq(Evs) /\ IsPrefixOf(x, w) /\ <<>> \in Seq(Evs)
    BY <1>1, <1>2, <1>3, <1>5, EmptySeq
  <2>3. q \in Handlings
    BY <1>1, <1>10, <2>1, <2>2, ZenonT(30) DEF Handlings
  <2>4. /\ q.pc = r.pc /\ q.todo = r.todo /\ q.at = NoName
        /\ q.sent = Sent(x) /\ q.want = r.want /\ q.err = r.err \cup {n}
    BY <2>1 DEF Handlings
  <2>5. \A m \in Names : q.sent[m] = IF m = n THEN x ELSE r.sent[m]
    BY <1>10, <2>2, <2>4
  <2>6. Progress(q)
    BY <1>1, <1>8, <1>9, <2>2, <2>4, <2>5, SMTT(30) DEF Progress, Loops, Fresh
  <2> QED
    BY <2>3, <2>6
<1> QED
  BY <1>6, <1>11, <1>12

-----------------------------------------------------------------------------
(* The steps of the pipeline *)

\* One handler goes to a state the invariant allows.
LEMMA OneHandlerSteps ==
    ASSUME HandlersInv, NEW i \in Handlers, NEW q, h' = [h EXCEPT ![i] = q],
           q = Idle \/ (q \in Handlings /\ Progress(q)),
           conf' = conf, sender' = sender, settled' = settled
    PROVE  HandlersInv'
<1>1. DOMAIN h' = Handlers /\ \A j \in Handlers : h'[j] = IF j = i THEN q ELSE h[j]
  BY DEF HandlersInv
<1>2. \A j \in Handlers : h'[j] = Idle \/ (h'[j] \in Handlings /\ Progress(h'[j]))
  BY <1>1 DEF HandlersInv
<1>3. conf' \in Configs /\ AckedIsSettled'
  BY Zenon DEF HandlersInv, AckedIsSettled, kept
<1> QED
  BY <1>1, <1>2, <1>3 DEF HandlersInv

\* No handler steps, no sender is answered.
LEMMA HandlersStay ==
    ASSUME HandlersInv, UNCHANGED <<h, sender>>, settled' = settled, conf' \in Configs
    PROVE  HandlersInv'
BY Zenon DEF HandlersInv, AckedIsSettled, kept

\* A handler that is doing something is one the invariant describes.
LEMMA AtWork ==
    ASSUME HandlersInv, NEW i \in Handlers, h[i] # Idle
    PROVE  h[i] \in Handlings /\ Progress(h[i])
BY DEF HandlersInv

\* One round of Visit: a name with nothing to send or without a provider is
\* done with, any other is taken up with nothing sent to it yet.
LEMMA VisitSteps ==
    ASSUME HandlersInv, NEW i \in Handlers, NEW n, NEW one, h[i] # Idle,
           \A x \in DOMAIN one : one[x] \in Nat, Visit(i, n, one)
    PROVE  HandlersInv'
<1> DEFINE r == h[i]
           p == resolveProvider(conf.providers, conf.secrets, r.list[n])
           q == IF r.want[n] = <<>> THEN [r EXCEPT !.todo = r.todo \ {n}]
                ELSE IF p = Unresolved \/ p.type \notin DOMAIN one
                THEN [r EXCEPT !.todo = r.todo \ {n}, !.err = r.err \cup {n}]
                ELSE [r EXCEPT !.todo = r.todo \ {n}, !.at = n, !.left = r.want[n], !.size = one[p.type]]
<1>2. r \in Handlings /\ Progress(r)
  BY AtWork
<1>1. /\ n \in r.todo /\ r.at = NoName /\ h' = [h EXCEPT ![i] = q]
      /\ UNCHANGED <<conf, sender, settled>>
  <2>1. n \in r.todo /\ r.at = NoName /\ UNCHANGED <<conf, sender, settled>>
    BY DEF Visit
  <2>2. h' = [h EXCEPT ![i] = q]
    BY DEF Visit
  <2> QED
    BY <2>1, <2>2
<1> HIDE DEF r
<1>3. CASE r.want[n] = <<>>
  <2>1. q = [r EXCEPT !.todo = r.todo \ {n}]
    BY <1>3
  <2> HIDE DEF q
  <2>2. q \in Handlings /\ Progress(q)
    <3>1. 0 \in Nat
      OBVIOUS
    <3> QED
      BY <1>1, <1>2, <1>3, <2>1, <3>1, VisitsWell, Zenon
  <2> QED
    BY <1>1, <2>2, OneHandlerSteps, Zenon
<1>4. CASE r.want[n] # <<>> /\ (p = Unresolved \/ p.type \notin DOMAIN one)
  <2>1. q = [r EXCEPT !.todo = r.todo \ {n}, !.err = r.err \cup {n}]
    BY <1>4
  <2> HIDE DEF q
  <2>2. q \in Handlings /\ Progress(q)
    <3>1. 0 \in Nat
      OBVIOUS
    <3> QED
      BY <1>1, <1>2, <2>1, <3>1, VisitsWell, Zenon
  <2> QED
    BY <1>1, <2>2, OneHandlerSteps, Zenon
<1>5. CASE r.want[n] # <<>> /\ p # Unresolved /\ p.type \in DOMAIN one
  <2> DEFINE size == one[p.type]
  <2>1. q = [r EXCEPT !.todo = r.todo \ {n}, !.at = n, !.left = r.want[n], !.size = size]
    BY <1>5
  <2>2. size \in Nat
    BY <1>5
  <2> HIDE DEF q, size
  <2>3. q \in Handlings /\ Progress(q)
    BY <1>1, <1>2, <2>1, <2>2, VisitsWell, Zenon
  <2> QED
    BY <1>1, <2>3, OneHandlerSteps, Zenon
<1> QED
  BY <1>3, <1>4, <1>5

\* A chunk that is posted extends what has arrived at this name and leaves the
\* rest of the batch to go.
LEMMA PostSteps ==
    ASSUME HandlersInv, NEW i \in Handlers, postJSON(i)
    PROVE  HandlersInv'
<1> DEFINE r == h[i]
           n == Least(r.size, Len(r.left))
           chunk == SubSeq(r.left, 1, n)
           rest == SubSeq(r.left, n + 1, Len(r.left))
           good == [r EXCEPT !.sent = [r.sent EXCEPT ![r.at] = r.sent[r.at] \o chunk], !.left = rest,
                             !.at = IF rest = <<>> THEN NoName ELSE r.at]
           bad(arrived) == [r EXCEPT !.sent = [r.sent EXCEPT ![r.at] = r.sent[r.at] \o arrived],
                                     !.left = <<>>, !.at = NoName, !.err = r.err \cup {r.at}]
<1>1. /\ r # Idle /\ r.at # NoName /\ UNCHANGED <<conf, sender, settled>>
      /\ \/ h' = [h EXCEPT ![i] = good]
         \/ \E arrived \in {<<>>, chunk} : h' = [h EXCEPT ![i] = bad(arrived)]
  BY DEF postJSON, Arrives
<1>2. r \in Handlings /\ Progress(r)
  BY <1>1, AtWork
<1>3. r.left \in Seq(Evs) /\ r.size \in Nat
  BY <1>2 DEF Handlings
<1>4. chunk \in Seq(Evs) /\ rest \in Seq(Evs) /\ chunk \o rest = r.left
  BY <1>3, ChunkAndRest, Zenon
<1> HIDE DEF r, n, chunk, rest
<1>5. CASE h' = [h EXCEPT ![i] = good]
  <2>1. good \in Handlings /\ Progress(good)
    BY <1>1, <1>2, <1>4, PostsWell, Zenon
  <2> HIDE DEF good
  <2> QED
    BY <1>1, <1>5, <2>1, OneHandlerSteps, ZenonT(30)
<1>6. CASE \E arrived \in {<<>>, chunk} : h' = [h EXCEPT ![i] = bad(arrived)]
  <2>1. PICK arrived \in {<<>>, chunk} : h' = [h EXCEPT ![i] = bad(arrived)]
    BY <1>6, Zenon
  <2> DEFINE q == bad(arrived)
  <2>2. q \in Handlings /\ Progress(q)
    BY <1>1, <1>2, <1>4, PostsWell, Zenon
  <2>3. h' = [h EXCEPT ![i] = q]
    BY <2>1
  <2> HIDE DEF q
  <2> QED
    BY <1>1, <2>2, <2>3, OneHandlerSteps, Zenon
<1> QED
  BY <1>1, <1>5, <1>6

\* What the stage filter keeps of a body is events.
LEMMA KeptType ==
    ASSUME NEW body \in Bodies, body # Garbled
    PROVE  kept(body) \in Seq(Evs)
<1> DEFINE S == {ev \in Events : ev.stage \in {"", "ResponseComplete"}}
<1>1. body \in Seq(Evs)
  BY PipelineAssumption, SeqMonotonic DEF Evs
<1> HIDE DEF S
<1>2. Only(body, S) \in Seq(Evs)
  BY <1>1, OnlyType
<1> QED
  BY <1>2, Zenon DEF kept, S

\* What is notable of events is events.
LEMMA NotableType ==
    ASSUME NEW events \in Seq(Evs), NEW filter
    PROVE  notable(events, filter) \in Seq(Evs)
<1> DEFINE S == {ev \in Events : IsNotableAuditEvent(ev, filter)}
<1> HIDE DEF S
<1>1. Only(events, S) \in Seq(Evs)
  BY OnlyType
<1> QED
  BY <1>1 DEF notable, S

\* A loop over sinks or destinations is entered with everything still to visit.
LEMMA LoopSteps ==
    ASSUME HandlersInv, NEW i \in Handlers, h[i] # Idle, NEW pc \in Loops, NEW list \in Lists,
           NEW todo, NEW want, \A n \in todo : want[n] \in Seq(Evs),
           \/ pc = "alert" /\ h[i].pc \in Fresh /\ todo \subseteq AlertNames
           \/ pc = "sink" /\ h[i].pc = "sinks" /\ todo \subseteq SinkNames,
           Loop(i, pc, list, todo, want), UNCHANGED <<conf, sender, settled>>
    PROVE  HandlersInv'
<1> DEFINE r == h[i]
           w == [n \in Names |-> IF n \in todo THEN want[n] ELSE r.want[n]]
           q == [r EXCEPT !.pc = pc, !.list = list, !.todo = todo, !.want = w]
<1>1. h' = [h EXCEPT ![i] = q]
  BY DEF Loop
<1>2. r \in Handlings /\ Progress(r)
  BY AtWork
<1>3. q \in Handlings /\ Progress(q)
  <2> HIDE DEF r
  <2>1. \/ pc = "alert" /\ r.pc \in Fresh /\ todo \subseteq AlertNames
        \/ pc = "sink" /\ r.pc = "sinks" /\ todo \subseteq SinkNames
    BY DEF r
  <2>2. w \in [Names -> Seq(Evs)] /\ \A n \in Names : n \notin todo => w[n] = r.want[n]
    BY <1>2 DEF Handlings
  <2> HIDE DEF w
  <2> QED
    BY <1>2, <2>1, <2>2, EntersLoop, Zenon
<1> HIDE DEF q
<1> QED
  BY <1>1, <1>3, OneHandlerSteps, Zenon

\* A handler that moves on between its loops has visited all of the last one.
LEMMA MoveSteps ==
    ASSUME HandlersInv, NEW i \in Handlers, NEW pc \in (Fresh \cup {"sinks", "respond"}),
           h[i] # Idle, h[i].todo = {}, h[i].at = NoName,
           \/ pc \in Fresh \cup {"sinks"} /\ h[i].pc \in Fresh
           \/ pc = "sinks" /\ h[i].pc = "alert"
           \/ pc = "respond",
           h' = [h EXCEPT ![i] = [h[i] EXCEPT !.pc = pc]], UNCHANGED <<conf, sender, settled>>
    PROVE  HandlersInv'
<1> DEFINE r == h[i]
           q == [r EXCEPT !.pc = pc]
<1>1. h' = [h EXCEPT ![i] = q]
  OBVIOUS
<1>2. r \in Handlings /\ Progress(r)
  BY AtWork
<1>3. q \in Handlings /\ Progress(q)
  <2>1. /\ r.todo = {} /\ r.at = NoName
        /\ \/ pc \in Fresh \cup {"sinks"} /\ r.pc \in Fresh
           \/ pc = "sinks" /\ r.pc = "alert"
           \/ pc = "respond"
    OBVIOUS
  <2> HIDE DEF r
  <2> QED
    BY <1>2, <2>1, MovesOn
<1> HIDE DEF q
<1> QED
  BY <1>1, <1>3, OneHandlerSteps, Zenon

\* Every step of a handler keeps the invariant: one case per step.
LEMMA HandlerStepsWell ==
    ASSUME HandlersInv, NEW i \in Handlers, Step(i)
    PROVE  HandlersInv'
<1>1. \A r : r = Idle => r.pc = "idle"
  BY DEF Idle
<1>2. conf.alerts \in Lists /\ conf.sinks \in Lists /\ DOMAIN conf.alerts \subseteq AlertNames
      /\ DOMAIN conf.sinks \subseteq SinkNames
  BY DEF HandlersInv, Lists, AlertNames, SinkNames
<1>3. h[i] # Idle => /\ h[i].events \in Seq(Evs) /\ h[i].want \in [Names -> Seq(Evs)]
                     /\ (h[i].pc \notin Loops => h[i].todo = {} /\ h[i].at = NoName)
  BY AtWork, Zenon DEF Handlings, Progress
<1>4. CASE CountEvents(i)
  <2>1. h[i].pc = "count" /\ h' = [h EXCEPT ![i] = [h[i] EXCEPT !.pc = "record"]]
        /\ UNCHANGED <<conf, sender, settled>>
    BY <1>4 DEF CountEvents
  <2> QED
    BY <1>1, <1>3, <2>1, MoveSteps, Zenon DEF Fresh, Loops
<1>5. CASE RecordActivity(i)
  <2>1. h[i].pc = "record" /\ h' = [h EXCEPT ![i] = [h[i] EXCEPT !.pc = "alerts"]]
        /\ UNCHANGED <<conf, sender, settled>>
    BY <1>5 DEF RecordActivity
  <2> QED
    BY <1>1, <1>3, <2>1, MoveSteps, ZenonT(30) DEF Fresh, Loops
<1>6. CASE NotifyAuditActivity(i)
  <2> DEFINE list == conf.alerts
             todo == {n \in DOMAIN list : /\ wantsEventType(list[n].types, "AuditActivity")
                                          /\ Covers(list, n, h[i].kt)}
             want == [n \in todo |-> notable(h[i].events, list[n])]
  <2>1. h[i].pc = "alerts" /\ h[i] # Idle /\ UNCHANGED <<conf, sender, settled>>
    BY <1>1, <1>6 DEF NotifyAuditActivity
  <2>2. CASE Loop(i, "alert", list, todo, want)
    <3>1. todo \subseteq AlertNames /\ \A n \in todo : want[n] \in Seq(Evs)
      BY <1>2, <1>3, <2>1, NotableType
    <3> HIDE DEF list, todo, want
    <3>2. list \in Lists
      BY <1>2 DEF list
    <3> QED
      BY <2>1, <2>2, <3>1, <3>2, LoopSteps DEF Fresh, Loops
  <2>3. CASE h' = [h EXCEPT ![i] = [h[i] EXCEPT !.pc = "sinks"]]
    BY <1>1, <1>3, <2>1, <2>3, MoveSteps, Zenon DEF Fresh, Loops
  <2> QED
    BY <1>6, <2>2, <2>3 DEF NotifyAuditActivity
<1>7. CASE NotifyPodJoin(i)
  <2> DEFINE list == conf.alerts
             todo == {n \in DOMAIN list : /\ wantsEventType(list[n].types, "PodJoin")
                                          /\ Covers(list, n, h[i].kt)}
             want == [n \in todo |-> h[i].events]
  <2>1. h[i].pc = "join" /\ h[i] # Idle /\ UNCHANGED <<conf, sender, settled>>
    BY <1>1, <1>7 DEF NotifyPodJoin
  <2>2. CASE Loop(i, "alert", list, todo, want)
    <3>1. todo \subseteq AlertNames /\ \A n \in todo : want[n] \in Seq(Evs)
      BY <1>2, <1>3, <2>1
    <3> HIDE DEF list, todo, want
    <3>2. list \in Lists
      BY <1>2 DEF list
    <3> QED
      BY <2>1, <2>2, <3>1, <3>2, LoopSteps DEF Fresh, Loops
  <2>3. CASE h' = [h EXCEPT ![i] = Idle]
    BY <2>1, <2>3, OneHandlerSteps, Zenon
  <2> QED
    BY <1>7, <2>2, <2>3 DEF NotifyPodJoin
<1>8. CASE ShipAuditLog(i)
  <2> DEFINE list == conf.sinks
             todo == {n \in DOMAIN list : Covers(list, n, h[i].kt)}
             want == [n \in todo |-> h[i].events]
  <2>1. h[i].pc = "sinks" /\ h[i] # Idle /\ UNCHANGED <<conf, sender, settled>>
    BY <1>1, <1>8 DEF ShipAuditLog
  <2>2. CASE Loop(i, "sink", list, todo, want)
    <3>1. todo \subseteq SinkNames /\ \A n \in todo : want[n] \in Seq(Evs)
      BY <1>2, <1>3, <2>1
    <3> HIDE DEF list, todo, want
    <3>2. list \in Lists
      BY <1>2 DEF list
    <3> QED
      BY <2>1, <2>2, <3>1, <3>2, LoopSteps DEF Fresh, Loops
  <2>3. CASE h' = [h EXCEPT ![i] = [h[i] EXCEPT !.pc = "respond"]]
    BY <1>1, <1>3, <2>1, <2>3, MoveSteps, Zenon DEF Fresh, Loops
  <2> QED
    BY <1>8, <2>2, <2>3 DEF ShipAuditLog
<1>9. ASSUME NEW n \in Names, sendAlert(i, n) PROVE HandlersInv'
  <2> DEFINE one == [x \in {"discord", "generic-webhook"} |->
                        IF x = "discord" THEN EmbedsPerMessage ELSE Len(h[i].want[n])]
  <2>1. h[i] # Idle /\ Visit(i, n, one)
    BY <1>1, <1>9 DEF sendAlert
  <2>2. \A x \in DOMAIN one : one[x] \in Nat
    <3>1. Len(h[i].want[n]) \in Nat
      BY <1>3, <2>1, LenProperties
    <3> QED
      BY <3>1, PipelineAssumption
  <2> HIDE DEF one
  <2> QED
    BY <2>1, <2>2, VisitSteps
<1>10. ASSUME NEW n \in Names, shipToSink(i, n) PROVE HandlersInv'
  <2> DEFINE one == [x \in {"loki", "generic-webhook"} |-> Len(h[i].want[n])]
  <2>1. h[i] # Idle /\ Visit(i, n, one)
    BY <1>1, <1>10 DEF shipToSink
  <2>2. \A x \in DOMAIN one : one[x] \in Nat
    BY <1>3, <2>1, LenProperties
  <2> HIDE DEF one
  <2> QED
    BY <2>1, <2>2, VisitSteps
<1>11. CASE LoopDone(i)
  <2>1. /\ h[i].pc \in Loops /\ h[i] # Idle /\ h[i].todo = {} /\ h[i].at = NoName
        /\ UNCHANGED <<conf, sender, settled>>
    BY <1>1, <1>11 DEF LoopDone, Loops
  <2>2. \/ h' = [h EXCEPT ![i] = Idle]
        \/ h[i].pc = "alert" /\ h' = [h EXCEPT ![i] = [h[i] EXCEPT !.pc = "sinks"]]
        \/ h' = [h EXCEPT ![i] = [h[i] EXCEPT !.pc = "respond"]]
    BY <1>11, Zenon DEF LoopDone
  <2>3. CASE h' = [h EXCEPT ![i] = Idle]
    BY <2>1, <2>3, OneHandlerSteps, Zenon
  <2>4. CASE h[i].pc = "alert" /\ h' = [h EXCEPT ![i] = [h[i] EXCEPT !.pc = "sinks"]]
    BY <2>1, <2>4, MoveSteps, Zenon
  <2>5. CASE h' = [h EXCEPT ![i] = [h[i] EXCEPT !.pc = "respond"]]
    BY <2>1, <2>5, MoveSteps, Zenon
  <2> QED
    BY <2>2, <2>3, <2>4, <2>5
<1>12. CASE Respond(i)
  <2> DEFINE b == h[i].batch
  <2>1. /\ h' = [h EXCEPT ![i] = Idle] /\ conf' = conf /\ settled' = settled \cup {b}
        /\ sender' = IF sender[b].by = i
                     THEN [sender EXCEPT ![b].state = "acked", ![b].by = NoHandler] ELSE sender
    BY <1>12 DEF Respond
  <2> HIDE DEF b
  <2>2. sender' \in [Batches -> [body : Bodies, state : {"new", "waiting", "acked", "failed"},
                                 by : Handlers \cup {NoHandler}]]
    BY <2>1, ZenonT(60) DEF HandlersInv
  <2>3. \A c \in Batches : /\ sender'[c].body = sender[c].body
                           /\ c # b => sender'[c].state = sender[c].state
    BY <2>1 DEF HandlersInv
  <2>4. AckedIsSettled'
    BY <2>1, <2>3, Zenon DEF HandlersInv, AckedIsSettled, kept
  <2>5. DOMAIN h' = Handlers /\ \A j \in Handlers : h'[j] = IF j = i THEN Idle ELSE h[j]
    BY <2>1 DEF HandlersInv
  <2>6. \A j \in Handlers : h'[j] = Idle \/ (h'[j] \in Handlings /\ Progress(h'[j]))
    BY <2>5 DEF HandlersInv
  <2> QED
    BY <2>1, <2>2, <2>4, <2>5, <2>6 DEF HandlersInv
<1> QED
  BY <1>4, <1>5, <1>6, <1>7, <1>8, <1>9, <1>10, <1>11, <1>12, PostSteps DEF Step

-----------------------------------------------------------------------------
(* The theorems *)

\* The handlers' progress and the acknowledgements, in every reachable state:
\* each step of a handler keeps what it has sent in line with what it is to send.
THEOREM HandlersInvariant == Spec => []HandlersInv
<1>1. Init => HandlersInv
  <2> SUFFICES ASSUME Init PROVE HandlersInv
    OBVIOUS
  <2>1. conf \in Configs /\ DOMAIN h = Handlers /\ \A i \in Handlers : h[i] = Idle
    BY DEF Init
  <2>2. sender \in [Batches -> [body : Bodies, state : {"new"}, by : {NoHandler}]]
    BY DEF Init
  <2>3. sender \in [Batches -> [body : Bodies, state : {"new", "waiting", "acked", "failed"},
                                by : Handlers \cup {NoHandler}]]
    BY <2>2
  <2>4. AckedIsSettled
    BY <2>2 DEF AckedIsSettled
  <2> QED
    BY <2>1, <2>3, <2>4 DEF HandlersInv
<1>2. HandlersInv /\ [Next]_vars => HandlersInv'
  <2> SUFFICES ASSUME HandlersInv, [Next]_vars PROVE HandlersInv'
    OBVIOUS
  <2>1. ASSUME NEW b \in Batches, NEW i \in Handlers, Post(b, i) PROVE HandlersInv'
    <3> DEFINE events == kept(sender[b].body)
    <3>1. h[i] = Idle /\ UNCHANGED <<conf, settled>>
      BY <2>1 DEF Post, Free
    <3>2. CASE sender[b].body = Garbled /\ sender' = [sender EXCEPT ![b].state = "failed"] /\ h' = h
      <4>1. sender' \in [Batches -> [body : Bodies, state : {"new", "waiting", "acked", "failed"},
                                     by : Handlers \cup {NoHandler}]]
        BY <3>2 DEF HandlersInv
      <4>2. \A c \in Batches : /\ sender'[c].body = sender[c].body
                               /\ sender'[c].state = "acked" => sender[c].state = "acked"
        BY <3>2 DEF HandlersInv
      <4> QED
        BY <3>1, <3>2, <4>1, <4>2, Zenon DEF HandlersInv, AckedIsSettled, kept
    <3>3. CASE events = <<>> /\ sender' = [sender EXCEPT ![b].state = "acked"] /\ h' = h
      <4>1. sender' \in [Batches -> [body : Bodies, state : {"new", "waiting", "acked", "failed"},
                                     by : Handlers \cup {NoHandler}]]
        BY <3>3 DEF HandlersInv
      <4>2. \A c \in Batches : /\ sender'[c].body = sender[c].body
                               /\ c # b /\ sender'[c].state = "acked" => sender[c].state = "acked"
        BY <3>3 DEF HandlersInv
      <4>3. AckedIsSettled'
        BY <3>1, <3>3, <4>2, Zenon DEF HandlersInv, AckedIsSettled, kept
      <4> QED
        BY <3>1, <3>3, <4>1, <4>3 DEF HandlersInv
    <3>4. CASE /\ sender[b].body # Garbled
               /\ sender' = [sender EXCEPT ![b].state = "waiting", ![b].by = i]
               /\ h' = [h EXCEPT ![i] = Handler("count", From[b], b, events)]
      <4> DEFINE q == Handler("count", From[b], b, events)
      <4>1. sender' \in [Batches -> [body : Bodies, state : {"new", "waiting", "acked", "failed"},
                                     by : Handlers \cup {NoHandler}]]
        BY <3>4, ZenonT(60) DEF HandlersInv
      <4>2. \A c \in Batches : /\ sender'[c].body = sender[c].body
                               /\ sender'[c].state = "acked" => sender[c].state = "acked"
        BY <3>4 DEF HandlersInv
      <4>3. AckedIsSettled'
        BY <3>1, <4>2, Zenon DEF HandlersInv, AckedIsSettled, kept
      <4>4. events \in Seq(Evs)
        BY <3>4, KeptType DEF HandlersInv
      <4>5. q \in Handlings /\ Progress(q)
        <5> HIDE DEF events
        <5>1. From[b] \in Decoys /\ "count" \in Fresh
          BY PipelineAssumption DEF Fresh
        <5> QED
          BY <4>4, <5>1, BeginsWell
      <4>6. DOMAIN h' = Handlers /\ \A j \in Handlers : h'[j] = IF j = i THEN q ELSE h[j]
        <5> HIDE DEF q
        <5>1. h' = [h EXCEPT ![i] = q]
          BY <3>4 DEF q
        <5> QED
          BY <5>1 DEF HandlersInv
      <4> HIDE DEF q
      <4>7. \A j \in Handlers : h'[j] = Idle \/ (h'[j] \in Handlings /\ Progress(h'[j]))
        BY <4>5, <4>6 DEF HandlersInv
      <4> QED
        BY <3>1, <4>1, <4>3, <4>6, <4>7 DEF HandlersInv
    <3> QED
      BY <2>1, <3>2, <3>3, <3>4 DEF Post
  <2>2. ASSUME NEW kt \in Decoys, Reconcile(kt) \/ DeleteObject(kt) \/ CreateObject(kt)
        PROVE  HandlersInv'
    <3>1. UNCHANGED <<h, sender, settled, conf>>
      BY <2>2 DEF Reconcile, DeleteObject, CreateObject
    <3> QED
      BY <3>1, HandlersStay DEF HandlersInv
  <2>3. ASSUME NEW kt \in Decoys, NEW i \in Handlers, Announce(kt, i) PROVE HandlersInv'
    <3> DEFINE events == <<JoinEvent>>
               q == Handler("join", kt, NoName, events)
    <3>1. h' = [h EXCEPT ![i] = q] /\ UNCHANGED <<conf, sender, settled>>
      BY <2>3 DEF Announce
    <3>2. events \in Seq(Evs) /\ "join" \in Fresh
      BY DEF Evs, Fresh
    <3> HIDE DEF events
    <3>3. q \in Handlings /\ Progress(q)
      BY <3>2, BeginsWell
    <3> HIDE DEF q
    <3> QED
      BY <3>1, <3>3, OneHandlerSteps, Zenon
  <2>4. ASSUME NEW b \in Batches, GiveUp(b) PROVE HandlersInv'
    <3>1. /\ UNCHANGED <<h, settled, conf>>
          /\ sender' = [sender EXCEPT ![b] = Again(b)]
      BY <2>4 DEF GiveUp
    <3>2. sender' \in [Batches -> [body : Bodies, state : {"new", "waiting", "acked", "failed"},
                                   by : Handlers \cup {NoHandler}]]
      BY <3>1, ZenonT(60) DEF HandlersInv, Again
    <3>3. \A c \in Batches : /\ sender'[c].body = sender[c].body
                             /\ sender'[c].state = "acked" => sender[c].state = "acked"
      BY <3>1 DEF HandlersInv, Again
    <3> QED
      BY <3>1, <3>2, <3>3, Zenon DEF HandlersInv, AckedIsSettled, kept
  <2>5. CASE EditConfig
    <3>1. UNCHANGED <<h, sender, settled>> /\ conf' \in Configs
      BY <2>5 DEF EditConfig
    <3> QED
      BY <3>1, HandlersStay
  <2>6. CASE Crash
    <3>1. /\ UNCHANGED <<settled, conf>>
          /\ h' = [i \in Handlers |-> Idle]
          /\ sender' = [b \in Batches |-> IF sender[b].state = "waiting" THEN Again(b) ELSE sender[b]]
      BY <2>6 DEF Crash
    <3>2. sender' \in [Batches -> [body : Bodies, state : {"new", "waiting", "acked", "failed"},
                                   by : Handlers \cup {NoHandler}]]
      BY <3>1, ZenonT(60) DEF HandlersInv, Again
    <3>3. \A c \in Batches : /\ sender'[c].body = sender[c].body
                             /\ sender'[c].state = "acked" => sender[c].state = "acked"
      BY <3>1, Zenon DEF HandlersInv, Again
    <3> QED
      BY <3>1, <3>2, <3>3, Zenon DEF HandlersInv, AckedIsSettled, kept
  <2>7. CASE UNCHANGED vars
    BY <2>7, HandlersStay DEF vars, HandlersInv
  <2> QED
    BY <2>1, <2>2, <2>3, <2>4, <2>5, <2>6, <2>7, HandlerStepsWell DEF Next
<1> QED
  BY <1>1, <1>2, PTL DEF Spec

\* DeliveredInFull for any number of handlers, names and batches of any length,
\* and chunks of any size: what an Alert or AuditSink has got from a batch is a
\* prefix of what it is to get, and all of it unless an error was logged or its
\* turn is still to come.  (NotifyAuditActivity, ShipAuditLog, sendDiscord.)
THEOREM EveryoneIsServed == Spec => []DeliveredInFull
<1>1. HandlersInv => DeliveredInFull
  <2> SUFFICES ASSUME HandlersInv, NEW i \in Handlers, h[i] # Idle, NEW n \in Names
               PROVE  /\ IsPrefixOf(h[i].sent[n], h[i].want[n])
                      /\ \/ h[i].sent[n] = h[i].want[n] \/ n \in h[i].err
                         \/ n \in h[i].todo \/ h[i].at = n
    BY DEF DeliveredInFull
  <2> QED
    BY AtWork, Zenon DEF Progress
<1> QED
  BY <1>1, HandlersInvariant, PTL

\* AckedIsSettled: the 200 of NewHandler means that the batch has been through
\* the Dispatcher, or that there was nothing in it to keep.
THEOREM AckMeansSettled == Spec => []AckedIsSettled
<1>1. HandlersInv => AckedIsSettled
  BY DEF HandlersInv
<1> QED
  BY <1>1, HandlersInvariant, PTL
=============================================================================
