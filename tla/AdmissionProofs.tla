--------------------------- MODULE AdmissionProofs ---------------------------
(***************************************************************************)
(* Proofs about Admission, for Pods with any number of containers, volumes *)
(* and mounts, and for any values of the constants: what a review holds at *)
(* each of its steps, that a rewritten Pod finds the decoy's credentials   *)
(* and nothing else at the ServiceAccount's path, that it is told one      *)
(* address, and that its mounts resolve.  The argument is the invariant    *)
(* AdmissionInv over the Pod under review and the Pod admitted, and an     *)
(* induction over the mounts that MutatePod goes through.                  *)
(***************************************************************************)
EXTENDS Admission, WellFoundedInduction, SequenceTheorems, TLAPS

-----------------------------------------------------------------------------
(* Induction *)

\* Induction, for a set in the place of a predicate: there is no least natural
\* number outside S.
LEMMA SetInduction ==
    ASSUME NEW S, 0 \in S, \A n \in Nat : n \in S => n + 1 \in S
    PROVE  Nat \subseteq S
<1> DEFINE T == Nat \ S
           R == {p \in Nat \X Nat : p[1] < p[2]}
<1> SUFFICES ASSUME T # {} PROVE FALSE
  OBVIOUS
<1>1. IsWellFoundedOn(R, Nat)
  BY NatLessThanWellFounded, Zenon DEF OpToRel
<1>2. PICK n \in T : \A m \in T : <<m, n>> \notin R
  <2> HIDE DEF R
  <2> QED
    BY <1>1, WFMin, Zenon
<1>3. n \in Nat /\ n # 0
  OBVIOUS
<1>4. n - 1 \in Nat /\ <<n - 1, n>> \in R
  BY <1>3
<1>5. n - 1 \in S
  BY <1>2, <1>4
<1> QED
  BY <1>3, <1>4, <1>5

\* Induction up to a bound.
LEMMA BoundedInduction ==
    ASSUME NEW n \in Nat, NEW S, 0 \in S, \A i \in 0 .. (n - 1) : i \in S => i + 1 \in S
    PROVE  0 .. n \subseteq S
<1> DEFINE T == {i \in Nat : i \in S \/ i > n}
<1>1. 0 \in T
  OBVIOUS
<1>2. \A i \in Nat : i \in T => i + 1 \in T
  OBVIOUS
<1>3. Nat \subseteq T
  <2> HIDE DEF T
  <2> QED
    BY <1>1, <1>2, SetInduction
<1> QED
  BY <1>3

\* g starts with a, and step takes each value and its index to the next value.
Iterates(g, n, a, step) == g = [i \in 0 .. n |-> IF i = 0 THEN a ELSE step[<<g[i - 1], i>>]]

\* A function that is to satisfy a recursion exists.
LEMMA RecursionExists ==
    ASSUME NEW n \in Nat, NEW A, NEW a \in A, NEW step \in [A \X (1 .. n) -> A]
    PROVE  \E g \in [0 .. n -> A] : Iterates(g, n, a, step)
<1> DEFINE Solves(g, m) == Iterates(g, m, a, step)
           S == {m \in 0 .. n : \E g \in [0 .. m -> A] : Solves(g, m)}
<1>1. 0 \in S
  <2> DEFINE g == [i \in 0 .. 0 |-> a]
  <2>1. g \in [0 .. 0 -> A] /\ Solves(g, 0)
    BY DEF Iterates
  <2> HIDE DEF g, Solves
  <2> QED
    BY <2>1
<1>2. ASSUME NEW m \in 0 .. (n - 1), m \in S PROVE m + 1 \in S
  <2>1. PICK g \in [0 .. m -> A] : Solves(g, m)
    BY <1>2
  <2> DEFINE f == [i \in 0 .. (m + 1) |-> IF i = m + 1 THEN step[<<g[m], m + 1>>] ELSE g[i]]
  <2>2. m \in 0 .. m /\ m + 1 \in 1 .. n /\ g[m] \in A
    OBVIOUS
  <2>3. step[<<g[m], m + 1>>] \in A
    BY <2>2
  <2>4. f \in [0 .. (m + 1) -> A]
    BY <2>3
  <2>5. \A i \in 0 .. (m + 1) : f[i] = IF i = 0 THEN a ELSE step[<<f[i - 1], i>>]
    <3> TAKE i \in 0 .. (m + 1)
    <3>1. CASE i = m + 1
      <4>1. f[i] = step[<<g[m], m + 1>>] /\ f[m] = g[m]
        BY <3>1
      <4>2. i # 0 /\ i - 1 = m
        BY <3>1
      <4> HIDE DEF f
      <4> QED
        BY <3>1, <4>1, <4>2
    <3>2. CASE i # m + 1
      <4>1. i \in 0 .. m /\ f[i] = g[i] /\ (i # 0 => f[i - 1] = g[i - 1])
        BY <3>2
      <4>2. g[i] = IF i = 0 THEN a ELSE step[<<g[i - 1], i>>]
        BY <2>1, <4>1 DEF Iterates
      <4> QED
        BY <4>1, <4>2, Zenon
    <3> QED
      BY <3>1, <3>2
  <2>6. Solves(f, m + 1)
    <3> HIDE DEF f
    <3> QED
      BY <2>4, <2>5 DEF Iterates
  <2> HIDE DEF f, Solves
  <2> QED
    BY <2>4, <2>6
<1>3. n \in S
  <2> HIDE DEF S
  <2>1. 0 .. n \subseteq S
    BY <1>1, <1>2, BoundedInduction
  <2> QED
    BY <2>1
<1> QED
  BY <1>3

-----------------------------------------------------------------------------
(* The inductive invariant *)

\* OnlyDecoyMounted, OneAddress, of any Pod.
OneMount(mounts, name) ==
    LET there == {i \in DOMAIN mounts : mounts[i].in = name /\ mounts[i].path = SAPath}
    IN  \E i \in there : there = {i} /\ mounts[i].vol = DecoyVolume

HasOnlyDecoy(p) ==
    /\ \A c \in DOMAIN p.containers : OneMount(p.mounts, p.containers[c])
    /\ p.vols \cap AutoVolumes = {DecoyVolume}

HasOneAddress(p) ==
    /\ KubeletEnv(real) \subseteq DOMAIN p.env
    /\ \A u, v \in KubeletEnv(real) : p.env[u] = p.env[v]

\* What is a Pod to MutatePod, and what holds of those it has rewritten.
WellFormed(p) ==
    /\ p # NoPod
    /\ p.containers \in Seq(Containers)
    /\ \A i, j \in DOMAIN p.containers : p.containers[i] = p.containers[j] => i = j
    /\ p.mounts \in Seq(Mounts)

PodOK(p) ==
    /\ WellFormed(p)
    /\ DecoyVolume \in p.vols => HasOnlyDecoy(p) /\ (known => HasOneAddress(p))

AdmissionInv ==
    /\ TypeOK /\ known \in BOOLEAN
    /\ at # "idle" => PodOK(asked) /\ Resolves(asked)
    /\ out # NoPod => PodOK(out)

-----------------------------------------------------------------------------
(* The loop over the mounts *)

\* The volumes taken for automatic ones: the loop satisfies its equation.
LEMMA AutoRecursion ==
    ASSUME NEW pod, pod.mounts \in Seq(Mounts)
    PROVE  /\ AutoVolNames(pod)[0] = pod.vols \cap AutoVolumes
           /\ \A i \in 1 .. Len(pod.mounts) :
                 AutoVolNames(pod)[i] = IF Strips(AutoVolNames(pod)[i - 1], pod.mounts[i])
                                        THEN AutoVolNames(pod)[i - 1] \cup {pod.mounts[i].vol}
                                        ELSE AutoVolNames(pod)[i - 1]
<1> DEFINE n == Len(pod.mounts)
           B == SUBSET (pod.vols \cup Volumes)
           none == pod.vols \cap AutoVolumes
           f == AutoVolNames(pod)
           next(x, i) == IF Strips(x, pod.mounts[i]) THEN x \cup {pod.mounts[i].vol} ELSE x
           step == [p \in B \X (1 .. n) |-> next(p[1], p[2])]
<1>1. n \in Nat /\ none \in B
  BY LenProperties
<1>2. \A x \in B, i \in 1 .. n : next(x, i) \in B
  <2>1. \A i \in 1 .. n : pod.mounts[i] \in Mounts
    OBVIOUS
  <2>2. \A i \in 1 .. n : pod.mounts[i].vol \in Volumes
    BY <2>1 DEF Mounts
  <2> QED
    BY <2>2
<1>3. AutoVolNames(pod) = CHOOSE k : k = [i \in 0 .. n |-> IF i = 0 THEN none ELSE next(k[i - 1], i)]
  BY DEF AutoVolNames
<1> HIDE DEF n, B, none, f, next
<1>4. step \in [B \X (1 .. n) -> B]
  BY <1>2
<1>5. \A x \in B, i \in 1 .. n : step[<<x, i>>] = next(x, i)
  OBVIOUS
<1> HIDE DEF step
<1>6. PICK g \in [0 .. n -> B] : Iterates(g, n, none, step)
  BY <1>1, <1>4, RecursionExists, Zenon
<1>7. \A i \in 0 .. n : i # 0 => i \in 1 .. n /\ i - 1 \in 0 .. n
  BY <1>1
<1>8. g = [i \in 0 .. n |-> IF i = 0 THEN none ELSE next(g[i - 1], i)]
  BY <1>5, <1>6, <1>7 DEF Iterates
<1>9. f = [i \in 0 .. n |-> IF i = 0 THEN none ELSE next(f[i - 1], i)]
  BY <1>3, <1>8, Zenon DEF f
<1>10. f[0] = none /\ \A i \in 1 .. n : f[i] = next(f[i - 1], i)
  BY <1>1, <1>9
<1>11. \A i \in 0 .. n : f[i] \in B
  <2> DEFINE T == {i \in 0 .. n : f[i] \in B}
  <2>1. 0 \in T
    BY <1>1, <1>10
  <2>2. ASSUME NEW i \in 0 .. (n - 1), i \in T PROVE i + 1 \in T
    <3>1. i + 1 \in 1 .. n /\ (i + 1) - 1 = i
      BY <1>1
    <3>2. f[i + 1] = next(f[i], i + 1)
      BY <1>10, <3>1
    <3> QED
      BY <1>1, <1>2, <2>2, <3>1, <3>2
  <2>3. 0 .. n \subseteq T
    <3> HIDE DEF T
    <3> QED
      BY <1>1, <2>1, <2>2, BoundedInduction, Zenon
  <2> QED
    BY <2>3
<1> QED
  BY <1>10, Zenon DEF f, n, none, next

\* The mounts that MutatePod keeps, as it comes to them.
Keeps(pod) == {pod.mounts[j] : j \in {k \in 1 .. Len(pod.mounts) :
                                        ~Strips(AutoVolNames(pod)[k - 1], pod.mounts[k])}}

\* The loop of stripAutoMount keeps mounts of that kind only.
LEMMA KeptRecursion ==
    ASSUME NEW pod, pod.mounts \in Seq(Mounts)
    PROVE  KeptMounts(pod) \in [0 .. Len(pod.mounts) -> Seq(Keeps(pod))]
<1> DEFINE n == Len(pod.mounts)
           B == Seq(Keeps(pod))
           none == <<>>
           f == KeptMounts(pod)
           next(x, i) == IF Strips(AutoVolNames(pod)[i - 1], pod.mounts[i]) THEN x ELSE Append(x, pod.mounts[i])
           step == [p \in B \X (1 .. n) |-> next(p[1], p[2])]
<1>1. n \in Nat /\ none \in B
  BY LenProperties, EmptySeq
<1>2. \A x \in B, i \in 1 .. n : next(x, i) \in B
  <2>1. ASSUME NEW i \in 1 .. n, ~Strips(AutoVolNames(pod)[i - 1], pod.mounts[i])
        PROVE  pod.mounts[i] \in Keeps(pod)
    BY <2>1 DEF Keeps
  <2>2. \A x \in Seq(Keeps(pod)), m \in Keeps(pod) : Append(x, m) \in Seq(Keeps(pod))
    OBVIOUS
  <2> QED
    BY <2>1, <2>2
<1>3. KeptMounts(pod) = CHOOSE k : k = [i \in 0 .. n |-> IF i = 0 THEN none ELSE next(k[i - 1], i)]
  BY DEF KeptMounts
<1> HIDE DEF n, B, none, f, next
<1>4. step \in [B \X (1 .. n) -> B]
  BY <1>2
<1>5. \A x \in B, i \in 1 .. n : step[<<x, i>>] = next(x, i)
  OBVIOUS
<1> HIDE DEF step
<1>6. PICK g \in [0 .. n -> B] : Iterates(g, n, none, step)
  BY <1>1, <1>4, RecursionExists, Zenon
<1>7. \A i \in 0 .. n : i # 0 => i \in 1 .. n /\ i - 1 \in 0 .. n
  BY <1>1
<1>8. g = [i \in 0 .. n |-> IF i = 0 THEN none ELSE next(g[i - 1], i)]
  BY <1>5, <1>6, <1>7 DEF Iterates
<1>9. f = [i \in 0 .. n |-> IF i = 0 THEN none ELSE next(f[i - 1], i)]
  BY <1>3, <1>8, Zenon DEF f
<1>10. f[0] = none /\ \A i \in 1 .. n : f[i] = next(f[i - 1], i)
  BY <1>1, <1>9
<1>11. \A i \in 0 .. n : f[i] \in B
  <2> DEFINE T == {i \in 0 .. n : f[i] \in B}
  <2>1. 0 \in T
    BY <1>1, <1>10
  <2>2. ASSUME NEW i \in 0 .. (n - 1), i \in T PROVE i + 1 \in T
    <3>1. i + 1 \in 1 .. n /\ (i + 1) - 1 = i
      BY <1>1
    <3>2. f[i + 1] = next(f[i], i + 1)
      BY <1>10, <3>1
    <3> QED
      BY <1>1, <1>2, <2>2, <3>1, <3>2
  <2>3. 0 .. n \subseteq T
    <3> HIDE DEF T
    <3> QED
      BY <1>1, <2>1, <2>2, BoundedInduction, Zenon
  <2> QED
    BY <2>3
<1>12. f \in [0 .. n -> B]
  BY <1>9, <1>11
<1> QED
  BY <1>12 DEF f, n, B

\* What is taken for an automatic volume: the Pod's volumes of that kind, and
\* those it mounts at the ServiceAccount's path.
LEMMA AutoVolumesAre ==
    ASSUME NEW pod, pod.mounts \in Seq(Mounts), NEW i \in 0 .. Len(pod.mounts)
    PROVE  /\ pod.vols \cap AutoVolumes \subseteq AutoVolNames(pod)[i]
           /\ \A v \in AutoVolNames(pod)[i] :
                 \/ v \in pod.vols \cap AutoVolumes
                 \/ \E j \in 1 .. Len(pod.mounts) : pod.mounts[j].vol = v /\ pod.mounts[j].path = SAPath
<1> DEFINE n == Len(pod.mounts)
           auto == AutoVolNames(pod)
           first == pod.vols \cap AutoVolumes
           At(v) == \E j \in 1 .. n : pod.mounts[j].vol = v /\ pod.mounts[j].path = SAPath
           S == {k \in 0 .. n : first \subseteq auto[k] /\ \A v \in auto[k] : v \in first \/ At(v)}
<1>1. n \in Nat
  BY LenProperties
<1>2. auto[0] = first
  BY AutoRecursion
<1>3. \A k \in 1 .. n : auto[k] = IF Strips(auto[k - 1], pod.mounts[k])
                                  THEN auto[k - 1] \cup {pod.mounts[k].vol} ELSE auto[k - 1]
  BY AutoRecursion, Zenon
<1>4. \A j \in 1 .. n : pod.mounts[j].path = SAPath => At(pod.mounts[j].vol)
  OBVIOUS
<1> HIDE DEF n, auto, first, At
<1>5. 0 \in S
  BY <1>1, <1>2
<1>6. ASSUME NEW k \in 0 .. (n - 1), k \in S PROVE k + 1 \in S
  <2>1. k + 1 \in 1 .. n /\ (k + 1) - 1 = k /\ k + 1 \in 0 .. n
    BY <1>1
  <2>2. auto[k + 1] = IF Strips(auto[k], pod.mounts[k + 1])
                      THEN auto[k] \cup {pod.mounts[k + 1].vol} ELSE auto[k]
    BY <1>3, <2>1, Zenon
  <2>3. first \subseteq auto[k] /\ \A v \in auto[k] : v \in first \/ At(v)
    BY <1>6
  <2>4. CASE Strips(auto[k], pod.mounts[k + 1])
    <3>1. \A v \in auto[k + 1] : v \in auto[k] \/ v = pod.mounts[k + 1].vol
      BY <2>2, <2>4
    <3>2. pod.mounts[k + 1].vol \in auto[k] \/ At(pod.mounts[k + 1].vol)
      BY <1>4, <2>1, <2>4 DEF Strips
    <3>3. auto[k] \subseteq auto[k + 1]
      BY <2>2, <2>4
    <3> QED
      BY <2>1, <2>3, <3>1, <3>2, <3>3
  <2>5. CASE ~Strips(auto[k], pod.mounts[k + 1])
    BY <2>1, <2>2, <2>3, <2>5
  <2> QED
    BY <2>4, <2>5
<1>7. 0 .. n \subseteq S
  <2> HIDE DEF S
  <2> QED
    BY <1>1, <1>5, <1>6, BoundedInduction
<1>8. i \in S
  BY <1>7 DEF n
<1> QED
  BY <1>8 DEF n, auto, first, At

\* A mount that is kept is one of the Pod's, elsewhere than at the
\* ServiceAccount's path, and of no volume that was automatic to begin with.
LEMMA KeptAre ==
    ASSUME NEW pod, pod.mounts \in Seq(Mounts)
    PROVE  /\ stripAutoMount(pod) \in Seq(Keeps(pod))
           /\ Keeps(pod) \subseteq Mounts
           /\ \A m \in Keeps(pod) : /\ m.path # SAPath /\ m.vol \notin pod.vols \cap AutoVolumes
                                    /\ \E j \in 1 .. Len(pod.mounts) : m = pod.mounts[j]
<1>1. Len(pod.mounts) \in Nat
  BY LenProperties
<1>2. stripAutoMount(pod) \in Seq(Keeps(pod))
  BY <1>1, KeptRecursion DEF stripAutoMount
<1>3. ASSUME NEW m \in Keeps(pod)
      PROVE  /\ m \in Mounts /\ m.path # SAPath /\ m.vol \notin pod.vols \cap AutoVolumes
             /\ \E j \in 1 .. Len(pod.mounts) : m = pod.mounts[j]
  <2>1. PICK k \in 1 .. Len(pod.mounts) :
             m = pod.mounts[k] /\ ~Strips(AutoVolNames(pod)[k - 1], pod.mounts[k])
    BY <1>3 DEF Keeps
  <2>2. k - 1 \in 0 .. Len(pod.mounts)
    BY <1>1
  <2>3. pod.vols \cap AutoVolumes \subseteq AutoVolNames(pod)[k - 1]
    BY <2>2, AutoVolumesAre
  <2>4. m \in Mounts
    BY <2>1
  <2> QED
    BY <2>1, <2>3, <2>4 DEF Strips
<1> QED
  BY <1>2, <1>3

-----------------------------------------------------------------------------
(* MutatePod *)

\* Two sequences in a row.
LEMMA TwoParts ==
    ASSUME NEW A, NEW s \in Seq(A), NEW t \in Seq(A)
    PROVE  /\ s \o t \in Seq(A) /\ Len(s) \in Nat /\ Len(t) \in Nat
           /\ DOMAIN (s \o t) = 1 .. (Len(s) + Len(t))
           /\ \A i \in 1 .. Len(s) : (s \o t)[i] = s[i]
           /\ \A i \in 1 .. Len(t) : (s \o t)[Len(s) + i] = t[i]
OBVIOUS

\* Mounts elsewhere, then one at the ServiceAccount's path for every container:
\* each container has the one.
LEMMA OneMountEach ==
    ASSUME NEW K, \A m \in K : m.path # SAPath,
           NEW k \in Nat, NEW n \in Nat, NEW w, DOMAIN w = 1 .. (k + n), NEW names,
           \A i, j \in 1 .. n : names[i] = names[j] => i = j,
           \A i \in 1 .. k : w[i] \in K,
           \A i \in 1 .. n : /\ w[k + i].in = names[i] /\ w[k + i].vol = DecoyVolume
                            /\ w[k + i].path = SAPath
    PROVE  /\ \A i \in DOMAIN w : w[i] \in K \/ w[i].vol = DecoyVolume
           /\ \A c \in 1 .. n : OneMount(w, names[c])
<1>1. \A i \in 1 .. (k + n) : i \in 1 .. k \/ (i - k \in 1 .. n /\ i = k + (i - k))
  OBVIOUS
<1>2. ASSUME NEW c \in 1 .. n
      PROVE  OneMount(w, names[c])
  <2> DEFINE there == {i \in DOMAIN w : w[i].in = names[c] /\ w[i].path = SAPath}
             i == k + c
  <2>1. i \in there /\ w[i].vol = DecoyVolume
    OBVIOUS
  <2>2. ASSUME NEW j \in there PROVE j = i
    <3>1. j \in 1 .. (k + n) /\ w[j].in = names[c] /\ w[j].path = SAPath
      OBVIOUS
    <3>2. j - k \in 1 .. n /\ j = k + (j - k)
      BY <1>1, <3>1
    <3>3. names[j - k] = names[c]
      BY <3>1, <3>2
    <3>4. j - k = c
      BY <3>2, <3>3
    <3> QED
      BY <3>2, <3>4
  <2> HIDE DEF there, i
  <2>3. there = {i}
    BY <2>1, <2>2
  <2> QED
    BY <2>1, <2>3 DEF there, OneMount
<1>3. ASSUME NEW i \in DOMAIN w PROVE w[i] \in K \/ w[i].vol = DecoyVolume
  <2>1. i \in 1 .. k \/ (i - k \in 1 .. n /\ i = k + (i - k))
    BY <1>1
  <2>2. i - k \in 1 .. n => w[k + (i - k)].vol = DecoyVolume
    OBVIOUS
  <2> QED
    BY <2>1, <2>2
<1> QED
  BY <1>2, <1>3

\* A clusterIP to rewrite a Pod with.
HasAddress(clusterIP) == clusterIP \notin {"", "None"}

\* A rewritten Pod is a Pod, has the decoy's mount and volume and no other of
\* the kind, and its mounts resolve.
LEMMA RewrittenPod ==
    ASSUME NEW pod, WellFormed(pod), NEW decoyNs, NEW clusterIP, HasAddress(clusterIP),
           NEW port, NEW ports
    PROVE  LET q == MutatePod(pod, decoyNs, clusterIP, port, ports)
           IN  /\ WellFormed(q) /\ HasOnlyDecoy(q)
               /\ Resolves(pod) /\ ~SharesSAVolume(pod) => Resolves(q)
               /\ q.env = Overridden(pod.env, kubernetesServiceEnv(clusterIP, port, realKubernetesServicePort(ports)))
<1> DEFINE auto == AutoVolNames(pod)[Len(pod.mounts)]
           kept == stripAutoMount(pod)
           added == [i \in 1 .. Len(pod.containers) |->
                       [in |-> pod.containers[i], vol |-> DecoyVolume, path |-> SAPath]]
           vols == (pod.vols \ auto) \cup {DecoyVolume}
           source == SecretFor(pod.ns, decoyNs)
           mounts == kept \o added
           settings == Overridden(pod.env, kubernetesServiceEnv(clusterIP, port, realKubernetesServicePort(ports)))
           q == MutatePod(pod, decoyNs, clusterIP, port, ports)
<1>1. q = [ns |-> pod.ns, vols |-> vols, source |-> source, containers |-> pod.containers,
           mounts |-> mounts, env |-> settings]
  BY Zenon DEF MutatePod, HasAddress
<1> HIDE DEF q
<1>2. q.containers = pod.containers /\ q.mounts = kept \o added /\ q.vols = vols /\ q.env = settings
  <2> HIDE DEF vols, source, settings, kept, added
  <2> QED
    BY <1>1
<1>3. q # NoPod
  <2> HIDE DEF vols, source, settings, mounts
  <2>1. DOMAIN q = {"ns", "vols", "source", "containers", "mounts", "env"}
    BY <1>1
  <2>2. DOMAIN NoPod = {"ns"}
    BY DEF NoPod
  <2>3. {"ns", "vols", "source", "containers", "mounts", "env"} # {"ns"}
    OBVIOUS
  <2> QED
    BY <2>1, <2>2, <2>3
<1>4. /\ q.mounts \in Seq(Mounts)
      /\ \A i \in DOMAIN q.mounts : q.mounts[i] \in Keeps(pod) \/ q.mounts[i].vol = DecoyVolume
      /\ \A c \in DOMAIN pod.containers : OneMount(q.mounts, pod.containers[c])
  <2> DEFINE K == Keeps(pod)
             names == pod.containers
             n == Len(names)
             k == Len(kept)
             w == q.mounts
             M == Mounts
  <2>1. /\ pod.mounts \in Seq(Mounts) /\ names \in Seq(Containers)
        /\ \A i, j \in DOMAIN names : names[i] = names[j] => i = j
    BY DEF WellFormed
  <2>2. kept \in Seq(K) /\ K \subseteq M /\ \A m \in K : m.path # SAPath
    BY <2>1, KeptAre
  <2>3. n \in Nat /\ DOMAIN names = 1 .. n /\ \A i \in 1 .. n : names[i] \in Containers
    BY <2>1, LenProperties
  <2>4. \A i \in 1 .. n : /\ added[i].in = names[i] /\ added[i].vol = DecoyVolume
                         /\ added[i].path = SAPath
    OBVIOUS
  <2>5. added \in [1 .. n -> M]
    <3>1. \A x \in Containers : [in |-> x, vol |-> DecoyVolume, path |-> SAPath] \in Mounts
      BY ServiceAssumption DEF Mounts
    <3> QED
      BY <2>3, <3>1
  <2>6. w = kept \o added
    BY <1>2
  <2> HIDE DEF K, names, w, kept, added, n, M
  <2>7. added \in Seq(M) /\ Len(added) = n
    BY <2>3, <2>5
  <2>8. kept \in Seq(M) /\ k \in Nat /\ \A i \in 1 .. k : kept[i] \in K
    BY <2>2, SeqMonotonic, LenProperties
  <2> HIDE DEF k
  <2>9. /\ w \in Seq(M) /\ DOMAIN w = 1 .. (k + n)
        /\ \A i \in 1 .. k : w[i] = kept[i]
        /\ \A i \in 1 .. n : w[k + i] = added[i]
    BY <2>6, <2>7, <2>8, TwoParts DEF k
  <2>10. /\ \A i \in 1 .. k : w[i] \in K
         /\ \A i \in 1 .. n : /\ w[k + i].in = names[i] /\ w[k + i].vol = DecoyVolume
                              /\ w[k + i].path = SAPath
    BY <2>4, <2>8, <2>9
  <2>11. \A i, j \in 1 .. n : names[i] = names[j] => i = j
    BY <2>1, <2>3
  <2>12. /\ \A i \in DOMAIN w : w[i] \in K \/ w[i].vol = DecoyVolume
         /\ \A c \in 1 .. n : OneMount(w, names[c])
    BY <2>2, <2>3, <2>8, <2>9, <2>10, <2>11, OneMountEach, ZenonT(60)
  <2> QED
    BY <2>3, <2>9, <2>12 DEF w, K, M, names
<1>5. WellFormed(q)
  BY <1>2, <1>3, <1>4 DEF WellFormed
<1>6. pod.mounts \in Seq(Mounts) /\ Len(pod.mounts) \in 0 .. Len(pod.mounts)
  <2>1. pod.mounts \in Seq(Mounts)
    BY DEF WellFormed
  <2> QED
    BY <2>1, LenProperties
<1>7. pod.vols \cap AutoVolumes \subseteq auto
  BY <1>6, AutoVolumesAre
<1>8. \A v \in auto : \/ v \in pod.vols \cap AutoVolumes
                     \/ \E j \in 1 .. Len(pod.mounts) : pod.mounts[j].vol = v /\ pod.mounts[j].path = SAPath
  BY <1>6, AutoVolumesAre
<1>9. q.vols \cap AutoVolumes = {DecoyVolume}
  <2> HIDE DEF auto
  <2> QED
    BY <1>2, <1>7, ServiceAssumption
<1>10. HasOnlyDecoy(q)
  BY <1>2, <1>4, <1>9 DEF HasOnlyDecoy
<1>11. ASSUME Resolves(pod), ~SharesSAVolume(pod) PROVE Resolves(q)
  <2> SUFFICES ASSUME NEW i \in DOMAIN q.mounts PROVE q.mounts[i].vol \in vols
    BY <1>2, Zenon DEF Resolves
  <2>1. CASE q.mounts[i] \in Keeps(pod)
    <3> DEFINE m == q.mounts[i]
    <3>1. /\ m.path # SAPath /\ m.vol \notin pod.vols \cap AutoVolumes
          /\ \E j \in 1 .. Len(pod.mounts) : m = pod.mounts[j]
      BY <1>6, <2>1, KeptAre
    <3>2. PICK j \in 1 .. Len(pod.mounts) : m = pod.mounts[j]
      BY <3>1
    <3>3. DOMAIN pod.mounts = 1 .. Len(pod.mounts)
      BY <1>6, LenProperties
    <3>4. m.vol \in pod.vols
      BY <1>11, <3>2, <3>3 DEF Resolves
    <3>5. m.vol \notin auto
      BY <1>8, <1>11, <3>1, <3>2, <3>3 DEF SharesSAVolume
    <3> QED
      BY <3>4, <3>5
  <2>2. CASE q.mounts[i].vol = DecoyVolume
    BY <2>2
  <2> QED
    BY <1>4, <2>1, <2>2
<1> QED
  BY <1>2, <1>5, <1>10, <1>11 DEF q

\* A Pod rewritten with the real Service's port is told one address.
LEMMA RewrittenEnv ==
    ASSUME real \in RealServices, NEW old, NEW clusterIP, NEW port, NEW q,
           q.env = Overridden(old, kubernetesServiceEnv(clusterIP, port, realKubernetesServicePort(real)))
    PROVE  HasOneAddress(q)
<1> DEFINE n == real[1].port
           new == kubernetesServiceEnv(clusterIP, port, n)
           fits == {i \in 1 .. Len(real) : real[i].name = "https" \/ Len(real) = 1}
<1>1. Len(real) = 1
  BY ServiceAssumption
<1>2. realKubernetesServicePort(real) = n
  <2>1. fits = {1}
    BY <1>1
  <2> HIDE DEF fits
  <2>2. (CHOOSE i \in fits : \A j \in fits : i <= j) = 1
    BY <2>1
  <2> QED
    BY <2>1, <2>2 DEF realKubernetesServicePort, fits
<1> HIDE DEF n
<1>3. KubeletEnv(real) \subseteq DOMAIN new
  <2>1. UNION {PerPort(real[i].port) : i \in 1 .. Len(real)} = PerPort(n)
    BY <1>1 DEF n
  <2> QED
    BY <2>1 DEF KubeletEnv, kubernetesServiceEnv
<1>4. \A v \in DOMAIN new : new[v] = <<clusterIP, port>>
  BY DEF kubernetesServiceEnv
<1> HIDE DEF new
<1>5. q.env = Overridden(old, new)
  BY <1>2 DEF new
<1>6. DOMAIN new \subseteq DOMAIN q.env /\ \A v \in DOMAIN new : q.env[v] = new[v]
  BY <1>5 DEF Overridden
<1> QED
  BY <1>3, <1>4, <1>6 DEF HasOneAddress

-----------------------------------------------------------------------------
(* The theorems *)

\* The Pods of Shapes are Pods to MutatePod.
LEMMA ShapesAreOK ==
    ASSUME NEW p \in Shapes
    PROVE  WellFormed(p) /\ Resolves(p) /\ DecoyVolume \notin p.vols
BY ShapeAssumption DEF WellFormed, Resolves

\* What a review holds at each of its steps, and what holds of the Pod it is
\* about and of the Pod it has admitted.
THEOREM AdmissionInvariant == Spec => []AdmissionInv
<1>1. Init => AdmissionInv
  BY ServiceAssumption DEF Init, AdmissionInv, TypeOK
<1>2. AdmissionInv /\ [Next]_vars => AdmissionInv'
  <2> SUFFICES ASSUME AdmissionInv, [Next]_vars PROVE AdmissionInv'
    OBVIOUS
  <2>1. ASSUME UNCHANGED <<real, known>>, NEW p PROVE PodOK(p)' = PodOK(p)
    BY <2>1 DEF PodOK, WellFormed, HasOnlyDecoy, HasOneAddress, OneMount
  <2>2. CASE Create
    <3>1. /\ at = "idle" /\ at' = "decoy" /\ out' = NoPod
          /\ asked' \in Shapes \/ (out # NoPod /\ asked' = out /\ Resolves(out))
          /\ UNCHANGED <<real, decoy, ip, kt, svc, known, env>>
      BY <2>2 DEF Create, Exported
    <3>2. \A p \in Shapes : PodOK(p)' /\ Resolves(p)
      BY ShapesAreOK DEF PodOK, WellFormed
    <3>3. PodOK(asked)' /\ Resolves(asked)' /\ asked' # NoPod
      <4>1. CASE asked' \in Shapes
        BY <3>2, <4>1 DEF PodOK, WellFormed, Resolves
      <4>2. CASE out # NoPod /\ asked' = out /\ Resolves(out)
        BY <2>1, <3>1, <4>2 DEF AdmissionInv, PodOK, WellFormed, Resolves
      <4> QED
        BY <3>1, <4>1, <4>2
    <3>4. TypeOK'
      BY <3>1, <3>3 DEF AdmissionInv, TypeOK
    <3> QED
      BY <3>1, <3>3, <3>4 DEF AdmissionInv
  <2>3. CASE FailOpen
    <3>1. /\ at # "idle" /\ out' = asked /\ asked' = NoPod /\ at' = "idle"
          /\ UNCHANGED <<real, decoy, ip, env, known>>
      BY <2>3 DEF FailOpen, Allow
    <3>2. PodOK(asked)
      BY <3>1 DEF AdmissionInv
    <3>3. PodOK(out)'
      BY <2>1, <3>1, <3>2
    <3>4. TypeOK'
      BY <3>1, Zenon DEF AdmissionInv, TypeOK
    <3> QED
      BY <3>1, <3>3, <3>4 DEF AdmissionInv
  <2>4. CASE getDecoy
    <3>1. /\ at = "decoy" /\ decoy # None /\ kt' = decoy /\ at' = "service"
          /\ UNCHANGED <<real, decoy, ip, asked, svc, out, known, env>>
      BY <2>4 DEF getDecoy
    <3>2. (PodOK(asked) => PodOK(asked)') /\ (PodOK(out) => PodOK(out)')
          /\ (Resolves(asked) => Resolves(asked)')
      BY <2>1, <3>1 DEF Resolves
    <3>3. TypeOK'
      BY <3>1 DEF AdmissionInv, TypeOK
    <3> QED
      BY <3>1, <3>2, <3>3 DEF AdmissionInv
  <2>5. CASE getService
    <3>1. /\ at = "service" /\ ip \notin {None, "", "None"} /\ svc' = ip /\ at' = "rewrite"
          /\ UNCHANGED <<real, decoy, ip, asked, kt, out, known, env>>
      BY <2>5, Zenon DEF getService
    <3>2. (PodOK(asked) => PodOK(asked)') /\ (PodOK(out) => PodOK(out)')
          /\ (Resolves(asked) => Resolves(asked)')
      BY <2>1, <3>1, Zenon DEF Resolves
    <3>3. TypeOK'
      BY <3>1, Zenon DEF AdmissionInv, TypeOK
    <3> QED
      BY <3>1, <3>2, <3>3, Zenon DEF AdmissionInv
  <2>6. CASE rewrite
    <3> DEFINE ports == IF known' THEN real ELSE <<>>
               q == MutatePod(asked, DecoyNs, svc, kt, ports)
    <3>1. /\ at = "rewrite" /\ known' \in BOOLEAN /\ out' = q /\ asked' = NoPod /\ at' = "idle"
          /\ UNCHANGED <<real, decoy, ip, env>>
      BY <2>6 DEF rewrite, Allow
    <3>2. WellFormed(asked) /\ HasAddress(svc)
      BY <3>1, Zenon DEF AdmissionInv, TypeOK, PodOK, HasAddress
    <3>3. /\ WellFormed(q) /\ HasOnlyDecoy(q)
          /\ q.env = Overridden(asked.env, kubernetesServiceEnv(svc, kt, realKubernetesServicePort(ports)))
      <4> HIDE DEF ports
      <4> QED
        BY <3>2, RewrittenPod
    <3>4. known' => HasOneAddress(q)
      <4> HIDE DEF q
      <4>1. SUFFICES ASSUME known' PROVE HasOneAddress(q)
        OBVIOUS
      <4>2. q.env = Overridden(asked.env, kubernetesServiceEnv(svc, kt, realKubernetesServicePort(real)))
        BY <3>3, <4>1
      <4>3. real \in RealServices
        BY Zenon DEF AdmissionInv, TypeOK
      <4> QED
        BY <4>2, <4>3, RewrittenEnv
    <3> HIDE DEF q
    <3>5. PodOK(out)'
      <4>1. ASSUME NEW p, WellFormed(p), HasOnlyDecoy(p), known' => HasOneAddress(p)
            PROVE  PodOK(p)'
        <5>1. WellFormed(p)' /\ HasOnlyDecoy(p)'
          BY <4>1 DEF WellFormed, HasOnlyDecoy, OneMount
        <5>2. HasOneAddress(p)' = HasOneAddress(p)
          BY <3>1 DEF HasOneAddress
        <5> QED
          BY <4>1, <5>1, <5>2 DEF PodOK
      <4> QED
        BY <3>1, <3>3, <3>4, <4>1
    <3>6. TypeOK'
      BY <3>1, Zenon DEF AdmissionInv, TypeOK
    <3> QED
      BY <3>1, <3>5, <3>6 DEF AdmissionInv
  <2>7. CASE ChangeCluster
    <3>1. /\ env < MaxEnv /\ env' = env + 1
          /\ decoy' \in DecoyPorts \cup {None} /\ ip' \in ServiceIPs \cup {None}
          /\ UNCHANGED <<real, asked, at, kt, svc, out, known>>
      BY <2>7 DEF ChangeCluster
    <3>2. (PodOK(asked) => PodOK(asked)') /\ (PodOK(out) => PodOK(out)')
          /\ (Resolves(asked) => Resolves(asked)')
      BY <2>1, <3>1 DEF Resolves
    <3>3. TypeOK'
      <4>1. env \in 0 .. MaxEnv /\ MaxEnv \in Nat
        BY ServiceAssumption, Zenon DEF AdmissionInv, TypeOK
      <4>2. env' \in 0 .. MaxEnv
        BY <3>1, <4>1
      <4> QED
        BY <3>1, <4>2, Zenon DEF AdmissionInv, TypeOK
    <3> QED
      BY <3>1, <3>2, <3>3 DEF AdmissionInv
  <2>8. CASE UNCHANGED vars
    BY <2>1, <2>8, Zenon DEF vars, AdmissionInv, TypeOK, Resolves
  <2> QED
    BY <2>2, <2>3, <2>4, <2>5, <2>6, <2>7, <2>8 DEF Next
<1> QED
  BY <1>1, <1>2, PTL DEF Spec

\* TypeOK for any clusters and Pods: at each step a review has what the step
\* needs.  (review, Get of the Decoy and of its Service, MutatePod.)
THEOREM ReviewIsReady == Spec => []TypeOK
<1>1. AdmissionInv => TypeOK
  BY DEF AdmissionInv
<1> QED
  BY <1>1, AdmissionInvariant, PTL

\* OnlyDecoyMounted for Pods with any containers, volumes and mounts: MutatePod
\* leaves one mount at the ServiceAccount's path of every container, the decoy's.
THEOREM DecoyIsAllThatIsMounted == Spec => []OnlyDecoyMounted
<1>1. AdmissionInv => OnlyDecoyMounted
  <2> SUFFICES ASSUME AdmissionInv, Trapped PROVE OnlyDecoyMounted
    BY DEF OnlyDecoyMounted
  <2>1. HasOnlyDecoy(out)
    BY DEF AdmissionInv, PodOK, Trapped, podIsRedirected
  <2> QED
    BY <2>1 DEF HasOnlyDecoy, OneMount, OnlyDecoyMounted
<1> QED
  BY <1>1, AdmissionInvariant, PTL

\* OneAddress for any ports: kubernetesServiceEnv overrides every variable the
\* kubelet sets for the real Service, also in a Pod admitted for a second time.
THEOREM OneAddressIsTold == Spec => []OneAddress
<1>1. AdmissionInv => OneAddress
  <2> SUFFICES ASSUME AdmissionInv, Trapped, known PROVE OneAddress
    BY DEF OneAddress
  <2>1. HasOneAddress(out)
    BY DEF AdmissionInv, PodOK, Trapped, podIsRedirected
  <2> QED
    BY <2>1 DEF HasOneAddress, OneAddress
<1> QED
  BY <1>1, AdmissionInvariant, PTL

\* MountsResolve for Pods with any volumes and mounts: what a rewrite takes out
\* of the Pod's volumes it takes out of its mounts.
THEOREM MountsAlwaysResolve == Spec => MountsResolve
<1> DEFINE A == (at = "rewrite" /\ at' = "idle" /\ out' # asked /\ ~SharesSAVolume(asked)) => Resolves(out')
<1>1. AdmissionInv /\ [Next]_vars => [A]_vars
  <2> SUFFICES ASSUME AdmissionInv, Next, at = "rewrite", at' = "idle", out' # asked,
                      ~SharesSAVolume(asked)
               PROVE  Resolves(out')
    OBVIOUS
  <2>1. rewrite
    BY DEF Next, Create, FailOpen, Allow, getDecoy, getService, ChangeCluster
  <2> DEFINE ports == IF known' THEN real ELSE <<>>
             q == MutatePod(asked, DecoyNs, svc, kt, ports)
  <2>2. out' = q
    BY <2>1 DEF rewrite, Allow
  <2>3. WellFormed(asked) /\ HasAddress(svc) /\ Resolves(asked)
    BY Zenon DEF AdmissionInv, TypeOK, PodOK, HasAddress
  <2>4. Resolves(q)
    <3> HIDE DEF ports
    <3> QED
      BY <2>3, RewrittenPod
  <2> QED
    BY <2>2, <2>4
<1> QED
  BY <1>1, AdmissionInvariant, PTL DEF Spec, MountsResolve
=============================================================================
