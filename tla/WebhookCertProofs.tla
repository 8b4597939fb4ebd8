------------------------- MODULE WebhookCertProofs -------------------------
(***************************************************************************)
(* Whatever the number of managers, webhooks, retries and faults: the      *)
(* managers implement the choice of one certificate, and as long as the    *)
(* Secret is kept they agree with it and with each other.                  *)
(***************************************************************************)
EXTENDS WebhookCert, TLAPS

\* What ServedIsStored needs: what is about to be stored is a certificate, only
\* a manager that is up serves one, and only such a manager updates the bundle.
CertInv ==
    /\ TypeOK
    /\ \A m \in Managers : pc[m] = "create" => made[m] \in Certs
    /\ \A m \in Managers : pc[m] # "up" => served[m] = NoCert
    /\ \A m \in held : pc[m] = "up"
    /\ ServedIsStored

-----------------------------------------------------------------------------
\* The initial states satisfy the invariant.
LEMMA CertInit == Init => CertInv
<1> SUFFICES ASSUME Init PROVE CertInv
  OBVIOUS
<1>1. /\ secret \in Certs \cup {NoCert, Broken} /\ used \subseteq Certs
      /\ pc \in [Managers -> {"down", "load", "generate", "create", "reload", "up"}]
      /\ tries \in [Managers -> 0 .. Steps]
      /\ made \in [Managers -> Certs \cup {NoCert}]
      /\ served \in [Managers -> Certs \cup {NoCert}]
      /\ bundle \in [Hooks -> Certs \cup {NoCert}]
      /\ dirty \subseteq Managers /\ held \subseteq Managers /\ stale \subseteq Managers
      /\ env \in 0 .. MaxEnv
  BY CertAssumption DEF Init
<1>2. lost \in BOOLEAN /\ present \in BOOLEAN
  BY Zenon DEF Init
<1>3. /\ \A m \in Managers : pc[m] = "down" /\ served[m] = NoCert
      /\ \A w \in Hooks : bundle[w] = NoCert
      /\ held = {}
  BY DEF Init
<1> QED
  BY <1>1, <1>2, <1>3 DEF CertInv, TypeOK, ServedIsStored

\* Giving up or trying again changes nothing the invariant is about.
LEMMA RetryKeepsInv ==
  ASSUME CertInv, NEW m \in Managers, pc[m] # "up", Retry(m), env' \in 0 .. MaxEnv
  PROVE  CertInv'
<1> USE CertAssumption
<1>1. TypeOK'
  BY DEF CertInv, TypeOK, Retry, config
<1>2. \A n \in Managers : pc'[n] = "create" => made'[n] \in Certs
  BY DEF CertInv, TypeOK, Retry, config
<1>3. \A n \in Managers : pc'[n] # "up" => served'[n] = NoCert
  BY DEF CertInv, TypeOK, Retry, config
<1>4. \A n \in held' : pc'[n] = "up"
  BY DEF CertInv, TypeOK, Retry, config
<1>5. ServedIsStored'
  BY DEF CertInv, ServedIsStored, Retry, config
<1> QED
  BY <1>1, <1>2, <1>3, <1>4, <1>5 DEF CertInv

\* A manager that comes up serves what is stored at that moment.
LEMMA ServeKeepsInv ==
  ASSUME CertInv, NEW m \in Managers, pc[m] # "up", NEW c \in Certs,
         Serve(m, c), secret' = c, secret \in {NoCert, c}, UNCHANGED <<used, env>>
  PROVE  CertInv'
<1> USE CertAssumption
<1>1. TypeOK'
  BY DEF CertInv, TypeOK, Serve
<1>2. \A n \in Managers : pc'[n] = "create" => made'[n] \in Certs
  BY DEF CertInv, TypeOK, Serve
<1>3. \A n \in Managers : pc'[n] # "up" => served'[n] = NoCert
  BY DEF CertInv, TypeOK, Serve
<1>4. \A n \in held' : pc'[n] = "up"
  BY DEF CertInv, TypeOK, Serve
<1>5. ServedIsStored'
  BY DEF CertInv, TypeOK, ServedIsStored, Serve
<1> QED
  BY <1>1, <1>2, <1>3, <1>4, <1>5 DEF CertInv

\* A failed call is counted within the bound.
LEMMA DisturbBounded ==
  ASSUME TypeOK, Disturb PROVE env' \in 0 .. MaxEnv
  BY CertAssumption DEF TypeOK, Disturb

\* A configuration that is rewritten with what a manager serves, or emptied.
LEMMA WrittenKeepsInv ==
  ASSUME CertInv, NEW b, NEW W, Written(b, W), W \subseteq Managers,
         b \in [Hooks -> Certs \cup {NoCert}],
         ~lost => \A w \in Hooks : b[w] \in {NoCert, secret},
         present' \in BOOLEAN, UNCHANGED certs, env' \in 0 .. MaxEnv
  PROVE  CertInv'
<1> USE CertAssumption
<1>1. TypeOK'
  BY DEF CertInv, TypeOK, Written, certs
<1>2. /\ \A n \in Managers : pc'[n] = "create" => made'[n] \in Certs
      /\ \A n \in Managers : pc'[n] # "up" => served'[n] = NoCert
      /\ \A n \in held' : pc'[n] = "up"
  BY DEF CertInv, Written, certs
<1>3. ServedIsStored'
  BY DEF CertInv, ServedIsStored, Written, certs
<1> QED
  BY <1>1, <1>2, <1>3 DEF CertInv

-----------------------------------------------------------------------------
\* Every step of a manager on its way to a certificate keeps the invariant.
LEMMA ManagerKeepsInv ==
  ASSUME CertInv, NEW m \in Managers, Manager(m) PROVE CertInv'
<1> USE CertAssumption
<1>0. TypeOK
  BY DEF CertInv
<1>1. CASE Start(m)
  BY <1>1 DEF CertInv, TypeOK, ServedIsStored, Start, config
<1>2. CASE loadStored(m)
  <2>1. CASE secret \in Certs /\ Serve(m, secret) /\ UNCHANGED <<secret, used, env>>
    BY <1>2, <2>1, ServeKeepsInv DEF loadStored
  <2>2. CASE /\ secret = NoCert /\ pc' = [pc EXCEPT ![m] = "generate"]
             /\ UNCHANGED <<secret, lost, used, tries, made, served, config, env>>
    BY <1>2, <2>2 DEF CertInv, TypeOK, ServedIsStored, loadStored, config
  <2>3. CASE secret = Broken /\ Retry(m) /\ UNCHANGED env
    BY <1>0, <1>2, <2>3, RetryKeepsInv DEF loadStored, TypeOK
  <2>4. CASE Disturb /\ Retry(m)
    BY <1>0, <1>2, <2>4, RetryKeepsInv, DisturbBounded DEF loadStored
  <2> QED
    BY <1>2, <2>1, <2>2, <2>3, <2>4 DEF loadStored
<1>3. CASE generateWebhookServingCert(m)
  <2>1. PICK c \in Certs : made' = [made EXCEPT ![m] = c] /\ used' = used \cup {c}
    BY <1>3, Zenon DEF generateWebhookServingCert
  <2>2. TypeOK'
    BY <1>0, <1>3, <2>1 DEF TypeOK, generateWebhookServingCert, config
  <2>3. /\ \A n \in Managers : pc'[n] = "create" => made'[n] \in Certs
        /\ \A n \in Managers : pc'[n] # "up" => served'[n] = NoCert
        /\ \A n \in held' : pc'[n] = "up"
    BY <1>3, <2>1 DEF CertInv, TypeOK, generateWebhookServingCert, config
  <2>4. ServedIsStored'
    BY <1>3 DEF CertInv, ServedIsStored, generateWebhookServingCert, config
  <2> QED
    BY <2>2, <2>3, <2>4 DEF CertInv
<1>4. CASE createSecret(m)
  <2>0. made[m] \in Certs /\ pc[m] = "create"
    BY <1>4 DEF CertInv, createSecret
  <2>1. CASE secret = NoCert /\ secret' = made[m] /\ Serve(m, made[m]) /\ UNCHANGED <<used, env>>
    BY <2>0, <2>1, ServeKeepsInv
  <2>2. CASE /\ secret # NoCert /\ pc' = [pc EXCEPT ![m] = "reload"]
             /\ UNCHANGED <<secret, lost, used, tries, made, served, config, env>>
    BY <2>0, <2>2 DEF CertInv, TypeOK, ServedIsStored, config
  <2>3. CASE Disturb /\ Retry(m)
    BY <1>0, <2>0, <2>3, RetryKeepsInv, DisturbBounded
  <2>4. CASE /\ Disturb /\ secret = NoCert /\ secret' = made[m]
             /\ pc' = [pc EXCEPT ![m] = IF tries[m] < Steps THEN "load" ELSE "down"]
             /\ tries' = [tries EXCEPT ![m] = IF @ < Steps THEN @ + 1 ELSE 0]
             /\ made' = [made EXCEPT ![m] = NoCert]
             /\ UNCHANGED <<lost, used, served, config>>
    <3>1. env' \in 0 .. MaxEnv
      BY <1>0, <2>4, DisturbBounded
    <3>2. TypeOK'
      BY <1>0, <2>0, <2>4, <3>1 DEF TypeOK, config
    <3>3. /\ \A n \in Managers : pc'[n] = "create" => made'[n] \in Certs
          /\ \A n \in Managers : pc'[n] # "up" => served'[n] = NoCert
          /\ \A n \in held' : pc'[n] = "up"
      BY <2>0, <2>4 DEF CertInv, TypeOK, config
    <3>4. ServedIsStored'
      BY <2>0, <2>4 DEF CertInv, ServedIsStored, config
    <3> QED
      BY <3>2, <3>3, <3>4 DEF CertInv
  <2> QED
    BY <1>4, <2>1, <2>2, <2>3, <2>4 DEF createSecret
<1>5. CASE loadWinner(m)
  <2>1. CASE secret \in Certs /\ Serve(m, secret) /\ UNCHANGED <<secret, used, env>>
    BY <1>5, <2>1, ServeKeepsInv DEF loadWinner
  <2>2. CASE secret \notin Certs /\ Retry(m) /\ UNCHANGED env
    BY <1>0, <1>5, <2>2, RetryKeepsInv DEF loadWinner, TypeOK
  <2>3. CASE Disturb /\ Retry(m)
    BY <1>0, <1>5, <2>3, RetryKeepsInv, DisturbBounded DEF loadWinner
  <2> QED
    BY <1>5, <2>1, <2>2, <2>3 DEF loadWinner
<1> QED
  BY <1>1, <1>2, <1>3, <1>4, <1>5 DEF Manager

\* So does every step of the CA bundle's reconciler.
LEMMA ReconcileKeepsInv ==
  ASSUME CertInv, NEW m \in Managers, Reconcile(m) PROVE CertInv'
<1> USE CertAssumption
<1>0. TypeOK
  BY DEF CertInv
<1>1. CASE getConfig(m)
  <2>1. env' \in 0 .. MaxEnv
    BY <1>0, <1>1, DisturbBounded DEF getConfig, TypeOK
  <2>2. dirty' \subseteq Managers /\ held' \subseteq held \cup {m}
    BY <1>0, <1>1 DEF getConfig, TypeOK
  <2>3. TypeOK'
    BY <1>0, <1>1, <2>1, <2>2 DEF getConfig, TypeOK, certs
  <2>4. \A n \in held' : pc'[n] = "up"
    BY <1>1, <2>2 DEF CertInv, getConfig, certs
  <2>5. ServedIsStored'
    BY <1>1 DEF CertInv, ServedIsStored, getConfig, certs
  <2> QED
    BY <1>1, <2>3, <2>4, <2>5 DEF CertInv, getConfig, certs
<1>2. CASE updateConfig(m)
  <2>1. CASE m \in held /\ Written([w \in Hooks |-> served[m]], {m}) /\ UNCHANGED env
    <3>1. /\ [w \in Hooks |-> served[m]] \in [Hooks -> Certs \cup {NoCert}]
          /\ ~lost => \A w \in Hooks : [v \in Hooks |-> served[m]][w] \in {NoCert, secret}
      BY DEF CertInv, TypeOK, ServedIsStored
    <3>2. present' \in BOOLEAN /\ UNCHANGED certs /\ env' \in 0 .. MaxEnv
      BY <1>0, <1>2, <2>1 DEF updateConfig, TypeOK
    <3> QED
      BY <2>1, <3>1, <3>2, WrittenKeepsInv
  <2>2. CASE /\ m \in stale
             /\ stale' = stale \ {m} /\ dirty' = dirty \cup {m}
             /\ UNCHANGED <<bundle, held, env>>
    BY <1>2, <2>2 DEF CertInv, TypeOK, ServedIsStored, updateConfig, certs
  <2>3. CASE /\ m \in held /\ Disturb
             /\ held' = held \ {m} /\ dirty' = dirty \cup {m}
             /\ UNCHANGED <<bundle, stale>>
    <3>1. env' \in 0 .. MaxEnv
      BY <1>0, <2>3, DisturbBounded
    <3> QED
      BY <1>2, <2>3, <3>1 DEF CertInv, TypeOK, ServedIsStored, updateConfig, certs
  <2> QED
    BY <1>2, <2>1, <2>2, <2>3 DEF updateConfig
<1> QED
  BY <1>1, <1>2 DEF Reconcile

\* Crashes and users keep it too: the latter set lost when they must.
LEMMA EnvironmentKeepsInv ==
  ASSUME CertInv, (\E m \in Managers : Crash(m)) \/ ApplyConfig \/ DeleteConfig \/ LoseSecret
  PROVE  CertInv'
<1> USE CertAssumption
<1>0. TypeOK
  BY DEF CertInv
<1>1. ASSUME NEW m \in Managers, Crash(m) PROVE CertInv'
  <2>1. env' \in 0 .. MaxEnv
    BY <1>0, <1>1, DisturbBounded DEF Crash
  <2>2. TypeOK'
    BY <1>0, <1>1, <2>1 DEF TypeOK, Crash
  <2>3. /\ \A n \in Managers : pc'[n] = "create" => made'[n] \in Certs
        /\ \A n \in Managers : pc'[n] # "up" => served'[n] = NoCert
        /\ \A n \in held' : pc'[n] = "up"
    BY <1>1 DEF CertInv, TypeOK, Crash
  <2>4. ServedIsStored'
    BY <1>1 DEF CertInv, TypeOK, ServedIsStored, Crash
  <2> QED
    BY <2>2, <2>3, <2>4 DEF CertInv
<1>2. CASE ApplyConfig
  <2>1. PICK W \in SUBSET Hooks \ {{}} :
          Written([w \in Hooks |-> IF w \in W \/ ~present THEN NoCert ELSE bundle[w]], {})
    BY <1>2, Zenon DEF ApplyConfig
  <2> DEFINE b == [w \in Hooks |-> IF w \in W \/ ~present THEN NoCert ELSE bundle[w]]
  <2>2. b \in [Hooks -> Certs \cup {NoCert}]
    BY <1>0 DEF TypeOK
  <2>3. ~lost => \A w \in Hooks : b[w] \in {NoCert, secret}
    BY DEF CertInv, ServedIsStored
  <2>4. present' \in BOOLEAN /\ UNCHANGED certs /\ env' \in 0 .. MaxEnv
    BY <1>0, <1>2, DisturbBounded DEF ApplyConfig
  <2>5. Written(b, {})
    BY <2>1
  <2> HIDE DEF b
  <2> QED
    BY <2>2, <2>3, <2>4, <2>5, WrittenKeepsInv
<1>3. CASE DeleteConfig
  <2> DEFINE b == [w \in Hooks |-> NoCert]
  <2>1. b \in [Hooks -> Certs \cup {NoCert}] /\ \A w \in Hooks : b[w] = NoCert
    OBVIOUS
  <2>2. present' \in BOOLEAN /\ UNCHANGED certs /\ env' \in 0 .. MaxEnv
    BY <1>0, <1>3, DisturbBounded, Zenon DEF DeleteConfig
  <2>3. Written(b, {})
    BY <1>3 DEF DeleteConfig
  <2> HIDE DEF b
  <2> QED
    BY <2>1, <2>2, <2>3, WrittenKeepsInv
<1>4. CASE LoseSecret
  <2>1. env' \in 0 .. MaxEnv
    BY <1>0, <1>4, DisturbBounded DEF LoseSecret
  <2> QED
    BY <1>4, <2>1 DEF CertInv, TypeOK, ServedIsStored, LoseSecret, config
<1> QED
  BY <1>1, <1>2, <1>3, <1>4

\* The invariant is inductive.
LEMMA CertNext == CertInv /\ [Next]_vars => CertInv'
<1> SUFFICES ASSUME CertInv, [Next]_vars PROVE CertInv'
  OBVIOUS
<1>1. CASE UNCHANGED vars
  BY <1>1 DEF CertInv, TypeOK, ServedIsStored, vars
<1>2. CASE Next
  BY <1>2, ManagerKeepsInv, ReconcileKeepsInv, EnvironmentKeepsInv DEF Next
<1> QED
  BY <1>1, <1>2

\* It holds in every reachable state.
LEMMA CertInvariance == Spec => []CertInv
  BY CertInit, CertNext, PTL DEF Spec

-----------------------------------------------------------------------------
\* As long as the Secret is kept, every manager serves what is stored in it
\* and the caBundles are empty or its CA (EnsureWebhookServingCert and
\* WebhookCABundleReconciler, for any number of managers).
THEOREM CertServedIsStored == Spec => []ServedIsStored
<1>1. CertInv => ServedIsStored
  BY DEF CertInv
<1> QED
  BY <1>1, CertInvariance, PTL

\* No step replaces one CA in the configuration by another as long as the
\* Secret is kept.
THEOREM CertBundleStable == Spec => BundleNeverReplaced
<1>1. CertInv /\ CertInv' /\ [Next]_vars
        => [~lost' => \A w \in Hooks : bundle[w] # NoCert => bundle'[w] \in {bundle[w], NoCert}]_vars
  <2> SUFFICES ASSUME CertInv, CertInv', Next, ~lost', NEW w \in Hooks, bundle[w] # NoCert
               PROVE  bundle'[w] \in {bundle[w], NoCert}
    BY DEF vars
  <2>1. ASSUME NEW m \in Managers, Manager(m) PROVE bundle'[w] = bundle[w]
    BY <2>1 DEF Manager, Start, loadStored, generateWebhookServingCert, createSecret,
                loadWinner, Serve, Retry, config
  <2>2. ASSUME NEW m \in Managers, Reconcile(m) PROVE bundle'[w] \in {bundle[w], NoCert}
    <3>1. UNCHANGED certs
      BY <2>2 DEF Reconcile, getConfig, updateConfig
    <3>2. bundle[w] = secret /\ bundle'[w] \in {NoCert, secret}
      BY <3>1 DEF CertInv, ServedIsStored, certs
    <3> QED
      BY <3>2
  <2>3. ASSUME NEW m \in Managers, Crash(m) PROVE bundle'[w] = bundle[w]
    BY <2>3 DEF Crash
  <2>4. CASE ApplyConfig
    BY <2>4 DEF ApplyConfig, Written
  <2>5. CASE DeleteConfig
    BY <2>5 DEF DeleteConfig, Written
  <2>6. CASE LoseSecret
    BY <2>6 DEF LoseSecret, config
  <2> QED
    BY <2>1, <2>2, <2>3, <2>4, <2>5, <2>6 DEF Next
<1> QED
  BY <1>1, CertInvariance, PTL DEF Spec, BundleNeverReplaced

-----------------------------------------------------------------------------
\* A step of a manager is a choice, an adoption or nothing at all.
LEMMA ManagerRefines ==
  ASSUME CertInv, NEW m \in Managers, Manager(m)
  PROVE  Choice!Next \/ UNCHANGED <<secret, lost, served>>
<1>1. CASE Start(m)
  BY <1>1 DEF Start
<1>2. CASE loadStored(m)
  <2>1. CASE secret \in Certs /\ Serve(m, secret) /\ UNCHANGED <<secret, used, env>>
    BY <2>1, Zenon DEF Serve, Choice!Next, Choice!Adopt
  <2> QED
    BY <1>2, <2>1 DEF loadStored, Retry
<1>3. CASE generateWebhookServingCert(m)
  BY <1>3 DEF generateWebhookServingCert
<1>4. CASE createSecret(m)
  <2>0. made[m] \in Certs
    BY <1>4 DEF CertInv, createSecret
  <2>1. CASE secret = NoCert /\ secret' = made[m] /\ Serve(m, made[m]) /\ UNCHANGED <<used, env>>
    BY <2>0, <2>1, Zenon DEF Serve, Choice!Next, Choice!Choose
  <2>2. CASE secret = NoCert /\ secret' = made[m] /\ UNCHANGED <<lost, served>>
    BY <2>0, <2>2 DEF Choice!Next, Choice!Choose
  <2> QED
    BY <1>4, <2>1, <2>2 DEF createSecret, Retry
<1>5. CASE loadWinner(m)
  <2>1. CASE secret \in Certs /\ Serve(m, secret) /\ UNCHANGED <<secret, used, env>>
    BY <2>1, Zenon DEF Serve, Choice!Next, Choice!Adopt
  <2> QED
    BY <1>5, <2>1 DEF loadWinner, Retry
<1> QED
  BY <1>1, <1>2, <1>3, <1>4, <1>5 DEF Manager

\* The managers implement the abstract choice of one certificate: concurrent
\* starts, failed and half-failed Creates and crashes included.
THEOREM CertRefinement == Spec => OneCertChosen
<1>1. Init => Choice!Init
  BY DEF Init, Choice!Init
<1>2. CertInv /\ [Next]_vars => [Choice!Next]_(Choice!vars)
  <2> SUFFICES ASSUME CertInv, [Next]_vars
               PROVE  Choice!Next \/ UNCHANGED <<secret, lost, served>>
    BY DEF Choice!vars
  <2>1. CASE UNCHANGED vars
    BY <2>1 DEF vars
  <2>2. ASSUME NEW m \in Managers, Reconcile(m) PROVE UNCHANGED <<secret, lost, served>>
    BY <2>2 DEF Reconcile, getConfig, updateConfig, certs
  <2>3. ASSUME NEW m \in Managers, Crash(m) PROVE Choice!Next
    BY <2>3, Zenon DEF Crash, Choice!Next, Choice!Stop
  <2>4. CASE ApplyConfig \/ DeleteConfig
    BY <2>4 DEF ApplyConfig, DeleteConfig, certs
  <2>5. CASE LoseSecret
    BY <2>5, Zenon DEF LoseSecret, Choice!Next, Choice!Lose
  <2> QED
    BY <2>1, <2>2, <2>3, <2>4, <2>5, ManagerRefines DEF Next
<1> QED
  BY <1>1, <1>2, CertInvariance, PTL DEF Spec, OneCertChosen, Choice!Spec
=============================================================================
