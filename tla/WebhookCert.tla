---------------------------- MODULE WebhookCert ----------------------------
(***************************************************************************)
(* The serving certificate of the join webhook: EnsureWebhookServingCert   *)
(* (webhookcert.go) under the retry loop of cmd/manager/main.go, and the   *)
(* WebhookCABundleReconciler (webhookca_controller.go) that publishes its  *)
(* CA in the MutatingWebhookConfiguration.  Managers elect no leader, so   *)
(* several run at once, during a roll-out at least; calls fail, managers   *)
(* are killed, users re-apply the configuration and delete the Secret.     *)
(*                                                                         *)
(* A value of Certs stands for a CA with the key pair it has signed.       *)
(***************************************************************************)
EXTENDS Naturals

CONSTANTS
    Managers,
    Certs,     \* what GenerateCA and IssueServerCert may come up with
    NoCert,    \* no Secret, nothing served, an empty caBundle
    Broken,    \* a Secret whose key pair does not parse
    Hooks,     \* the webhooks of the configuration
    Steps,     \* certBackoff: calls of EnsureWebhookServingCert
    MaxEnv     \* bound on failures and interventions

ASSUME CertAssumption ==
    /\ NoCert \notin Certs /\ Broken \notin Certs /\ NoCert # Broken
    /\ Steps \in Nat \ {0} /\ MaxEnv \in Nat

VARIABLES
    secret,    \* the Secret: NoCert, Broken or what is stored
    lost,      \* auxiliary: a user has deleted or overwritten it
    used,      \* certificates generated so far
    pc,        \* where each manager is
    tries,     \* calls of EnsureWebhookServingCert it has made
    made,      \* what it has generated and not stored yet
    served,    \* webhookCert and webhookCAPEM, fixed once main has them
    present,   \* there is a MutatingWebhookConfiguration
    bundle,    \* the caBundle of its webhooks
    dirty,     \* managers with an event of it in the work queue
    held,      \* managers between Get and Update, with a copy that is current
    stale,     \* the same, with one that is not
    env

certs == <<secret, lost, used, pc, tries, made, served>>
config == <<present, bundle, dirty, held, stale>>
vars == <<secret, lost, used, pc, tries, made, served, present, bundle, dirty, held, stale, env>>

Init ==
    /\ secret = NoCert /\ lost = FALSE /\ used = {}
    /\ pc = [m \in Managers |-> "down"]
    /\ tries = [m \in Managers |-> 0]
    /\ made = [m \in Managers |-> NoCert]
    /\ served = [m \in Managers |-> NoCert]
    /\ present = TRUE /\ bundle = [w \in Hooks |-> NoCert]
    /\ dirty = {} /\ held = {} /\ stale = {}
    /\ env = 0

Disturb == env < MaxEnv /\ env' = env + 1

-----------------------------------------------------------------------------
(* Startup: the certificate *)

Start(m) ==
    /\ pc[m] = "down"
    /\ pc' = [pc EXCEPT ![m] = "load"]
    /\ tries' = [tries EXCEPT ![m] = 1]
    /\ UNCHANGED <<secret, lost, used, made, served, config, env>>

\* An error: main waits and calls again, or gives up and exits.
Retry(m) ==
    /\ pc' = [pc EXCEPT ![m] = IF tries[m] < Steps THEN "load" ELSE "down"]
    /\ tries' = [tries EXCEPT ![m] = IF @ < Steps THEN @ + 1 ELSE 0]
    /\ made' = [made EXCEPT ![m] = NoCert]
    /\ UNCHANGED <<secret, lost, used, served, config>>

\* main has its certificate: the webhook server and the reconciler get it, and
\* the cache of the latter reports the configuration.
Serve(m, c) ==
    /\ pc' = [pc EXCEPT ![m] = "up"]
    /\ served' = [served EXCEPT ![m] = c]
    /\ made' = [made EXCEPT ![m] = NoCert]
    /\ dirty' = dirty \cup {m}
    /\ UNCHANGED <<lost, tries, present, bundle, held, stale>>

\* loadStored, the first time: only NotFound is a reason to generate.
loadStored(m) ==
    /\ pc[m] = "load"
    /\ \/ /\ secret \in Certs /\ Serve(m, secret) /\ UNCHANGED <<secret, used, env>>
       \/ /\ secret = NoCert /\ pc' = [pc EXCEPT ![m] = "generate"]
          /\ UNCHANGED <<secret, lost, used, tries, made, served, config, env>>
       \/ /\ secret = Broken /\ Retry(m) /\ UNCHANGED env
       \/ /\ Disturb /\ Retry(m)

\* Fresh keys every time; which of those never used is of no account.
generateWebhookServingCert(m) ==
    /\ pc[m] = "generate" /\ Certs \ used # {}
    /\ LET c == CHOOSE c \in Certs : c \notin used IN
         /\ made' = [made EXCEPT ![m] = c]
         /\ used' = used \cup {c}
    /\ pc' = [pc EXCEPT ![m] = "create"]
    /\ UNCHANGED <<secret, lost, tries, served, config, env>>

\* Mutant: what was generated is served, whoever has won the create.
ServeGenerated(m) ==
    /\ pc[m] = "create"
    /\ secret' = IF secret = NoCert THEN made[m] ELSE secret
    /\ Serve(m, made[m]) /\ UNCHANGED <<used, env>>

\* Mutant: what was generated replaces what is stored.
StoreAnyway(m) ==
    /\ pc[m] = "create"
    /\ secret' = made[m]
    /\ Serve(m, made[m]) /\ UNCHANGED <<used, env>>

\* The Create of EnsureWebhookServingCert: a failed one may have landed.
createSecret(m) ==
    /\ pc[m] = "create"
    /\ \/ /\ secret = NoCert /\ secret' = made[m] /\ Serve(m, made[m])
          /\ UNCHANGED <<used, env>>
       \/ /\ secret # NoCert /\ pc' = [pc EXCEPT ![m] = "reload"]
          /\ UNCHANGED <<secret, lost, used, tries, made, served, config, env>>
       \/ /\ Disturb /\ Retry(m)
       \/ /\ Disturb /\ secret = NoCert /\ secret' = made[m]
          /\ pc' = [pc EXCEPT ![m] = IF tries[m] < Steps THEN "load" ELSE "down"]
          /\ tries' = [tries EXCEPT ![m] = IF @ < Steps THEN @ + 1 ELSE 0]
          /\ made' = [made EXCEPT ![m] = NoCert]
          /\ UNCHANGED <<lost, used, served, config>>

\* Mutant: the winner of the create is waited for.
WaitForWinner(m) ==
    /\ pc[m] = "reload"
    /\ secret \in Certs /\ Serve(m, secret) /\ UNCHANGED <<secret, used, env>>

\* loadStored after AlreadyExists: here NotFound is an error like any other.
loadWinner(m) ==
    /\ pc[m] = "reload"
    /\ \/ /\ secret \in Certs /\ Serve(m, secret) /\ UNCHANGED <<secret, used, env>>
       \/ /\ secret \notin Certs /\ Retry(m) /\ UNCHANGED env
       \/ /\ Disturb /\ Retry(m)

-----------------------------------------------------------------------------
(* WebhookCABundleReconciler *)

Drift(m) == \E w \in Hooks : bundle[w] # served[m]

\* Mutant: a caBundle that is set is taken for one that is right.
OnlyWhenEmpty(m) ==
    /\ pc[m] = "up" /\ m \in dirty /\ dirty' = dirty \ {m}
    /\ held' = IF present /\ \A w \in Hooks : bundle[w] = NoCert THEN held \cup {m} ELSE held
    /\ UNCHANGED <<certs, present, bundle, stale, env>>

\* Reconcile up to the Get: nothing to do, or a copy to be changed.
getConfig(m) ==
    /\ pc[m] = "up" /\ m \in dirty /\ m \notin held \cup stale
    /\ \/ /\ dirty' = dirty \ {m}
          /\ held' = IF present /\ Drift(m) THEN held \cup {m} ELSE held
          /\ UNCHANGED env
       \/ /\ Disturb /\ UNCHANGED <<dirty, held>>
    /\ UNCHANGED <<certs, present, bundle, stale>>

\* Any write of the configuration: copies go stale, and the watches report it.
Written(newBundle, writers) ==
    /\ bundle' = newBundle
    /\ stale' = stale \cup (held \ writers) /\ held' = {}
    /\ dirty' = {m \in Managers : pc[m] = "up"}

\* The Update: a copy that is not current, or an error, queues it again.
updateConfig(m) ==
    /\ \/ /\ m \in held /\ Written([w \in Hooks |-> served[m]], {m}) /\ UNCHANGED env
       \/ /\ m \in stale
          /\ stale' = stale \ {m} /\ dirty' = dirty \cup {m}
          /\ UNCHANGED <<bundle, held, env>>
       \/ /\ m \in held /\ Disturb
          /\ held' = held \ {m} /\ dirty' = dirty \cup {m}
          /\ UNCHANGED <<bundle, stale>>
    /\ UNCHANGED <<certs, present>>

-----------------------------------------------------------------------------
(* The environment *)

\* kubectl apply of webhook.yaml, a Helm upgrade: some caBundles are emptied.
ApplyConfig ==
    /\ Disturb /\ present' = TRUE
    /\ \E W \in SUBSET Hooks \ {{}} :
         Written([w \in Hooks |-> IF w \in W \/ ~present THEN NoCert ELSE bundle[w]], {})
    /\ UNCHANGED certs

DeleteConfig ==
    /\ Disturb /\ present /\ present' = FALSE
    /\ Written([w \in Hooks |-> NoCert], {})
    /\ UNCHANGED certs

LoseSecret ==
    /\ Disturb /\ secret' \in {NoCert, Broken} /\ lost' = TRUE
    /\ UNCHANGED <<used, pc, tries, made, served, config>>

Crash(m) ==
    /\ Disturb /\ pc[m] # "down"
    /\ pc' = [pc EXCEPT ![m] = "down"]
    /\ tries' = [tries EXCEPT ![m] = 0]
    /\ made' = [made EXCEPT ![m] = NoCert]
    /\ served' = [served EXCEPT ![m] = NoCert]
    /\ dirty' = dirty \ {m} /\ held' = held \ {m} /\ stale' = stale \ {m}
    /\ UNCHANGED <<secret, lost, used, present, bundle>>

-----------------------------------------------------------------------------
Manager(m) ==
    \/ Start(m) \/ loadStored(m) \/ generateWebhookServingCert(m)
    \/ createSecret(m) \/ loadWinner(m)

Reconcile(m) == getConfig(m) \/ updateConfig(m)

Next ==
    \/ \E m \in Managers : Manager(m) \/ Reconcile(m) \/ Crash(m)
    \/ ApplyConfig \/ DeleteConfig \/ LoseSecret

Spec == Init /\ [][Next]_vars

\* A manager that is down is started by its Deployment and goes on; its work
\* queue hands out what is in it.
FairSpec ==
    Spec /\ \A m \in Managers : WF_vars(Manager(m)) /\ WF_vars(Reconcile(m))

-----------------------------------------------------------------------------
(* Properties *)

\* Secret, managers and configuration keep their shape; no manager makes more
\* calls of EnsureWebhookServingCert than the backoff allows.
TypeOK ==
    /\ secret \in Certs \cup {NoCert, Broken} /\ lost \in BOOLEAN
    /\ used \subseteq Certs
    /\ pc \in [Managers -> {"down", "load", "generate", "create", "reload", "up"}]
    /\ tries \in [Managers -> 0 .. Steps]
    /\ made \in [Managers -> Certs \cup {NoCert}]
    /\ served \in [Managers -> Certs \cup {NoCert}]
    /\ present \in BOOLEAN /\ bundle \in [Hooks -> Certs \cup {NoCert}]
    /\ dirty \subseteq Managers /\ held \subseteq Managers /\ stale \subseteq Managers
    /\ env \in 0 .. MaxEnv

Choice == INSTANCE CertChoice WITH stored <- secret

\* Two managers that start at once, one that crashes between the generation
\* and the Create, one whose Create landed and was reported as failed: all of
\* it implements the choice of one certificate.  (EnsureWebhookServingCert.)
OneCertChosen == Choice!Spec

\* As long as nobody takes the Secret away, every manager serves the pair that
\* is stored and the caBundle is empty or the CA of that pair.
ServedIsStored ==
    ~lost => /\ \A m \in Managers : served[m] \in {NoCert, secret}
             /\ \A w \in Hooks : bundle[w] \in {NoCert, secret}

\* "the caBundle never needs to change once set": a step of a manager never
\* replaces one CA by another, also not one of a manager that has just
\* restarted, as long as the Secret is kept.
BundleNeverReplaced ==
    [][~lost' => \A w \in Hooks : bundle[w] # NoCert => bundle'[w] \in {bundle[w], NoCert}]_vars

\* Every manager gets its certificate in the end, unless a user has left one
\* that does not parse in the Secret.
EventuallyUp == <>[](secret = Broken \/ \A m \in Managers : pc[m] = "up")

\* When the configuration is left alone, its caBundles end as the CA of what
\* is served, however often it was emptied, recreated or updated from two
\* sides; two managers of which one has outlived the Secret are excepted, they
\* undo each other's updates for ever.
EventuallyTrusted ==
    <>[](\/ ~present
         \/ \E m \in Managers : pc[m] # "up"
         \/ \E m, n \in Managers : served[m] # served[n]
         \/ \A m \in Managers, w \in Hooks : bundle[w] = served[m])
=============================================================================
