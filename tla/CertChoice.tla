----------------------------- MODULE CertChoice -----------------------------
(***************************************************************************)
(* What the managers promise about the webhook's serving certificate, with *)
(* no word on how: the first one stored is the one everybody serves, and   *)
(* another can come only after somebody has taken the stored one away.     *)
(***************************************************************************)
CONSTANTS Managers, Certs, NoCert, Broken

VARIABLES
    stored,  \* the certificate all agree on
    lost,    \* somebody other than a manager has removed or spoilt it
    served   \* what each manager serves

vars == <<stored, lost, served>>

Init ==
    /\ stored = NoCert /\ lost = FALSE
    /\ served = [m \in Managers |-> NoCert]

\* One certificate is chosen, and perhaps served by the one who brought it.
Choose(m, c) ==
    /\ stored = NoCert /\ stored' = c
    /\ served' = served \/ served' = [served EXCEPT ![m] = c]
    /\ UNCHANGED lost

Adopt(m) ==
    /\ stored \in Certs
    /\ served' = [served EXCEPT ![m] = stored]
    /\ UNCHANGED <<stored, lost>>

Stop(m) ==
    /\ served' = [served EXCEPT ![m] = NoCert]
    /\ UNCHANGED <<stored, lost>>

Lose ==
    /\ stored' \in {NoCert, Broken} /\ lost' = TRUE
    /\ UNCHANGED served

Next ==
    \/ \E m \in Managers : Adopt(m) \/ Stop(m) \/ \E c \in Certs : Choose(m, c)
    \/ Lose

Spec == Init /\ [][Next]_vars
=============================================================================
