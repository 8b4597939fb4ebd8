------------------------- MODULE MCDecoyController -------------------------
(***************************************************************************)
(* Instances of DecoyController for TLC: one or two Decoys, a Pod, two     *)
(* namespaces.                                                             *)
(***************************************************************************)
EXTENDS DecoyController, TLC

CONSTANTS d1, d2, p1, n1, n2

\* One Decoy per namespace, with names of their own.
ApartNs == d1 :> n1 @@ d2 :> n2
OwnNames == d1 :> "a" @@ d2 :> "b"

\* One Decoy.
OneNs == d1 :> n1
OneName == d1 :> "a"

\* The Pod is in the other namespace.
OnePodAway == p1 :> n2

=============================================================================
