----------------------------- MODULE MCActivity -----------------------------
(* Instances of Activity for TLC. *)
EXTENDS Activity

CONSTANTS d1, d2, h1, h2, ip1

=============================================================================
