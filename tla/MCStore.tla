------------------------------ MODULE MCStore ------------------------------
(***************************************************************************)
(* Instances of Store for TLC.                                             *)
(***************************************************************************)
EXTENDS Store, TLC

CONSTANTS a, b, ps

\* Instance a and the lister share a process and its Store; b does not.
SharedStore == (a :> a) @@ (ps :> a) @@ (b :> b)

\* Two instances of two identities.
TwoIdentities == (a :> 1) @@ (b :> 2)
=============================================================================
