---------------------------- MODULE MCAddonScan -----------------------------
(* Model-checking instances of AddonScan.                                  *)
EXTENDS AddonScan, TLC

CONSTANTS n1, n2, r1, r2

\* Two releases in two namespaces, so that two informers report at once.
MCNamespaceOf == (r1 :> n1) @@ (r2 :> n2)

\* The releases can be exchanged together with their namespaces.
ReleaseSymmetry == {(r1 :> r2) @@ (r2 :> r1) @@ (n1 :> n2) @@ (n2 :> n1)}
=============================================================================
