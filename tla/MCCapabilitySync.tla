-------------------------- MODULE MCCapabilitySync --------------------------
(* Model-checking instance of CapabilitySync.                              *)
EXTENDS CapabilitySync

CrdForms == {[versions |-> <<"v1", "v2">>, storage |-> 2, management |-> ""]}

ProviderForms == {[revision |-> "r1", management |-> ""]}

Sizes == [o \in Names |-> IF o \in Crds THEN 3 ELSE 1]
============================================================================
