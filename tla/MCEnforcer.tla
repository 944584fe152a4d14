----------------------------- MODULE MCEnforcer -----------------------------
(* Enforcer on the instances of EnforcerModels that meet what the theorems  *)
(* of EnforcerProofs ask for.                                               *)
EXTENDS EnforcerModels

ASSUME InstanceSound == WellPlaced /\ WellListed /\ WellWrapped

=============================================================================
