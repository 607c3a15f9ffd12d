-------------------- MODULE MCEnforcementPolicyStore ----------------------
(* The instance of the policy store for TLC is in the .cfg file: all       *)
(* constants are model values, numbers or sets of model values.            *)
EXTENDS EnforcementPolicyStore, TLC

===========================================================================
