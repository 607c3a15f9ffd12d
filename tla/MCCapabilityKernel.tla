------------------------- MODULE MCCapabilityKernel -------------------------
(* Instances of CapabilityKernel for TLC. *)
EXTENDS CapabilityKernel

CONSTANT e1

TwoStepsThenOne == <<2, 1, 1>>
TwoAttemptsThenOne == <<2, 2, 1>>
=============================================================================
