--------------------------- MODULE MCOcmAgentPods ---------------------------
(* The OcmAgent controller and its pods for TLC.                           *)
EXTENDS OcmAgentPods, MCInstances

=============================================================================
