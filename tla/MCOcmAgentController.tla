------------------------ MODULE MCOcmAgentController ------------------------
(* The OcmAgent controller for TLC.                                        *)
EXTENDS OcmAgentProperties, MCInstances

=============================================================================
