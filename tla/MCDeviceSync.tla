---------------------------- MODULE MCDeviceSync ----------------------------
(* Instances of DeviceSync: a project p and a site s below it.              *)
EXTENDS DeviceSync

CONSTANTS p, s

MCParent == [e \in Entities |-> p]
=============================================================================
