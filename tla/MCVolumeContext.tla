-------------------------- MODULE MCVolumeContext ---------------------------
(* Instances of VolumeContext for TLC. *)
EXTENDS VolumeContext

CONSTANTS c1, c2

\* A class of a known driver with two topology terms, and a plain one.
TwoClasses ==
    {[provisioner |-> "pxd.portworx.com",
      volumeBindingMode |-> "WaitForFirstConsumer",
      allowedTopologies |-> << <<"zone a">>, <<"zone b", "rack 1">> >>],
     [provisioner |-> "example.org/nfs", volumeBindingMode |-> Nil,
      allowedTopologies |-> <<>>]}

=============================================================================
