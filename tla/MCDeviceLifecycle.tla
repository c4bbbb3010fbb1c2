--------------------------- MODULE MCDeviceLifecycle ----------------------------
(***************************************************************************)
(* The instance of DeviceLifecycle for TLC.                                *)
(***************************************************************************)
EXTENDS DeviceLifecycle

RootAndEmbedded == <<"root", "embedded">>
ServiceOfEmbedded == [root |-> {}, embedded |-> {"service"}]

\* Control points search for the root device.
ForRoot == {[of |-> "root", service |-> NoService]}
================================================================================
