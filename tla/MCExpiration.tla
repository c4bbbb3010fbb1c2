------------------------------ MODULE MCExpiration ------------------------------
(***************************************************************************)
(* Instances of Expiration for TLC.                                        *)
(***************************************************************************)
EXTENDS Expiration

\* Two max-ages.
TwoLeases == {1, 2}

\* Subscriptions for longer than MUPNP_SUBSCRIPTION_DELAY.
LongGrants == {1}

\* No services, or one of the embedded device.
NoServices == {}
OneOfChild == {<<1, 1>>}
================================================================================
