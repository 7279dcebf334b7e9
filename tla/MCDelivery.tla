----------------------------- MODULE MCDelivery -----------------------------
(* Delivery as it is: the instance is given by the configuration.          *)
EXTENDS Delivery
=============================================================================
