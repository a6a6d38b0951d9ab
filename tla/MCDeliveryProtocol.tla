------------------------- MODULE MCDeliveryProtocol -------------------------
(* An operator's decisions and a run around one ticket, for both ways of delivery. *)
EXTENDS DeliveryProtocol
=============================================================================
