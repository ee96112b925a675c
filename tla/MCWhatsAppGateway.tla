------------------------- MODULE MCWhatsAppGateway -------------------------
(* WhatsAppGateway on two files, a confirmation and a cancellation; SameFile *)
(* makes the second file a copy of the first.                               *)
EXTENDS WhatsAppGateway, TLC

CONSTANTS p1, p2, t1, t2

MCKind == (p1 :> "media") @@ (p2 :> "media") @@ (t1 :> "confirm") @@ (t2 :> "cancel")
TwoFiles == (p1 :> 1) @@ (p2 :> 2)
SameFile == (p1 :> 1) @@ (p2 :> 1)

DeliverySymmetry == Permutations(Deliveries)
=============================================================================
