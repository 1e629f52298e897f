------------------------ MODULE MCProductionPromotion ------------------------
(* A small instance of ProductionPromotion, with the timeouts of the code. *)
EXTENDS ProductionPromotion
=============================================================================
