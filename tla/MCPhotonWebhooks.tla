--------------------------- MODULE MCPhotonWebhooks ---------------------------
(* A small instance of PhotonWebhooks.                                     *)
EXTENDS PhotonWebhooks
=============================================================================
