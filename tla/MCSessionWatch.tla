--------------------------- MODULE MCSessionWatch ---------------------------
(* Instances of SessionWatch for TLC.                                       *)
EXTENDS SessionWatch, TLC

=============================================================================
