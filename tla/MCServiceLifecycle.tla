------------------------- MODULE MCServiceLifecycle -------------------------
(* Instances of ServiceLifecycle for TLC.                                   *)
EXTENDS ServiceLifecycle, TLC

(* Two processes of the service, the old one and the new one, are alike. *)
ServiceSymmetry == Permutations(Services)

=============================================================================
