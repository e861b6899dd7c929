--------------------------- MODULE MCBackplane ---------------------------
(* Two subscriptions and two channels on one replica. *)
EXTENDS Backplane
=============================================================================
