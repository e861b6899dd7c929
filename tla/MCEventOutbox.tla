--------------------------- MODULE MCEventOutbox ---------------------------
(* Two drains, of one replica or of two, over two events of one topic. *)
EXTENDS EventOutbox
=============================================================================
