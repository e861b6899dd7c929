--------------------------- MODULE MCIdempotency ---------------------------
(* Three calls with one key, of two fingerprints, on either store. *)
EXTENDS IdempotencyService, TLC

CONSTANTS c1, c2, c3

MCCall == {c1, c2, c3}
MCBackends == {"redis", "sql"}
MCSymmetry == Permutations(MCCall)
=============================================================================
