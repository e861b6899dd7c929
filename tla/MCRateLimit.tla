---------------------------- MODULE MCRateLimit ----------------------------
(* Three keys of a scope that has one bucket for them, one key of another, and
   the first scope's fallback bucket, which is asked for by itself, too. *)
EXTENDS RateLimit, TLC

CONSTANTS k1, k2, k3, k4, p, q

MCScopeOf == k1 :> p @@ k2 :> p @@ k3 :> p @@ k4 :> q @@ p :> NoScope
MCBurst == [b \in Bucket |-> 1]
MCPeriod == [b \in Bucket |-> 2]

\* The callers may be exchanged, and so may the keys of one scope.
MCSymmetry ==
  {f @@ g : f \in Permutations(Caller), g \in Permutations({k1, k2, k3})}
=============================================================================
