---------------------------- MODULE MCSyncSession ----------------------------
(***************************************************************************)
(* Instances of SyncSession for TLC: how wrong the device's clock may be.  *)
(***************************************************************************)
EXTENDS SyncSession

\* Right, or fast by the tolerated skew.
AnyClock == {0, 1}

\* Right, or fast beyond the tolerated skew.
FastClock == {0, 2}
=============================================================================
