---------------------------- MODULE MC_CpinQuery ----------------------------
(***************************************************************************)
(* Model-checking instance of CpinQuery.  num_times 0 (no retry) and 2;   *)
(* CME 10 (no SIM), 14 (SIM busy, retried) and 3 (taken as a SIM present).*)
(***************************************************************************)
EXTENDS CpinQuery

MCNumTimes == {0, 2}
MCCmeCodes == {3, 10, 14}

=============================================================================
