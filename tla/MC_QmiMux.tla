---------------------------- MODULE MC_QmiMux ----------------------------
(***************************************************************************)
(* Model-checking instance of QmiMux.  One service type known to the      *)
(* modem, one client id (so that a sync lets the modem hand out a held   *)
(* one again), two service structs, and the transaction                  *)
(* counters one step before their wrap (255 and 65535: states a device    *)
(* reaches with every queue empty after 254 control and 65279 service    *)
(* requests), so that every run crosses both wrap rules.                 *)
(***************************************************************************)
EXTENDS QmiMux

MCTypes == {1}
MCTwoTypes == {1, 2}
MCOneClient == {1}
MCClientIds == {1, 2}
MCHandles == {1, 2}
MCCtlTidStart == {255}
MCSvcTidStart == {65535}
=============================================================================
