---------------------------- MODULE MC_QmiNotify ----------------------------
(***************************************************************************)
(* Two services of different types in service_list, two message ids, and  *)
(* indications addressed to one client or broadcast (client 255).        *)
(***************************************************************************)
EXTENDS QmiNotify

MCSvcs == {"nas", "wds"}
MCSvcKey == [s \in MCSvcs |-> IF s = "nas" THEN <<3, 1>> ELSE <<1, 1>>]
MCMessages == {34, 36}
\* A targeted indication, one for a client with no service, a broadcast.
MCAddrs == {<<3, 1>>, <<3, 2>>, <<1, 255>>}
\* A fresh service, and one whose counter is two steps from the wrap.
MCNotifyIdStart == {0, 65534}
\* Registrations made long ago: the counter just before it reaches 1 again.
MCNotifyIdWrap == {65535}
=============================================================================
