---------------------------- MODULE MCLiveMonitor ----------------------------
(* Small instances of LiveMonitor: one subscription per event type, as main   *)
(* attaches them; two requests, the second of which does not end.             *)
EXTENDS LiveMonitor

MCSub == {"started", "completed"}
MCTypeOf == [s \in MCSub |-> s]
MCReq == {1, 2}
MCCall == {<<1, "started">>, <<1, "completed">>, <<2, "started">>}
MCAbout == [c \in MCCall |-> c[2]]
=============================================================================
