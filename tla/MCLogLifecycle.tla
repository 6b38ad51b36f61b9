--------------------------- MODULE MCLogLifecycle ---------------------------
(* Small instances of LogLifecycle: one or two requests over three days of   *)
(* two ticks.                                                                *)
EXTENDS LogLifecycle, TLC

=============================================================================
