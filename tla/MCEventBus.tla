----------------------------- MODULE MCEventBus -----------------------------
(* Small instances of EventBus: every subscription and every call has the    *)
(* only topic.                                                               *)
EXTENDS EventBus

MCTypeOf == [s \in Sub |-> CHOOSE t \in Topic : TRUE]
MCAbout == [c \in Call |-> CHOOSE t \in Topic : TRUE]
=============================================================================
