----------------------------- MODULE MCExecutor -----------------------------
(* Small instance of Executor: two channels, with models of their own and a  *)
(* custom model group, g, whose members the channels share; and beside it    *)
(* the weighted shuffle, which Select takes to be able to return any order,  *)
(* of a tier of three with weights on both sides of the clamp.               *)
EXTENDS Executor, WeightedOrder

Cfg(on, vendor, models, native, priority) ==
    [on |-> on, vendor |-> vendor, models |-> models, native |-> native, priority |-> priority]

\* Off; native for chat; to be converted from chat; unprobed.
MCConfigs ==
    {Cfg(FALSE, "openai_compatible", {}, {}, 1),
     Cfg(TRUE, "openai_compatible", {"m1"}, {"chat_completions"}, 1),
     Cfg(TRUE, "anthropic", {}, {"messages"}, 2),
     Cfg(TRUE, "openai_compatible", {}, {}, 2)}

MCModel == {"m1", "m2", "g"}
MCGroup == [g \in {"g"} |-> [m \in {"m1", "m2"} |-> IF m = "m1" THEN 1 ELSE 2]]

Want(in, m, stream) == [in |-> in, model |-> m, stream |-> stream]

MCWants ==
    {Want("chat_completions", "m1", FALSE), Want("chat_completions", "g", TRUE),
     Want("messages", "g", FALSE), Want("responses", "m1", TRUE)}

MCWeights == {-1, 0, 1, 2, 3}

\* A behaviour is about requests or about one shuffle.
VARIABLE about

MCInit ==
    \/ /\ about = "requests" /\ Init
       /\ weights = [i \in 1 .. N |-> 1] /\ idx = << >> /\ out = [i \in 1 .. N |-> i]
    \/ /\ about = "shuffle" /\ OrderInit
       /\ channels = [c \in Channel |-> CHOOSE cfg \in Configs : TRUE]
       /\ groups = {} /\ want = [r \in Request |-> CHOOSE w \in Wants : TRUE]
       /\ Init

MCNext ==
    /\ \/ about = "requests" /\ Next /\ UNCHANGED orderVars
       \/ about = "shuffle" /\ Draw /\ UNCHANGED vars
    /\ UNCHANGED about

MCSpec == MCInit /\ [][MCNext]_<<vars, orderVars, about>> /\ Fairness
=============================================================================
