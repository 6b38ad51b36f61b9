-------------------------- MODULE GatewayContract --------------------------
(***************************************************************************)
(* What the gateway promises for a request, whatever channels it tries on   *)
(* the way: the client hears from one channel or is refused, once; the      *)
(* books name one responsible, once; and the two agree.                     *)
(***************************************************************************)
CONSTANTS
    Request,  \* the requests that may be made
    Channel   \* the channels that may answer them

Refused == "refused"
Pending == "pending"

Responsible == Channel \union {Refused}

VARIABLES
    asked,   \* the requests that were made
    answer,  \* who the client has its answer from
    account  \* who the log and the statistics hold responsible for it

vars == <<asked, answer, account>>

Init ==
    /\ asked = {}
    /\ answer = [r \in Request |-> Pending]
    /\ account = [r \in Request |-> Pending]

Ask(r) ==
    /\ r \notin asked
    /\ asked' = asked \union {r}
    /\ UNCHANGED <<answer, account>>

Answer(r) ==
    /\ r \in asked /\ answer[r] = Pending
    /\ \E w \in Responsible :
          /\ account[r] \in {Pending, w}
          /\ answer' = [answer EXCEPT ![r] = w]
    /\ UNCHANGED <<asked, account>>

Account(r) ==
    /\ r \in asked /\ account[r] = Pending
    /\ \E w \in Responsible :
          /\ answer[r] \in {Pending, w}
          /\ account' = [account EXCEPT ![r] = w]
    /\ UNCHANGED <<asked, answer>>

Next == \E r \in Request : Ask(r) \/ Answer(r) \/ Account(r)

Spec == Init /\ [][Next]_vars
=============================================================================
