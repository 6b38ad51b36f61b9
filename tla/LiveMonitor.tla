----------------------------- MODULE LiveMonitor -----------------------------
(***************************************************************************)
(* The live view of the dashboard: the gateway publishes the start and the  *)
(* end of every request, the bus runs one consumer per event type, the hub  *)
(* (AttachBus) broadcasts to the WebSocket clients, each client merges what *)
(* it receives into its list of live rows (frontend/src/utils/transform.ts).*)
(* cmd/server/main.go attaches the hub and, on a signal, closes it.         *)
(***************************************************************************)
EXTENDS EventBus, WsHub, SequencesExt

CONSTANTS
    Req   \* requests

\* One subscription per type; the handler of each is one caster of the hub.
ASSUME LiveAssumption ==
    /\ Topic = {"started", "completed"}
    /\ \A s, r \in Sub : TypeOf[s] = TypeOf[r] => s = r
    /\ Call \subseteq Req \X Topic /\ \A c \in Call : About[c] = c[2]
    /\ Caster = Sub /\ Message = Call

VARIABLES
    main,    \* where main is
    hangUp,  \* the connections Hub.Close has still to close
    rows     \* Client: the live rows its dashboard shows, newest first

vars == <<busVars, hubVars, main, hangUp, rows>>
liveVars == <<main, hangUp, rows>>

Alive == ~panicked

Row == [req : Req, done : BOOLEAN]

TypeOK ==
    /\ BusTypeOK /\ HubTypeOK
    /\ main \in {"attach", "serve", "hangup"}
    /\ hangUp \subseteq Client
    /\ rows \in [Client -> Seq(Row)]

Init ==
    /\ BusInit /\ HubInit
    /\ main = "attach" /\ hangUp = {}
    /\ rows = [c \in Client |-> << >>]

-----------------------------------------------------------------------------
(* The gateway *)

\* Handle publishes the start; finish, in the same goroutine, the end.
Publish(c) ==
    /\ Alive /\ main # "attach"
    /\ c[2] = "completed" => at[<<c[1], "started">>] = "done"
    /\ PublishBegin(c)
    /\ UNCHANGED <<hubVars, liveVars>>

Publishing(c) == Alive /\ Publisher(c) /\ UNCHANGED <<hubVars, liveVars>>

-----------------------------------------------------------------------------
(* The handler AttachBus subscribes: Broadcast of the event *)

Consume(s) == Alive /\ Consumer(s) /\ UNCHANGED <<hubVars, liveVars>>

Handle(s) ==
    /\ Alive /\ hand[s] # None
    /\ \/ /\ BroadcastBegin(s) \/ CloseSlow(s) \/ \E c \in Client : Push(s, c, hand[s])
          /\ UNCHANGED busVars
       \/ BroadcastEnd(s) /\ Handled(s)
    /\ UNCHANGED liveVars

-----------------------------------------------------------------------------
(* The live rows of a dashboard *)

\* Mutant: without the guard against a start that comes late.
mergeStartedAlways(prev, r) == <<[req |-> r, done |-> FALSE]>> \o prev

\* A start is ignored if the request has a row.
mergeStarted(prev, r) ==
    IF \E i \in DOMAIN prev : prev[i].req = r THEN prev
    ELSE <<[req |-> r, done |-> FALSE]>> \o prev

\* A completion replaces the running row, or is put first if there is none.
mergeCompleted(prev, r) ==
    IF \E i \in DOMAIN prev : prev[i].req = r
    THEN [i \in DOMAIN prev |-> IF prev[i].req = r THEN [prev[i] EXCEPT !.done = TRUE] ELSE prev[i]]
    ELSE <<[req |-> r, done |-> TRUE]>> \o prev

mergeLiveEvent(prev, c) ==
    IF c[2] = "started" THEN mergeStarted(prev, c[1]) ELSE mergeCompleted(prev, c[1])

-----------------------------------------------------------------------------
(* The clients *)

Connect(c) == Alive /\ main = "serve" /\ ServeHTTP(c) /\ UNCHANGED <<busVars, liveVars>>

Read(c) == Alive /\ Reader(c) /\ UNCHANGED <<busVars, liveVars>>

\* What has been written to a client its dashboard merges (in batches, which
\* are merged event by event).
Write(c) ==
    /\ Alive /\ Writer(c)
    /\ rows' = IF got' = got THEN rows
               ELSE [rows EXCEPT ![c] = mergeLiveEvent(@, Last(got'[c]))]
    /\ UNCHANGED <<busVars, main, hangUp>>

-----------------------------------------------------------------------------
(* main *)

\* Subscribe for every type, before anything else runs.
AttachBus ==
    /\ Alive /\ main = "attach" /\ main' = "serve"
    /\ subs' = Sub
    /\ reader' = [s \in Sub |-> "select"]
    /\ UNCHANGED <<quit, ch, pending, hand, pubVars, line, handled, waitVars, hubVars, hangUp, rows>>

\* The signal.  Shutdown gives up on requests after its timeout, so publishers
\* may go on.  What Hub.Close's unsubscribing changes here, that broadcasts stop,
\* they may do anyway (EventBus has its steps); then it empties the registry ...
ForgetClients ==
    /\ Alive /\ main = "serve" /\ main' = "hangup"
    /\ hangUp' = clients
    /\ Forget
    /\ UNCHANGED <<busVars, rows>>

\* ... and closes the connections it held.
HangUpClient ==
    /\ Alive
    /\ \E c \in hangUp : HangUp(c) /\ hangUp' = hangUp \ {c}
    /\ UNCHANGED <<main, rows, busVars>>

Main == AttachBus \/ ForgetClients \/ HangUpClient

-----------------------------------------------------------------------------
Next ==
    \/ \E c \in Call : Publish(c) \/ Publishing(c)
    \/ \E s \in Sub : Consume(s) \/ Handle(s)
    \/ \E c \in Client : Connect(c) \/ Read(c) \/ Write(c)
    \/ Main

Spec == Init /\ [][Next]_vars

\* A broadcast goes on, pumps that have something to do do it; a read or a write
\* of a closed connection fails (writePump's ticker sees to it that there is a
\* write).  Nobody has to publish, connect or shut down.
Fairness ==
    /\ \A s \in Sub : WF_vars(Handle(s))
    /\ \A c \in Client :
         /\ WF_vars((rp[c] # "loop" \/ conn[c] = "closed") /\ Read(c))
         /\ WF_vars((wp[c] # "loop" \/ conn[c] = "closed") /\ Write(c))

FairSpec == Spec /\ Fairness

-----------------------------------------------------------------------------
\* Whatever order the events of a request reach a client in, its list has one
\* row per request heard of, done if and only if the completion arrived.
LiveRowsRight ==
    \A c \in Client :
        /\ \A i, j \in DOMAIN rows[c] : i # j => rows[c][i].req # rows[c][j].req
        /\ {rows[c][i].req : i \in DOMAIN rows[c]} = {e[1] : e \in Range(got[c])}
        /\ \A i \in DOMAIN rows[c] :
            rows[c][i].done <=> <<rows[c][i].req, "completed">> \in Range(got[c])

\* A client misses nothing in the middle: what reaches it was broadcast to it,
\* and all of the same topic that was broadcast to it before has reached it
\* before (a client that could not take a message is closed before the next
\* one).
NothingSkipped(c) ==
    /\ Range(got[c]) \subseteq Range(cast[c])
    /\ \A k, l \in DOMAIN cast[c] : k < l /\ cast[c][k][2] = cast[c][l][2] =>
        \A i \in DOMAIN got[c] : got[c][i] = cast[c][l] =>
            \E j \in 1 .. i - 1 : got[c][j] = cast[c][k]

\* Over bus and hub the messages of a topic keep the order of their publication,
\* and none comes twice.
InOrder(c) ==
    \A i, j \in DOMAIN got[c] :
        i < j /\ got[c][i][2] = got[c][j][2] => got[c][j] \notin after[got[c][i]] \union {got[c][i]}

NoGaps == \A c \in Client : NothingSkipped(c) /\ InOrder(c)

\* A registered client's channel is open, and so is one that a broadcast under
\* way has still to send on: Broadcast cannot panic.
RegisteredIsOpen ==
    /\ clients \cap closed = {}
    /\ \A b \in Caster : todo[b] \cap closed = {}

\* A closed connection is cleaned up: both pumps end, the client is forgotten.
CleanedUp ==
    \A c \in Client :
        conn[c] = "closed" ~> (c \notin clients /\ rp[c] = "gone" /\ wp[c] = "gone") \/ ~Alive

-----------------------------------------------------------------------------
\* eventbus.go:3-4: the order of a request's start and end is not reversed by
\* concurrent dispatch.
StartedFirst ==
    \A c \in Client : \A i, j \in 1 .. Len(got[c]) :
        i < j => ~(got[c][i][2] = "completed" /\ got[c][j] = <<got[c][i][1], "started">>)

\* ws_test.go, TestBroadcastResilientToAbruptClose: a client that breaks off
\* affects no other.
OneClientHarmsNone == ~panicked
=============================================================================
