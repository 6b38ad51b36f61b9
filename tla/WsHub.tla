-------------------------------- MODULE WsHub --------------------------------
(***************************************************************************)
(* internal/ws/ws.go: the registry of WebSocket clients and, per client,    *)
(* a goroutine that reads (heartbeats in, pong out through the send         *)
(* channel) and one that writes.  Broadcasts push to every client's bounded *)
(* channel under the read lock; unregister closes the channel under the     *)
(* write lock.  Either pump may be the first to go.                         *)
(***************************************************************************)
EXTENDS Naturals, Sequences, FiniteSets

CONSTANTS
    Client,       \* connections
    Caster,       \* the goroutines that call Broadcast
    Message,      \* what is broadcast
    Pong,         \* pongFrame
    NoClient,     \* no client
    SendBuffer    \* sendBufferSize (256 in the code)

ASSUME HubAssumption ==
    /\ SendBuffer \in Nat \ {0}
    /\ Pong \notin Message
    /\ NoClient \notin Client

VARIABLES
    clients,  \* Hub.clients
    conn,     \* Client: the connection
    send,     \* Client: Client.send
    closed,   \* the clients whose send channel is closed
    rp, wp,   \* Client: where readPump and writePump are
    todo,     \* Caster: the clients its broadcast has still to visit
    casting,  \* the casters inside Broadcast, holding the read lock
    slow,     \* Caster: the client it is about to close
    cast,     \* history: the messages broadcast while the client was registered
    got,      \* history: the messages written to the client
    panicked  \* a goroutine panicked: the process is dead

hubVars == <<clients, conn, send, closed, rp, wp, todo, casting, slow, cast, got, panicked>>
castVars == <<todo, casting, slow>>

Pump == {"none", "loop", "pong", "leave", "gone"}

HubTypeOK ==
    /\ clients \subseteq Client /\ closed \subseteq Client
    /\ conn \in [Client -> {"none", "open", "closed"}]
    /\ send \in [Client -> Seq(Message \union {Pong})]
    /\ \A c \in Client : Len(send[c]) <= SendBuffer
    /\ rp \in [Client -> Pump] /\ wp \in [Client -> Pump \ {"pong"}]
    /\ todo \in [Caster -> SUBSET Client] /\ casting \subseteq Caster
    /\ slow \in [Caster -> Client \union {NoClient}]
    /\ cast \in [Client -> Seq(Message)] /\ got \in [Client -> Seq(Message)]
    /\ panicked \in BOOLEAN

HubInit ==
    /\ clients = {} /\ closed = {} /\ casting = {}
    /\ conn = [c \in Client |-> "none"]
    /\ send = [c \in Client |-> << >>]
    /\ rp = [c \in Client |-> "none"]
    /\ wp = [c \in Client |-> "none"]
    /\ todo = [b \in Caster |-> {}]
    /\ slow = [b \in Caster |-> NoClient]
    /\ cast = [c \in Client |-> << >>]
    /\ got = [c \in Client |-> << >>]
    /\ panicked = FALSE

\* h.mu.Lock() is granted while no broadcast holds the read lock.
Lockable == casting = {}

-----------------------------------------------------------------------------
\* ServeHTTP: upgraded, registered, both pumps started.
ServeHTTP(c) ==
    /\ conn[c] = "none" /\ Lockable
    /\ conn' = [conn EXCEPT ![c] = "open"]
    /\ clients' = clients \union {c}
    /\ rp' = [rp EXCEPT ![c] = "loop"]
    /\ wp' = [wp EXCEPT ![c] = "loop"]
    /\ UNCHANGED <<send, closed, castVars, cast, got, panicked>>

-----------------------------------------------------------------------------
(* Broadcast, by caster b *)

BroadcastBegin(b) ==
    /\ b \notin casting
    /\ casting' = casting \union {b}
    /\ todo' = [todo EXCEPT ![b] = clients]
    /\ UNCHANGED <<clients, conn, send, closed, rp, wp, slow, cast, got, panicked>>

\* Mutant: a slow client loses the message and stays.
PushSkips(b, c, m) ==
    /\ c \in todo[b] /\ slow[b] = NoClient
    /\ todo' = [todo EXCEPT ![b] = @ \ {c}]
    /\ cast' = [cast EXCEPT ![c] = Append(@, m)]
    /\ send' = IF Len(send[c]) < SendBuffer THEN [send EXCEPT ![c] = Append(@, m)] ELSE send
    /\ panicked' = (c \in closed)
    /\ UNCHANGED <<clients, conn, closed, rp, wp, slow, casting, got>>

\* The message is queued, or dropped and the client is found slow.
Push(b, c, m) ==
    /\ c \in todo[b] /\ slow[b] = NoClient
    /\ todo' = [todo EXCEPT ![b] = @ \ {c}]
    /\ cast' = [cast EXCEPT ![c] = Append(@, m)]
    /\ IF Len(send[c]) < SendBuffer
       THEN send' = [send EXCEPT ![c] = Append(@, m)] /\ UNCHANGED slow
       ELSE slow' = [slow EXCEPT ![b] = c] /\ UNCHANGED send
    /\ panicked' = (c \in closed)
    /\ UNCHANGED <<clients, conn, closed, rp, wp, casting, got>>

\* closeSlowClient: its connection is closed, which ends both pumps.
CloseSlow(b) ==
    /\ slow[b] # NoClient
    /\ conn' = [conn EXCEPT ![slow[b]] = "closed"]
    /\ slow' = [slow EXCEPT ![b] = NoClient]
    /\ UNCHANGED <<clients, send, closed, rp, wp, todo, casting, cast, got, panicked>>

BroadcastEnd(b) ==
    /\ b \in casting /\ todo[b] = {} /\ slow[b] = NoClient
    /\ casting' = casting \ {b}
    /\ UNCHANGED <<clients, conn, send, closed, rp, wp, todo, slow, cast, got, panicked>>

-----------------------------------------------------------------------------
\* Mutant: unregister closes the channel and leaves the client registered.
LeaveRegistered(c) ==
    /\ Lockable
    /\ closed' = IF c \in clients THEN closed \union {c} ELSE closed
    /\ conn' = [conn EXCEPT ![c] = "closed"]
    /\ UNCHANGED clients

\* The deferred end of a pump: unregister, then conn.Close.  The writer
\* unregisters first of all; the reader's pong meets a closed channel whether
\* or not the connection is closed too, so the two are one step here.
Leave(c) ==
    /\ Lockable
    /\ clients' = clients \ {c}
    /\ closed' = IF c \in clients THEN closed \union {c} ELSE closed
    /\ conn' = [conn EXCEPT ![c] = "closed"]

ReaderLeaves(c) ==
    /\ rp[c] = "leave" /\ Leave(c)
    /\ rp' = [rp EXCEPT ![c] = "gone"]
    /\ UNCHANGED <<send, wp, castVars, cast, got, panicked>>

WriterLeaves(c) ==
    /\ wp[c] = "leave" /\ Leave(c)
    /\ wp' = [wp EXCEPT ![c] = "gone"]
    /\ UNCHANGED <<send, rp, castVars, cast, got, panicked>>

-----------------------------------------------------------------------------
(* readPump *)

\* A heartbeat arrives ...
ReadPing(c) ==
    /\ rp[c] = "loop" /\ conn[c] = "open"
    /\ rp' = [rp EXCEPT ![c] = "pong"]
    /\ UNCHANGED <<clients, conn, send, closed, wp, castVars, cast, got, panicked>>

\* ... and is answered through the send channel, or not if that is full.  A
\* send on a closed channel panics, and nothing recovers.
SendPong(c) ==
    /\ rp[c] = "pong"
    /\ rp' = [rp EXCEPT ![c] = "loop"]
    /\ send' = IF c \notin closed /\ Len(send[c]) < SendBuffer
               THEN [send EXCEPT ![c] = Append(@, Pong)] ELSE send
    /\ panicked' = (c \in closed)
    /\ UNCHANGED <<clients, conn, closed, wp, castVars, cast, got>>

\* The peer left, the deadline passed, or the connection is closed.
ReadFails(c) ==
    /\ rp[c] = "loop"
    /\ rp' = [rp EXCEPT ![c] = "leave"]
    /\ UNCHANGED <<clients, conn, send, closed, wp, castVars, cast, got, panicked>>

-----------------------------------------------------------------------------
(* writePump *)

\* A frame is received from the channel when it has been written: the one in
\* writePump's hand counts as one more place of the buffer.
WriteFrame(c) ==
    /\ wp[c] = "loop" /\ send[c] # << >> /\ conn[c] = "open"
    /\ send' = [send EXCEPT ![c] = Tail(@)]
    /\ got' = IF Head(send[c]) = Pong THEN got ELSE [got EXCEPT ![c] = Append(@, Head(send[c]))]
    /\ UNCHANGED <<clients, conn, closed, rp, wp, castVars, cast, panicked>>

\* Mutant: without the ticker only a frame makes a write fail.
WriteFailsOnFrame(c) ==
    /\ wp[c] = "loop" /\ send[c] # << >>
    /\ wp' = [wp EXCEPT ![c] = "leave"]
    /\ UNCHANGED <<clients, conn, send, closed, rp, castVars, cast, got, panicked>>

\* A write fails or times out, of a frame or of the periodic ping.
WriteFails(c) ==
    /\ wp[c] = "loop"
    /\ wp' = [wp EXCEPT ![c] = "leave"]
    /\ UNCHANGED <<clients, conn, send, closed, rp, castVars, cast, got, panicked>>

\* The send channel is closed and empty.
SeesClosed(c) ==
    /\ wp[c] = "loop" /\ send[c] = << >> /\ c \in closed
    /\ wp' = [wp EXCEPT ![c] = "leave"]
    /\ UNCHANGED <<clients, conn, send, closed, rp, castVars, cast, got, panicked>>

Reader(c) == ReadPing(c) \/ SendPong(c) \/ ReadFails(c) \/ ReaderLeaves(c)

Writer(c) == WriteFrame(c) \/ WriteFails(c) \/ SeesClosed(c) \/ WriterLeaves(c)

\* Hub.Close, second half: the clients are forgotten without closing their
\* channels; their connections are closed by HangUp, one at a time.
Forget ==
    /\ Lockable
    /\ clients' = {}
    /\ UNCHANGED <<conn, send, closed, rp, wp, castVars, cast, got, panicked>>

HangUp(c) ==
    /\ conn' = [conn EXCEPT ![c] = "closed"]
    /\ UNCHANGED <<clients, send, closed, rp, wp, castVars, cast, got, panicked>>
=============================================================================
