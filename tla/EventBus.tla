------------------------------ MODULE EventBus ------------------------------
(***************************************************************************)
(* internal/eventbus/eventbus.go: one bounded queue and one consumer        *)
(* goroutine per subscription.  Publish takes a snapshot of the             *)
(* subscriptions under the lock and offers the event to each without it, so *)
(* publishers interleave with each other, with the consumers and with       *)
(* unsubscription.  What a handler does is the business of the module that  *)
(* composes the bus with its subscribers.                                   *)
(***************************************************************************)
EXTENDS Naturals, Sequences, FiniteSets, Functions

CONSTANTS
    Sub,        \* subscriptions
    Topic,      \* event types
    TypeOf,     \* Sub -> Topic: subscription.typ
    Call,       \* the calls of Publish, each with its own event
    About,      \* Call -> Topic: the event's type
    QueueSize,  \* queueSize (1024 in the code)
    None        \* no call, no subscription

ASSUME BusAssumption ==
    /\ TypeOf \in [Sub -> Topic]
    /\ About \in [Call -> Topic]
    /\ QueueSize \in Nat \ {0}
    /\ None \notin Sub /\ None \notin Call
    /\ IsFiniteSet(Call)

VARIABLES
    subs,      \* Bus.subs
    quit,      \* the subscriptions whose quit channel is closed
    ch,        \* Sub: subscription.ch
    pending,   \* Sub: subscription.pending
    reader,    \* Sub: where its consumer is
    hand,      \* Sub: the event the consumer is dispatching
    at,        \* Call: where the publisher is
    targets,   \* Call: the subscriptions still to be offered the event
    offering,  \* Call: the one it has been counted for
    after,     \* history: the calls that had returned when this one began
    line,      \* history: the events each subscription accepted
    handled,   \* history: the events each subscription's handler is done with
    waiter,    \* where a call of Wait is
    waitFor,   \* the subscriptions it has still to wait for
    owed       \* history: what it found accepted and not handled, by subscription

busVars == <<subs, quit, ch, pending, reader, hand, at, targets, offering, after, line, handled,
             waiter, waitFor, owed>>
waitVars == <<waiter, waitFor, owed>>
pubVars == <<at, targets, offering, after>>
subVars == <<subs, quit>>

BusTypeOK ==
    /\ subs \subseteq Sub /\ quit \subseteq Sub
    /\ ch \in [Sub -> Seq(Call)]
    /\ pending \in [Sub -> Nat]
    /\ reader \in [Sub -> {"none", "select", "drain", "returned"}]
    /\ hand \in [Sub -> Call \union {None}]
    /\ at \in [Call -> {"idle", "offering", "done"}]
    /\ targets \in [Call -> SUBSET Sub]
    /\ offering \in [Call -> Sub \union {None}]
    /\ after \in [Call -> SUBSET Call]
    /\ line \in [Sub -> Seq(Call)]
    /\ handled \in [Sub -> Seq(Call)]
    /\ waiter \in {"idle", "waiting", "returned"}
    /\ waitFor \subseteq Sub
    /\ owed \in [Sub -> SUBSET Call]

BusInit ==
    /\ subs = {} /\ quit = {}
    /\ ch = [s \in Sub |-> << >>]
    /\ pending = [s \in Sub |-> 0]
    /\ reader = [s \in Sub |-> "none"]
    /\ hand = [s \in Sub |-> None]
    /\ at = [c \in Call |-> "idle"]
    /\ targets = [c \in Call |-> {}]
    /\ offering = [c \in Call |-> None]
    /\ after = [c \in Call |-> {}]
    /\ line = [s \in Sub |-> << >>]
    /\ handled = [s \in Sub |-> << >>]
    /\ waiter = "idle" /\ waitFor = {} /\ owed = [s \in Sub |-> {}]

-----------------------------------------------------------------------------
(* Subscriptions *)

\* Registered under the lock; the consumer is started right after.
Subscribe(s) ==
    /\ reader[s] = "none"
    /\ subs' = subs \union {s}
    /\ reader' = [reader EXCEPT ![s] = "select"]
    /\ UNCHANGED <<quit, ch, pending, hand, pubVars, line, handled, waitVars>>

\* The returned unsubscribe, once: first the registration ...
Unregister(s) ==
    /\ s \in subs
    /\ subs' = subs \ {s}
    /\ UNCHANGED <<quit, ch, pending, reader, hand, pubVars, line, handled, waitVars>>

\* ... then, without the lock, the quit channel.
CloseQuit(s) ==
    /\ reader[s] # "none" /\ s \notin subs \union quit
    /\ quit' = quit \union {s}
    /\ UNCHANGED <<subs, ch, pending, reader, hand, pubVars, line, handled, waitVars>>

-----------------------------------------------------------------------------
(* Publish *)

\* The snapshot of the matching subscriptions, under the read lock.
PublishBegin(c) ==
    /\ at[c] = "idle"
    /\ at' = [at EXCEPT ![c] = "offering"]
    /\ targets' = [targets EXCEPT ![c] = {s \in subs : TypeOf[s] = About[c]}]
    /\ after' = [after EXCEPT ![c] = {d \in Call : at[d] = "done"}]
    /\ UNCHANGED <<subVars, ch, pending, reader, hand, offering, line, handled, waitVars>>

\* pending.Add(1), before the event can be taken.
CountIn(c, s) ==
    /\ at[c] = "offering" /\ offering[c] = None /\ s \in targets[c]
    /\ pending' = [pending EXCEPT ![s] = @ + 1]
    /\ targets' = [targets EXCEPT ![c] = @ \ {s}]
    /\ offering' = [offering EXCEPT ![c] = s]
    /\ UNCHANGED <<subVars, ch, reader, hand, at, after, line, handled, waitVars>>

\* Mutant: a dropped event stays counted.
SendLeaks(c, s) ==
    /\ offering[c] = s
    /\ offering' = [offering EXCEPT ![c] = None]
    /\ IF Len(ch[s]) < QueueSize
       THEN /\ ch' = [ch EXCEPT ![s] = Append(@, c)]
            /\ line' = [line EXCEPT ![s] = Append(@, c)]
       ELSE UNCHANGED <<ch, line>>
    /\ UNCHANGED <<subVars, pending, reader, hand, at, targets, after, handled, waitVars>>

\* The non-blocking send: enqueued, or dropped and uncounted.
Send(c, s) ==
    /\ offering[c] = s
    /\ offering' = [offering EXCEPT ![c] = None]
    /\ IF Len(ch[s]) < QueueSize
       THEN /\ ch' = [ch EXCEPT ![s] = Append(@, c)]
            /\ line' = [line EXCEPT ![s] = Append(@, c)]
            /\ UNCHANGED pending
       ELSE /\ pending' = [pending EXCEPT ![s] = @ - 1]
            /\ UNCHANGED <<ch, line>>
    /\ UNCHANGED <<subVars, reader, hand, at, targets, after, handled, waitVars>>

\* Mutant: Publish returns before the event is enqueued (a goroutine per send).
PublishEndEarly(c) ==
    /\ at[c] = "offering" /\ targets[c] = {}
    /\ at' = [at EXCEPT ![c] = "done"]
    /\ UNCHANGED <<subVars, ch, pending, reader, hand, targets, offering, after, line, handled, waitVars>>

PublishEnd(c) ==
    /\ at[c] = "offering" /\ offering[c] = None /\ targets[c] = {}
    /\ at' = [at EXCEPT ![c] = "done"]
    /\ UNCHANGED <<subVars, ch, pending, reader, hand, targets, offering, after, line, handled, waitVars>>

-----------------------------------------------------------------------------
(* consume and dispatch *)

\* Either select takes an event if there is one.
Take(s) ==
    /\ reader[s] \in {"select", "drain"} /\ hand[s] = None /\ ch[s] # << >>
    /\ hand' = [hand EXCEPT ![s] = Head(ch[s])]
    /\ ch' = [ch EXCEPT ![s] = Tail(@)]
    /\ UNCHANGED <<subVars, pending, reader, pubVars, line, handled, waitVars>>

\* The outer select may choose quit although events are queued.
SeeQuit(s) ==
    /\ reader[s] = "select" /\ hand[s] = None /\ s \in quit
    /\ reader' = [reader EXCEPT ![s] = "drain"]
    /\ UNCHANGED <<subVars, ch, pending, hand, pubVars, line, handled, waitVars>>

\* Mutant: the queue is not drained.
ReturnUndrained(s) ==
    /\ reader[s] = "drain" /\ hand[s] = None
    /\ reader' = [reader EXCEPT ![s] = "returned"]
    /\ UNCHANGED <<subVars, ch, pending, hand, pubVars, line, handled, waitVars>>

\* The inner select finds the queue empty.
Return(s) ==
    /\ reader[s] = "drain" /\ hand[s] = None /\ ch[s] = << >>
    /\ reader' = [reader EXCEPT ![s] = "returned"]
    /\ UNCHANGED <<subVars, ch, pending, hand, pubVars, line, handled, waitVars>>

\* The handler is done; the deferred pending.Done runs even if it panicked.
Handled(s) ==
    /\ hand[s] # None
    /\ handled' = [handled EXCEPT ![s] = Append(@, hand[s])]
    /\ hand' = [hand EXCEPT ![s] = None]
    /\ pending' = [pending EXCEPT ![s] = @ - 1]
    /\ UNCHANGED <<subVars, ch, reader, pubVars, line, waitVars>>

-----------------------------------------------------------------------------
(* Wait *)

InHand(s) == IF hand[s] = None THEN << >> ELSE <<hand[s]>>

\* The events s has accepted and not handled.
Underway(s) == Range(InHand(s)) \union Range(ch[s])

\* A snapshot of the subscriptions, under the read lock ...
WaitBegin ==
    /\ waiter = "idle" /\ waiter' = "waiting"
    /\ waitFor' = subs
    /\ owed' = [s \in Sub |-> IF s \in subs THEN Underway(s) ELSE {}]
    /\ UNCHANGED <<subVars, ch, pending, reader, hand, pubVars, line, handled>>

\* Mutant: only the queue is waited for.
WaitOneQueue(s) ==
    /\ s \in waitFor /\ ch[s] = << >>
    /\ waitFor' = waitFor \ {s}
    /\ UNCHANGED <<subVars, ch, pending, reader, hand, pubVars, line, handled, waiter, owed>>

\* ... and pending.Wait for each, in any order.
WaitOne(s) ==
    /\ s \in waitFor /\ pending[s] = 0
    /\ waitFor' = waitFor \ {s}
    /\ UNCHANGED <<subVars, ch, pending, reader, hand, pubVars, line, handled, waiter, owed>>

WaitEnd ==
    /\ waiter = "waiting" /\ waitFor = {} /\ waiter' = "returned"
    /\ UNCHANGED <<subVars, ch, pending, reader, hand, pubVars, line, handled, waitFor, owed>>

Waiting == WaitEnd \/ \E s \in Sub : WaitOne(s)

-----------------------------------------------------------------------------
Publisher(c) ==
    PublishEnd(c) \/ \E s \in Sub : CountIn(c, s) \/ Send(c, s)

Consumer(s) == Take(s) \/ SeeQuit(s) \/ Return(s)

BusNext ==
    \/ \E s \in Sub : Subscribe(s) \/ Unregister(s) \/ CloseQuit(s) \/ Consumer(s) \/ Handled(s)
    \/ \E c \in Call : PublishBegin(c) \/ Publisher(c)
    \/ WaitBegin \/ Waiting

BusSpec == BusInit /\ [][BusNext]_busVars

\* Goroutines that can run do, and handlers return.  Publishing, waiting,
\* subscribing and unsubscribing are up to the callers.
BusFairness ==
    /\ \A c \in Call : WF_busVars(Publisher(c))
    /\ \A s \in Sub : WF_busVars(Consumer(s)) /\ WF_busVars(Handled(s)) /\ WF_busVars(CloseQuit(s))
    /\ WF_busVars(Waiting)

BusFairSpec == BusSpec /\ BusFairness

-----------------------------------------------------------------------------
\* Between its acceptance and the end of its handler an event is in the queue
\* or in the consumer's hand, once, and the order of acceptance is kept
\* (Publish, consume, dispatch).
Conserved == \A s \in Sub : line[s] = handled[s] \o InHand(s) \o ch[s]

\* eventbus.go:3, within one subscription: an event whose Publish returned
\* before that of another began is accepted, hence handled, before it, and no
\* event twice.
PublishOrder ==
    \A s \in Sub : \A i, j \in 1 .. Len(line[s]) :
        i < j => line[s][i] # line[s][j] /\ line[s][j] \notin after[line[s][i]]

\* The counter Wait relies on never goes negative (a panic) and never leaks:
\* it is the number of events on their way through the subscription.
PendingExact ==
    \A s \in Sub : pending[s] =
        Len(ch[s]) + Len(InHand(s)) + Cardinality({c \in Call : offering[c] = s})

\* Wait, from the state it began in: when it returns, everything the
\* subscriptions of that moment had accepted is handled.
WaitMeansHandled ==
    waiter = "returned" => \A s \in Sub : owed[s] \subseteq Range(handled[s])

\* An event accepted before its subscription's quit is handled.
Dispatched ==
    \A s \in Sub, c \in Call : c \in Range(ch[s]) /\ s \notin quit ~> c \in Range(handled[s])

\* Wait returns unless one of its subscriptions is closed meanwhile: an event
\* that a publisher with an older snapshot enqueues after the consumer has
\* returned stays counted for ever.
WaitReturns ==
    waiter = "waiting" ~> waiter = "returned" \/ waitFor \cap quit # {}
=============================================================================
