-------------------------- MODULE LiveMonitorProofs --------------------------
(***************************************************************************)
(* What TLAPS proves of EventBus, and of LiveMonitor, which the bus is a    *)
(* part of, for any number of subscriptions, publishers, requests and       *)
(* clients and any size of queue and buffer.                                *)
(***************************************************************************)
EXTENDS LiveMonitor, SequenceTheorems, FiniteSetTheorems, TLAPS

-----------------------------------------------------------------------------
(***************************************************************************)
(* EventBus.  Conserved says where an accepted event is; Counted gives the  *)
(* counter; Once and Returned order acceptances by the calls of Publish;    *)
(* Owed follows what Wait has promised.                                     *)
(***************************************************************************)

\* Only a publisher at work has subscriptions to offer its event to.
Settled ==
    \A c \in Call :
        /\ offering[c] # None => at[c] = "offering"
        /\ at[c] # "offering" => targets[c] = {}
        /\ offering[c] \notin targets[c]

\* An accepted event is accepted once: its publisher is past the subscription.
Once ==
    \A s \in Sub : \A c \in Range(line[s]) :
        at[c] # "idle" /\ s \notin targets[c] /\ offering[c] # s

Returned == \A c \in Call : \A d \in after[c] : at[d] = "done"

\* What Wait found is handled or on its way, and handled where it has waited.
Owed ==
    /\ waiter = "idle" => \A s \in Sub : owed[s] = {}
    /\ waiter # "waiting" => waitFor = {}
    /\ \A s \in Sub : owed[s] \subseteq Range(handled[s]) \union Underway(s)
    /\ \A s \in Sub : s \notin waitFor => owed[s] \subseteq Range(handled[s])

IInv ==
    /\ BusTypeOK /\ Conserved /\ PendingExact /\ PublishOrder
    /\ Settled /\ Once /\ Returned /\ Owed

-----------------------------------------------------------------------------
(* Sequences *)

LEMMA HeadFirst ==
    ASSUME NEW S, NEW q \in Seq(S), q # << >>
    PROVE  <<Head(q)>> \o Tail(q) = q
<1>1. Head(q) \in S /\ Tail(q) \in Seq(S) /\ Len(Tail(q)) = Len(q) - 1
      /\ \A i \in 1 .. Len(Tail(q)) : Tail(q)[i] = q[i + 1]
  BY HeadTailProperties
<1>2. <<Head(q)>> \in Seq(S) /\ Len(<<Head(q)>>) = 1 /\ <<Head(q)>>[1] = q[1]
  BY <1>1
<1>3. Len(q) \in Nat
  OBVIOUS
<1>4. \A i \in 1 .. Len(q) : (<<Head(q)>> \o Tail(q))[i] = q[i]
  BY <1>1, <1>2, <1>3, ConcatProperties
<1>5. (<<Head(q)>> \o Tail(q)) \in Seq(S) /\ Len(<<Head(q)>> \o Tail(q)) = Len(q)
  BY <1>1, <1>2, <1>3, ConcatProperties
<1> QED BY <1>4, <1>5, SeqEqual

\* Take moves the first event of the queue into the hand: the line stays.
LEMMA TakeKeeps ==
    ASSUME NEW S, NEW h \in Seq(S), NEW q \in Seq(S), q # << >>
    PROVE  (h \o << >>) \o q = (h \o <<Head(q)>>) \o Tail(q)
<1>1. Head(q) \in S /\ Tail(q) \in Seq(S)
  BY HeadTailProperties
<1>2. <<Head(q)>> \in Seq(S) /\ << >> \in Seq(S)
  BY <1>1
<1>3. (h \o <<Head(q)>>) \o Tail(q) = h \o (<<Head(q)>> \o Tail(q))
  BY <1>1, <1>2, ConcatAssociative
<1>4. (h \o << >>) \o q = h \o q
  BY ConcatEmptySeq
<1> QED BY <1>3, <1>4, HeadFirst

LEMMA AppendJoins ==
    \A q \in Seq(Call) : \A e \in Call : Append(q, e) = q \o <<e>> /\ <<e>> \in Seq(Call)
  BY AppendIsConcat

\* Handled moves the event from the hand behind the handled ones.
LEMMA HandledKeeps ==
    \A h, x \in Seq(Call) : h \o x = (h \o x) \o << >>
<1> SUFFICES ASSUME NEW h \in Seq(Call), NEW x \in Seq(Call)
             PROVE  h \o x = (h \o x) \o << >>
  OBVIOUS
<1>1. h \o x \in Seq(Call)
  BY ConcatProperties
<1> QED BY <1>1, ConcatEmptySeq

\* Send appends to the queue and to the line.
LEMMA SendKeeps ==
    \A h, x, q, y \in Seq(Call) : ((h \o x) \o q) \o y = (h \o x) \o (q \o y)
<1> SUFFICES ASSUME NEW h \in Seq(Call), NEW x \in Seq(Call), NEW q \in Seq(Call), NEW y \in Seq(Call)
             PROVE  ((h \o x) \o q) \o y = (h \o x) \o (q \o y)
  OBVIOUS
<1>1. h \o x \in Seq(Call)
  BY ConcatProperties
<1> QED BY <1>1, ConcatAssociative

LEMMA RangeOfAppend ==
    \A q \in Seq(Call) : \A e \in Call : Range(Append(q, e)) = Range(q) \union {e}
<1> SUFFICES ASSUME NEW q \in Seq(Call), NEW e \in Call
             PROVE  Range(Append(q, e)) = Range(q) \union {e}
  OBVIOUS
<1>1. Append(q, e) = q \o <<e>> /\ <<e>> \in Seq(Call)
  BY AppendIsConcat
<1>2. Range(<<e>>) = {e}
  <2>1. DOMAIN <<e>> = {1} /\ <<e>>[1] = e
    OBVIOUS
  <2> QED BY <2>1, Zenon DEF Range
<1>3. Range(q \o <<e>>) = Range(q) \union Range(<<e>>)
  BY <1>1, RangeConcatenation
<1> QED BY <1>1, <1>2, <1>3, Zenon

LEMMA RangeOfTaken ==
    ASSUME NEW S, NEW q \in Seq(S), q # << >>
    PROVE  Range(<<Head(q)>>) \union Range(Tail(q)) = Range(q)
<1>1. Tail(q) \in Seq(S) /\ <<Head(q)>> \in Seq(S)
  BY HeadTailProperties
<1>2. Range(<<Head(q)>> \o Tail(q)) = Range(<<Head(q)>>) \union Range(Tail(q))
  BY <1>1, RangeConcatenation
<1>3. <<Head(q)>> \o Tail(q) = q
  BY HeadFirst
<1> QED BY <1>2, <1>3, Zenon

LEMMA RangeOfNone == Range(<< >>) = {}
  BY DEF Range

LEMMA InHandType ==
    ASSUME BusTypeOK, NEW s \in Sub
    PROVE  InHand(s) \in Seq(Call) /\ (hand[s] # None => hand[s] \in Call /\ InHand(s) = <<hand[s]>>)
           /\ (hand[s] = None => InHand(s) = << >>)
  BY DEF BusTypeOK, InHand

-----------------------------------------------------------------------------
(* The publishers counted for a subscription *)

Offerers(s) == {c \in Call : offering[c] = s}

LEMMA OfferersFinite ==
    ASSUME NEW s
    PROVE  IsFiniteSet(Offerers(s)) /\ Cardinality(Offerers(s)) \in Nat
<1>1. Offerers(s) \in SUBSET Call
  BY DEF Offerers
<1>2. IsFiniteSet(Offerers(s))
  BY <1>1, FS_Subset, BusAssumption
<1> QED BY <1>2, FS_CardinalityType

LEMMA OneMoreOfferer ==
    ASSUME BusTypeOK, NEW c \in Call, NEW s \in Sub, offering[c] = None,
           offering' = [offering EXCEPT ![c] = s], NEW t \in Sub
    PROVE  Cardinality(Offerers(t)') = Cardinality(Offerers(t)) + (IF t = s THEN 1 ELSE 0)
<1>1. s # None /\ t # None
  BY BusAssumption
<1>2. CASE t = s
  <2>1. Offerers(t)' = Offerers(t) \union {c}
    BY <1>2 DEF Offerers, BusTypeOK
  <2>2. c \notin Offerers(t)
    BY <1>1 DEF Offerers
  <2> QED BY <1>2, <2>1, <2>2, FS_AddElement, OfferersFinite
<1>3. CASE t # s
  <2>1. Offerers(t)' = Offerers(t)
    BY <1>1, <1>3 DEF Offerers, BusTypeOK
  <2> QED BY <1>3, <2>1, OfferersFinite
<1> QED BY <1>2, <1>3

LEMMA OneLessOfferer ==
    ASSUME BusTypeOK, NEW c \in Call, NEW s \in Sub, offering[c] = s,
           offering' = [offering EXCEPT ![c] = None], NEW t \in Sub
    PROVE  Cardinality(Offerers(t)') = Cardinality(Offerers(t)) - (IF t = s THEN 1 ELSE 0)
<1>1. s # None /\ t # None
  BY BusAssumption
<1>2. CASE t = s
  <2>1. Offerers(t)' = Offerers(t) \ {c}
    BY <1>1, <1>2 DEF Offerers, BusTypeOK
  <2>2. c \in Offerers(t)
    BY <1>2 DEF Offerers
  <2> QED BY <1>2, <2>1, <2>2, FS_RemoveElement, OfferersFinite
<1>3. CASE t # s
  <2>1. Offerers(t)' = Offerers(t)
    BY <1>1, <1>3 DEF Offerers, BusTypeOK
  <2> QED BY <1>3, <2>1, OfferersFinite
<1> QED BY <1>2, <1>3

LEMMA OffererCounts ==
    ASSUME NEW c \in Call, NEW s, offering[c] = s
    PROVE  Cardinality(Offerers(s)) >= 1
<1>1. c \in Offerers(s)
  BY DEF Offerers
<1>2. Cardinality(Offerers(s)) # 0
  BY <1>1, OfferersFinite, FS_EmptySet
<1> QED BY <1>2, OfferersFinite

-----------------------------------------------------------------------------
(* The steps *)

\* What is counted is there to be uncounted.
LEMMA Uncountable ==
    ASSUME BusTypeOK, PendingExact, NEW s \in Sub,
           hand[s] # None \/ \E c \in Call : offering[c] = s
    PROVE  pending[s] - 1 \in Nat
<1>1. pending[s] = Len(ch[s]) + Len(InHand(s)) + Cardinality(Offerers(s))
  BY DEF PendingExact, Offerers
<1>2. Len(ch[s]) \in Nat /\ Len(InHand(s)) \in Nat /\ Cardinality(Offerers(s)) \in Nat
  BY InHandType, OfferersFinite DEF BusTypeOK
<1>3. CASE hand[s] # None
  <2>1. Len(InHand(s)) = 1
    BY <1>3, InHandType
  <2> QED BY <1>1, <1>2, <2>1
<1>4. CASE \E c \in Call : offering[c] = s
  <2>1. Cardinality(Offerers(s)) >= 1
    BY <1>4, OffererCounts
  <2> QED BY <1>1, <1>2, <2>1
<1> QED BY <1>3, <1>4

LEMMA TypeStep ==
    ASSUME BusTypeOK, PendingExact, BusNext
    PROVE  BusTypeOK'
<1> USE DEF BusTypeOK, subVars, pubVars, waitVars
<1>1. ASSUME NEW s \in Sub, Subscribe(s) \/ Unregister(s) \/ CloseQuit(s)
      PROVE  BusTypeOK'
  BY <1>1 DEF Subscribe, Unregister, CloseQuit
<1>2. ASSUME NEW s \in Sub, Consumer(s) \/ Handled(s)
      PROVE  BusTypeOK'
  <2>1. CASE Take(s)
    <3>1. Head(ch[s]) \in Call /\ Tail(ch[s]) \in Seq(Call)
      BY <2>1, HeadTailProperties DEF Take
    <3> QED BY <2>1, <3>1 DEF Take
  <2>2. CASE SeeQuit(s) \/ Return(s)
    BY <2>2 DEF SeeQuit, Return
  <2>3. CASE Handled(s)
    <3>1. pending[s] - 1 \in Nat
      BY <2>3, Uncountable DEF Handled
    <3>2. Append(handled[s], hand[s]) \in Seq(Call)
      BY <2>3, AppendProperties DEF Handled
    <3> QED BY <2>3, <3>1, <3>2 DEF Handled
  <2> QED BY <1>2, <2>1, <2>2, <2>3 DEF Consumer
<1>3. ASSUME NEW c \in Call, PublishBegin(c) \/ Publisher(c)
      PROVE  BusTypeOK'
  <2>1. CASE PublishBegin(c)
    BY <2>1 DEF PublishBegin
  <2>2. ASSUME NEW s \in Sub, CountIn(c, s)
        PROVE  BusTypeOK'
    BY <2>2 DEF CountIn
  <2>3. ASSUME NEW s \in Sub, Send(c, s)
        PROVE  BusTypeOK'
    <3>1. pending[s] - 1 \in Nat
      BY <2>3, Uncountable DEF Send
    <3>2. Append(ch[s], c) \in Seq(Call) /\ Append(line[s], c) \in Seq(Call)
      <4>1. ch[s] \in Seq(Call) /\ line[s] \in Seq(Call)
        OBVIOUS
      <4> QED BY <4>1, AppendProperties
    <3>3. CASE Len(ch[s]) < QueueSize
      <4>1. ch' \in [Sub -> Seq(Call)] /\ line' \in [Sub -> Seq(Call)]
        <5> DEFINE q == Append(ch[s], c)  l == Append(line[s], c)
        <5>1. ch' = [ch EXCEPT ![s] = q] /\ line' = [line EXCEPT ![s] = l]
          BY <2>3, <3>3 DEF Send
        <5>2. q \in Seq(Call) /\ l \in Seq(Call)
          BY <3>2
        <5> HIDE DEF q, l
        <5> QED BY <5>1, <5>2
      <4>2. offering' \in [Call -> Sub \union {None}]
        BY <2>3 DEF Send
      <4>3. UNCHANGED <<subs, quit, pending, reader, hand, at, targets, after, handled, waiter, waitFor, owed>>
        BY <2>3, <3>3 DEF Send
      <4> QED BY <4>1, <4>2, <4>3
    <3>4. CASE ~(Len(ch[s]) < QueueSize)
      BY <2>3, <3>1, <3>4 DEF Send
    <3> QED BY <3>3, <3>4
  <2>4. CASE PublishEnd(c)
    BY <2>4 DEF PublishEnd
  <2> QED BY <1>3, <2>1, <2>2, <2>3, <2>4 DEF Publisher
<1>4. CASE WaitBegin \/ Waiting
  <2>1. CASE WaitBegin
    <3>1. \A s \in Sub : Range(ch[s]) \subseteq Call /\ Range(InHand(s)) \subseteq Call
      BY InHandType, RangeOfSeq
    <3>2. \A s \in Sub : Underway(s) \subseteq Call
      BY <3>1 DEF Underway
    <3> QED BY <2>1, <3>2 DEF WaitBegin
  <2>2. CASE Waiting
    BY <2>2 DEF Waiting, WaitOne, WaitEnd
  <2> QED BY <1>4, <2>1, <2>2
<1> QED BY <1>1, <1>2, <1>3, <1>4 DEF BusNext

\* Only three kinds of steps move an event ...
LEMMA Movers ==
    ASSUME BusNext, ~UNCHANGED <<line, handled, hand, ch>>
    PROVE  \/ \E c \in Call, s \in Sub : Send(c, s)
           \/ \E s \in Sub : Take(s) \/ Handled(s)
<1>1. ASSUME NEW s \in Sub, Subscribe(s) \/ Unregister(s) \/ CloseQuit(s) \/ SeeQuit(s) \/ Return(s)
      PROVE  UNCHANGED <<line, handled, hand, ch>>
  BY <1>1 DEF Subscribe, Unregister, CloseQuit, SeeQuit, Return
<1>2. ASSUME NEW c \in Call, PublishBegin(c) \/ PublishEnd(c) \/ \E s \in Sub : CountIn(c, s)
      PROVE  UNCHANGED <<line, handled, hand, ch>>
  BY <1>2 DEF PublishBegin, PublishEnd, CountIn
<1>3. ASSUME WaitBegin \/ Waiting
      PROVE  UNCHANGED <<line, handled, hand, ch>>
  BY <1>3 DEF WaitBegin, Waiting, WaitOne, WaitEnd
<1> QED BY <1>1, <1>2, <1>3 DEF BusNext, Consumer, Publisher

LEMMA ConservedStep ==
    ASSUME BusTypeOK, BusTypeOK', Conserved, BusNext
    PROVE  Conserved'
<1> SUFFICES ASSUME NEW t \in Sub
             PROVE  line'[t] = handled'[t] \o InHand(t)' \o ch'[t]
  BY DEF Conserved
<1>1. line[t] = (handled[t] \o InHand(t)) \o ch[t]
  BY DEF Conserved
<1>2. /\ InHand(t) \in Seq(Call) /\ handled[t] \in Seq(Call) /\ ch[t] \in Seq(Call)
      /\ line[t] \in Seq(Call)
  BY InHandType DEF BusTypeOK
<1>3. CASE UNCHANGED <<line, handled, hand, ch>>
  BY <1>1, <1>3 DEF InHand
<1>4. ASSUME NEW c \in Call, NEW s \in Sub, Send(c, s)
      PROVE  line'[t] = handled'[t] \o InHand(t)' \o ch'[t]
  <2>1. handled' = handled /\ InHand(t)' = InHand(t)
    BY <1>4 DEF Send, InHand, BusTypeOK
  <2>2. CASE t = s /\ Len(ch[s]) < QueueSize
    <3>1. line'[t] = Append(line[t], c) /\ ch'[t] = Append(ch[t], c)
      BY <1>4, <2>2 DEF Send, BusTypeOK
    <3>2. line'[t] = line[t] \o <<c>> /\ ch'[t] = ch[t] \o <<c>> /\ <<c>> \in Seq(Call)
      BY <1>2, <3>1, AppendJoins, Zenon
    <3>4. ((handled[t] \o InHand(t)) \o ch[t]) \o <<c>> = (handled[t] \o InHand(t)) \o (ch[t] \o <<c>>)
      <4>1. \A q, y \in Seq(Call) :
               ((handled[t] \o InHand(t)) \o q) \o y = (handled[t] \o InHand(t)) \o (q \o y)
        BY <1>2, SendKeeps, Zenon
      <4>2. ch[t] \in Seq(Call) /\ <<c>> \in Seq(Call)
        BY <1>2, <3>2, Zenon
      <4> QED BY <4>1, <4>2, Zenon
    <3>3. handled'[t] = handled[t]
      BY <2>1
    <3> QED BY <1>1, <2>1, <3>2, <3>3, <3>4, Zenon
  <2>3. CASE ~(t = s /\ Len(ch[s]) < QueueSize)
    <3>1. line'[t] = line[t] /\ ch'[t] = ch[t]
      BY <1>4, <2>3 DEF Send, BusTypeOK
    <3> QED BY <1>1, <2>1, <3>1
  <2> QED BY <2>2, <2>3
<1>5. ASSUME NEW s \in Sub, Take(s)
      PROVE  line'[t] = handled'[t] \o InHand(t)' \o ch'[t]
  <2>1. line' = line /\ handled' = handled
    BY <1>5 DEF Take, BusTypeOK
  <2>2. CASE t = s
    <3>1. InHand(t) = << >> /\ ch[t] # << >>
      BY <1>5, <2>2 DEF Take, InHand, BusTypeOK
    <3>2. hand'[t] = Head(ch[t]) /\ ch'[t] = Tail(ch[t]) /\ Head(ch[t]) \in Call
      BY <1>5, <2>2, <3>1, HeadTailProperties DEF Take, BusTypeOK
    <3>3. InHand(t)' = <<Head(ch[t])>>
      BY <3>2, BusAssumption DEF InHand
    <3>4. (handled[t] \o << >>) \o ch[t] = (handled[t] \o <<Head(ch[t])>>) \o Tail(ch[t])
      BY <1>2, <3>1, TakeKeeps, Zenon
    <3>5. line'[t] = line[t] /\ handled'[t] = handled[t]
      BY <2>1
    <3> QED BY <1>1, <3>1, <3>2, <3>3, <3>4, <3>5, Zenon
  <2>3. CASE t # s
    <3>1. ch'[t] = ch[t] /\ InHand(t)' = InHand(t)
      BY <1>5, <2>3 DEF Take, InHand, BusTypeOK
    <3> QED BY <1>1, <2>1, <3>1
  <2> QED BY <2>2, <2>3
<1>6. ASSUME NEW s \in Sub, Handled(s)
      PROVE  line'[t] = handled'[t] \o InHand(t)' \o ch'[t]
  <2>1. line' = line /\ ch' = ch
    BY <1>6 DEF Handled, BusTypeOK
  <2>2. CASE t = s
    <3>1. hand[t] \in Call /\ InHand(t) = <<hand[t]>>
      BY <1>6, <2>2, InHandType DEF Handled, BusTypeOK
    <3>2. handled'[t] = Append(handled[t], hand[t]) /\ InHand(t)' = << >>
      BY <1>6, <2>2 DEF Handled, InHand, BusTypeOK
    <3>3. handled'[t] = handled[t] \o <<hand[t]>> /\ <<hand[t]>> \in Seq(Call)
      BY <1>2, <3>1, <3>2, AppendJoins, Zenon
    <3>5. (handled[t] \o <<hand[t]>>) \o ch[t] = ((handled[t] \o <<hand[t]>>) \o << >>) \o ch[t]
      BY <1>2, <3>3, HandledKeeps, Zenon
    <3>4. line'[t] = line[t] /\ ch'[t] = ch[t]
      BY <2>1
    <3> QED BY <1>1, <3>1, <3>2, <3>3, <3>4, <3>5, Zenon
  <2>3. CASE t # s
    <3>1. handled'[t] = handled[t] /\ InHand(t)' = InHand(t)
      BY <1>6, <2>3 DEF Handled, InHand, BusTypeOK
    <3> QED BY <1>1, <2>1, <3>1
  <2> QED BY <2>2, <2>3
<1> QED BY <1>3, <1>4, <1>5, <1>6, Movers

\* ... only these three and CountIn change what is counted.
LEMMA Counters ==
    ASSUME BusNext, ~UNCHANGED <<pending, ch, hand, offering>>
    PROVE  \/ \E c \in Call, s \in Sub : CountIn(c, s) \/ Send(c, s)
           \/ \E s \in Sub : Take(s) \/ Handled(s)
<1>1. ASSUME NEW s \in Sub, Subscribe(s) \/ Unregister(s) \/ CloseQuit(s) \/ SeeQuit(s) \/ Return(s)
      PROVE  UNCHANGED <<pending, ch, hand, offering>>
  BY <1>1 DEF Subscribe, Unregister, CloseQuit, SeeQuit, Return, pubVars
<1>2. ASSUME NEW c \in Call, PublishBegin(c) \/ PublishEnd(c)
      PROVE  UNCHANGED <<pending, ch, hand, offering>>
  BY <1>2 DEF PublishBegin, PublishEnd
<1>3. ASSUME WaitBegin \/ Waiting
      PROVE  UNCHANGED <<pending, ch, hand, offering>>
  BY <1>3 DEF WaitBegin, Waiting, WaitOne, WaitEnd, pubVars
<1> QED BY <1>1, <1>2, <1>3 DEF BusNext, Consumer, Publisher

\* The parts of PendingExact.
LEMMA Counted ==
    PendingExact <=>
        \A t \in Sub : pending[t] = Len(ch[t]) + Len(InHand(t)) + Cardinality(Offerers(t))
  BY DEF PendingExact, Offerers

LEMMA PendingStep ==
    ASSUME BusTypeOK, PendingExact, BusNext
    PROVE  PendingExact'
<1> SUFFICES ASSUME NEW t \in Sub
             PROVE  pending'[t] = Len(ch'[t]) + Len(InHand(t)') + Cardinality(Offerers(t)')
  BY DEF PendingExact, Offerers
<1>1. pending[t] = Len(ch[t]) + Len(InHand(t)) + Cardinality(Offerers(t))
  BY Counted
<1>2. /\ pending[t] \in Nat /\ Len(ch[t]) \in Nat /\ Len(InHand(t)) \in Nat
      /\ Cardinality(Offerers(t)) \in Nat /\ ch[t] \in Seq(Call)
  BY InHandType, OfferersFinite DEF BusTypeOK
<1>3. CASE UNCHANGED <<pending, ch, hand, offering>>
  BY <1>1, <1>3 DEF InHand, Offerers
<1>4. ASSUME NEW c \in Call, NEW s \in Sub, CountIn(c, s)
      PROVE  pending'[t] = Len(ch'[t]) + Len(InHand(t)') + Cardinality(Offerers(t)')
  <2>1. offering[c] = None /\ offering' = [offering EXCEPT ![c] = s]
    BY <1>4 DEF CountIn
  <2>2. Cardinality(Offerers(t)') = Cardinality(Offerers(t)) + (IF t = s THEN 1 ELSE 0)
    BY <2>1, OneMoreOfferer
  <2>3. ch' = ch /\ InHand(t)' = InHand(t)
    BY <1>4 DEF CountIn, InHand
  <2>4. pending'[t] = pending[t] + (IF t = s THEN 1 ELSE 0)
    BY <1>2, <1>4 DEF CountIn, BusTypeOK
  <2> QED BY <1>1, <1>2, <2>2, <2>3, <2>4
<1>5. ASSUME NEW c \in Call, NEW s \in Sub, Send(c, s)
      PROVE  pending'[t] = Len(ch'[t]) + Len(InHand(t)') + Cardinality(Offerers(t)')
  <2>1. offering[c] = s /\ offering' = [offering EXCEPT ![c] = None]
    BY <1>5 DEF Send
  <2>2. Cardinality(Offerers(t)') = Cardinality(Offerers(t)) - (IF t = s THEN 1 ELSE 0)
    BY <2>1, OneLessOfferer
  <2>3. InHand(t)' = InHand(t)
    BY <1>5 DEF Send, InHand
  <2>4. CASE t = s /\ Len(ch[s]) < QueueSize
    <3>1. ch'[t] = Append(ch[t], c) /\ pending'[t] = pending[t]
      BY <1>5, <2>4 DEF Send, BusTypeOK
    <3>2. Len(ch'[t]) = Len(ch[t]) + 1
      BY <1>2, <3>1, AppendProperties
    <3>3. pending'[t] = pending[t]
      BY <3>1
    <3> QED BY <1>1, <1>2, <2>2, <2>3, <2>4, <3>2, <3>3
  <2>5. CASE t = s /\ ~(Len(ch[s]) < QueueSize)
    <3>1. ch'[t] = ch[t] /\ pending'[t] = pending[t] - 1
      BY <1>5, <2>5 DEF Send, BusTypeOK
    <3> QED BY <1>1, <1>2, <2>2, <2>3, <2>5, <3>1
  <2>6. CASE t # s
    <3>1. ch'[t] = ch[t] /\ pending'[t] = pending[t]
      BY <1>5, <2>6 DEF Send, BusTypeOK
    <3> QED BY <1>1, <1>2, <2>2, <2>3, <2>6, <3>1
  <2> QED BY <2>4, <2>5, <2>6
<1>6. ASSUME NEW s \in Sub, Take(s)
      PROVE  pending'[t] = Len(ch'[t]) + Len(InHand(t)') + Cardinality(Offerers(t)')
  <2>1. pending' = pending /\ Offerers(t)' = Offerers(t)
    BY <1>6 DEF Take, Offerers, pubVars
  <2>2. CASE t = s
    <3>1. ch[t] # << >> /\ ch'[t] = Tail(ch[t]) /\ hand'[t] = Head(ch[t]) /\ hand[t] = None
      BY <1>6, <2>2 DEF Take, BusTypeOK
    <3>2. Head(ch[t]) \in Call /\ Len(ch'[t]) = Len(ch[t]) - 1
      BY <1>2, <3>1, HeadTailProperties
    <3>3. Len(InHand(t)) = 0 /\ Len(InHand(t)') = 1
      BY <3>1, <3>2, BusAssumption DEF InHand
    <3> QED BY <1>1, <1>2, <2>1, <3>2, <3>3
  <2>3. CASE t # s
    <3>1. ch'[t] = ch[t] /\ InHand(t)' = InHand(t)
      BY <1>6, <2>3 DEF Take, InHand, BusTypeOK
    <3> QED BY <1>1, <2>1, <3>1
  <2> QED BY <2>2, <2>3
<1>7. ASSUME NEW s \in Sub, Handled(s)
      PROVE  pending'[t] = Len(ch'[t]) + Len(InHand(t)') + Cardinality(Offerers(t)')
  <2>1. ch' = ch /\ Offerers(t)' = Offerers(t)
    BY <1>7 DEF Handled, Offerers, pubVars
  <2>2. CASE t = s
    <3>1. hand[t] # None /\ hand'[t] = None /\ pending'[t] = pending[t] - 1
      BY <1>7, <2>2 DEF Handled, BusTypeOK
    <3>2. Len(InHand(t)) = 1 /\ Len(InHand(t)') = 0
      BY <3>1, InHandType DEF InHand
    <3> QED BY <1>1, <1>2, <2>1, <3>1, <3>2
  <2>3. CASE t # s
    <3>1. pending'[t] = pending[t] /\ InHand(t)' = InHand(t)
      BY <1>7, <2>3 DEF Handled, InHand, BusTypeOK
    <3> QED BY <1>1, <2>1, <3>1
  <2> QED BY <2>2, <2>3
<1> QED BY <1>3, <1>4, <1>5, <1>6, <1>7, Counters

\* A step of a publisher changes where it is; every other step leaves that alone.
LEMMA Publishes ==
    ASSUME BusNext, ~UNCHANGED <<pubVars, line>>
    PROVE  \E c \in Call : PublishBegin(c) \/ PublishEnd(c) \/ \E s \in Sub : CountIn(c, s) \/ Send(c, s)
<1>1. ASSUME NEW s \in Sub,
             \/ Subscribe(s) \/ Unregister(s) \/ CloseQuit(s)
             \/ SeeQuit(s) \/ Return(s) \/ Take(s) \/ Handled(s)
      PROVE  UNCHANGED <<pubVars, line>>
  BY <1>1 DEF Subscribe, Unregister, CloseQuit, SeeQuit, Return, Take, Handled
<1>2. ASSUME WaitBegin \/ Waiting
      PROVE  UNCHANGED <<pubVars, line>>
  BY <1>2 DEF WaitBegin, Waiting, WaitOne, WaitEnd
<1> QED BY <1>1, <1>2 DEF BusNext, Consumer, Publisher

LEMMA SettledStep ==
    ASSUME BusTypeOK, Settled, BusNext
    PROVE  Settled'
<1> USE DEF Settled, BusTypeOK, pubVars
<1>1. CASE UNCHANGED <<pubVars, line>>
  BY <1>1
<1>2. ASSUME NEW c \in Call, PublishBegin(c)
      PROVE  Settled'
  BY <1>2, BusAssumption DEF PublishBegin
<1>5. ASSUME NEW c \in Call, PublishEnd(c)
      PROVE  Settled'
  BY <1>5, BusAssumption DEF PublishEnd
<1>3. ASSUME NEW c \in Call, NEW s \in Sub, CountIn(c, s)
      PROVE  Settled'
  BY <1>3, BusAssumption DEF CountIn
<1>4. ASSUME NEW c \in Call, NEW s \in Sub, Send(c, s)
      PROVE  Settled'
  BY <1>4, BusAssumption DEF Send
<1> QED BY <1>1, <1>2, <1>3, <1>4, <1>5, Publishes

LEMMA ReturnedStep ==
    ASSUME BusTypeOK, Returned, BusNext
    PROVE  Returned'
<1> USE DEF Returned, BusTypeOK, pubVars
<1>1. CASE UNCHANGED <<pubVars, line>>
  BY <1>1
<1>2. ASSUME NEW c \in Call, PublishBegin(c) \/ PublishEnd(c)
      PROVE  Returned'
  <2>1. \A d \in Call : at[d] = "done" => at'[d] = "done"
    BY <1>2 DEF PublishBegin, PublishEnd
  <2>2. \A e \in Call : after'[e] = after[e] \/ after'[e] = {d \in Call : at[d] = "done"}
    BY <1>2 DEF PublishBegin, PublishEnd
  <2>3. ASSUME NEW e \in Call, NEW d \in after'[e]
        PROVE  d \in Call /\ at[d] = "done"
    <3>1. after[e] \subseteq Call /\ \A x \in after[e] : at[x] = "done"
      OBVIOUS
    <3> QED BY <2>2, <2>3, <3>1
  <2> QED BY <2>1, <2>3
<1>3. ASSUME NEW c \in Call, NEW s \in Sub, CountIn(c, s) \/ Send(c, s)
      PROVE  Returned'
  BY <1>3 DEF CountIn, Send
<1> QED BY <1>1, <1>2, <1>3, Publishes

\* What Send does to the lines.
LEMMA Accepted ==
    ASSUME BusTypeOK, NEW c \in Call, NEW s \in Sub, Send(c, s), NEW t \in Sub
    PROVE  \/ line'[t] = line[t]
           \/ t = s /\ line'[t] = Append(line[t], c)
  BY DEF Send, BusTypeOK

LEMMA OnceStep ==
    ASSUME BusTypeOK, Settled, Once, BusNext
    PROVE  Once'
<1> SUFFICES ASSUME NEW t \in Sub, NEW d \in Range(line'[t])
             PROVE  at'[d] # "idle" /\ t \notin targets'[d] /\ offering'[d] # t
  BY DEF Once
<1>0. /\ line[t] \in Seq(Call) /\ Range(line[t]) \subseteq Call
      /\ t # None
      /\ \A e \in Range(line[t]) : at[e] # "idle" /\ t \notin targets[e] /\ offering[e] # t
  BY RangeOfSeq, BusAssumption DEF BusTypeOK, Once
<1>1. CASE UNCHANGED <<pubVars, line>>
  BY <1>0, <1>1 DEF pubVars
<1>2. ASSUME NEW c \in Call, PublishBegin(c) \/ PublishEnd(c)
      PROVE  at'[d] # "idle" /\ t \notin targets'[d] /\ offering'[d] # t
  <2>1. line' = line
    BY <1>2 DEF PublishBegin, PublishEnd
  <2>2. d \in Call /\ at[d] # "idle" /\ t \notin targets[d] /\ offering[d] # t
    BY <1>0, <2>1
  <2> QED BY <1>2, <2>2 DEF PublishBegin, PublishEnd, BusTypeOK
<1>3. ASSUME NEW c \in Call, NEW s \in Sub, CountIn(c, s)
      PROVE  at'[d] # "idle" /\ t \notin targets'[d] /\ offering'[d] # t
  <2>1. line' = line
    BY <1>3 DEF CountIn
  <2>2. d \in Call /\ at[d] # "idle" /\ t \notin targets[d] /\ offering[d] # t
    BY <1>0, <2>1
  <2> QED BY <1>3, <2>2 DEF CountIn, BusTypeOK
<1>4. ASSUME NEW c \in Call, NEW s \in Sub, Send(c, s)
      PROVE  at'[d] # "idle" /\ t \notin targets'[d] /\ offering'[d] # t
  <2>1. at' = at /\ targets' = targets /\ offering' = [offering EXCEPT ![c] = None] /\ offering[c] = s
    BY <1>4 DEF Send
  <2>2. CASE d \in Range(line[t])
    <3>1. d \in Call /\ at[d] # "idle" /\ t \notin targets[d] /\ offering[d] # t
      BY <1>0, <2>2
    <3> QED BY <1>0, <2>1, <3>1 DEF BusTypeOK
  <2>3. CASE d \notin Range(line[t])
    <3>1. t = s /\ line'[t] = Append(line[t], c)
      BY <1>4, <2>3, Accepted
    <3>2. d = c
      <4>1. Range(line'[t]) = Range(line[t]) \union {c}
        BY <1>0, <3>1, RangeOfAppend, Zenon
      <4> QED BY <2>3, <4>1
    <3> QED BY <1>0, <2>1, <3>1, <3>2 DEF Settled, BusTypeOK
  <2> QED BY <2>2, <2>3
<1> QED BY <1>1, <1>2, <1>3, <1>4, Publishes

LEMMA OrderStep ==
    ASSUME BusTypeOK, Settled, Once, Returned, PublishOrder, BusNext
    PROVE  PublishOrder'
<1> SUFFICES ASSUME NEW t \in Sub, NEW i \in 1 .. Len(line'[t]), NEW j \in 1 .. Len(line'[t]), i < j
             PROVE  line'[t][i] # line'[t][j] /\ line'[t][j] \notin after'[line'[t][i]]
  BY DEF PublishOrder
<1>0. /\ line[t] \in Seq(Call) /\ Len(line[t]) \in Nat
      /\ \A k \in 1 .. Len(line[t]) : line[t][k] \in Call /\ line[t][k] \in Range(line[t])
      /\ \A k \in 1 .. Len(line[t]), l \in 1 .. Len(line[t]) :
            k < l => line[t][k] # line[t][l] /\ line[t][l] \notin after[line[t][k]]
      /\ \A e \in Range(line[t]) : at[e] # "idle" /\ offering[e] # t
  BY DEF BusTypeOK, PublishOrder, Once, Range
<1>1. CASE UNCHANGED <<pubVars, line>>
  BY <1>0, <1>1 DEF pubVars
<1>2. ASSUME NEW c \in Call, PublishBegin(c) \/ PublishEnd(c)
      PROVE  line'[t][i] # line'[t][j] /\ line'[t][j] \notin after'[line'[t][i]]
  <2>1. line'[t] = line[t] /\ \A e \in Call : at[e] # "idle" => after'[e] = after[e]
    BY <1>2 DEF PublishBegin, PublishEnd, BusTypeOK
  <2> QED BY <1>0, <2>1
<1>3. ASSUME NEW c \in Call, NEW s \in Sub, CountIn(c, s)
      PROVE  line'[t][i] # line'[t][j] /\ line'[t][j] \notin after'[line'[t][i]]
  BY <1>0, <1>3 DEF CountIn
<1>4. ASSUME NEW c \in Call, NEW s \in Sub, Send(c, s)
      PROVE  line'[t][i] # line'[t][j] /\ line'[t][j] \notin after'[line'[t][i]]
  <2>1. after' = after /\ offering[c] = s
    BY <1>4 DEF Send
  <2>2. CASE line'[t] = line[t]
    BY <1>0, <2>1, <2>2
  <2>3. CASE t = s /\ line'[t] = Append(line[t], c)
    <3>1. /\ Len(line'[t]) = Len(line[t]) + 1 /\ line'[t][Len(line[t]) + 1] = c
          /\ \A k \in 1 .. Len(line[t]) : line'[t][k] = line[t][k]
      BY <1>0, <2>3, AppendProperties
    <3>2. i \in 1 .. Len(line[t]) /\ line'[t][i] = line[t][i]
      BY <1>0, <3>1
    <3>3. CASE j \in 1 .. Len(line[t])
      BY <1>0, <2>1, <3>1, <3>2, <3>3
    <3>4. CASE j \notin 1 .. Len(line[t])
      <4>1. line'[t][j] = c
        BY <1>0, <3>1, <3>4
      <4>2. line[t][i] # c
        BY <1>0, <2>1, <2>3, <3>2
      <4>3. at[c] = "offering"
        BY <2>1, BusAssumption DEF Settled
      <4>4. c \notin after[line[t][i]]
        BY <1>0, <3>2, <4>3 DEF Returned
      <4> QED BY <2>1, <3>2, <4>1, <4>2, <4>4
    <3> QED BY <3>3, <3>4
  <2> QED BY <1>4, <2>2, <2>3, Accepted
<1> QED BY <1>1, <1>2, <1>3, <1>4, Publishes

\* The events underway leave only by being handled, and none is left when nothing is counted.
LEMMA NoneUnderway ==
    ASSUME BusTypeOK, PendingExact, NEW s \in Sub, pending[s] = 0
    PROVE  Underway(s) = {}
<1>1. /\ pending[s] = Len(ch[s]) + Len(InHand(s)) + Cardinality(Offerers(s))
      /\ Len(ch[s]) \in Nat /\ Len(InHand(s)) \in Nat /\ Cardinality(Offerers(s)) \in Nat
      /\ ch[s] \in Seq(Call) /\ InHand(s) \in Seq(Call)
  BY Counted, InHandType, OfferersFinite DEF BusTypeOK
<1>2. Len(ch[s]) = 0 /\ Len(InHand(s)) = 0
  BY <1>1
<1>3. ch[s] = << >> /\ InHand(s) = << >>
  BY <1>1, <1>2, EmptySeq
<1> QED BY <1>3, RangeOfNone DEF Underway

LEMMA Kept ==
    ASSUME BusTypeOK, BusTypeOK', BusNext, NEW t \in Sub
    PROVE  /\ Range(handled[t]) \subseteq Range(handled'[t])
           /\ Range(handled[t]) \union Underway(t) \subseteq Range(handled'[t]) \union Underway(t)'
<1>0. ch[t] \in Seq(Call) /\ handled[t] \in Seq(Call) /\ InHand(t) \in Seq(Call)
  BY InHandType DEF BusTypeOK
<1>1. CASE UNCHANGED <<line, handled, hand, ch>>
  BY <1>1 DEF Underway, InHand
<1>2. ASSUME NEW c \in Call, NEW s \in Sub, Send(c, s)
      PROVE  /\ Range(handled[t]) \subseteq Range(handled'[t])
             /\ Range(handled[t]) \union Underway(t) \subseteq Range(handled'[t]) \union Underway(t)'
  <2>1. handled' = handled /\ InHand(t)' = InHand(t) /\ (ch'[t] = ch[t] \/ ch'[t] = Append(ch[t], c))
    BY <1>2 DEF Send, InHand, BusTypeOK
  <2>2. Range(ch[t]) \subseteq Range(ch'[t])
    <3>1. Range(Append(ch[t], c)) = Range(ch[t]) \union {c}
      BY <1>0, RangeOfAppend, Zenon
    <3> QED BY <2>1, <3>1
  <2> QED BY <2>1, <2>2 DEF Underway
<1>3. ASSUME NEW s \in Sub, Take(s)
      PROVE  /\ Range(handled[t]) \subseteq Range(handled'[t])
             /\ Range(handled[t]) \union Underway(t) \subseteq Range(handled'[t]) \union Underway(t)'
  <2>1. handled' = handled
    BY <1>3 DEF Take
  <2>2. CASE t = s
    <3>1. InHand(t) = << >> /\ ch[t] # << >> /\ ch'[t] = Tail(ch[t]) /\ hand'[t] = Head(ch[t])
      BY <1>3, <2>2 DEF Take, InHand, BusTypeOK
    <3>2. InHand(t)' = <<Head(ch[t])>>
      <4>1. Head(ch[t]) \in Call
        BY <1>0, <3>1, HeadTailProperties
      <4> QED BY <3>1, <4>1, BusAssumption DEF InHand
    <3>3. Range(<<Head(ch[t])>>) \union Range(Tail(ch[t])) = Range(ch[t])
      BY <1>0, <3>1, RangeOfTaken, Zenon
    <3>4. Range(InHand(t)) = {}
      BY <3>1, RangeOfNone
    <3> QED BY <2>1, <3>1, <3>2, <3>3, <3>4 DEF Underway
  <2>3. CASE t # s
    <3>1. ch'[t] = ch[t] /\ InHand(t)' = InHand(t)
      BY <1>3, <2>3 DEF Take, InHand, BusTypeOK
    <3> QED BY <2>1, <3>1 DEF Underway
  <2> QED BY <2>2, <2>3
<1>4. ASSUME NEW s \in Sub, Handled(s)
      PROVE  /\ Range(handled[t]) \subseteq Range(handled'[t])
             /\ Range(handled[t]) \union Underway(t) \subseteq Range(handled'[t]) \union Underway(t)'
  <2>1. ch' = ch
    BY <1>4 DEF Handled
  <2>2. CASE t = s
    <3>1. hand[t] \in Call /\ InHand(t) = <<hand[t]>> /\ handled'[t] = Append(handled[t], hand[t])
      BY <1>4, <2>2, InHandType DEF Handled, BusTypeOK
    <3>2. Range(handled'[t]) = Range(handled[t]) \union {hand[t]}
      BY <1>0, <3>1, RangeOfAppend, Zenon
    <3>3. Range(<<hand[t]>>) = {hand[t]}
      <4>1. DOMAIN <<hand[t]>> = {1} /\ <<hand[t]>>[1] = hand[t]
        OBVIOUS
      <4> QED BY <4>1, Zenon DEF Range
    <3> QED BY <2>1, <3>1, <3>2, <3>3 DEF Underway
  <2>3. CASE t # s
    <3>1. handled'[t] = handled[t] /\ InHand(t)' = InHand(t)
      BY <1>4, <2>3 DEF Handled, InHand, BusTypeOK
    <3> QED BY <2>1, <3>1 DEF Underway
  <2> QED BY <2>2, <2>3
<1> QED BY <1>1, <1>2, <1>3, <1>4, Movers

LEMMA OwedStep ==
    ASSUME BusTypeOK, BusTypeOK', PendingExact, Owed, BusNext
    PROVE  Owed'
<1>0. ASSUME NEW t \in Sub, owed'[t] = owed[t]
      PROVE  /\ owed'[t] \subseteq Range(handled'[t]) \union Underway(t)'
             /\ t \notin waitFor => owed'[t] \subseteq Range(handled'[t])
  BY <1>0, Kept DEF Owed
<1>1. CASE UNCHANGED waitVars
  <2>1. owed' = owed /\ waitFor' = waitFor /\ waiter' = waiter
    BY <1>1 DEF waitVars
  <2> QED BY <1>0, <2>1 DEF Owed
<1>2. CASE WaitBegin
  <2>1. /\ waiter' = "waiting" /\ waitFor' = subs /\ handled' = handled
        /\ \A t \in Sub : Underway(t)' = Underway(t)
        /\ \A t \in Sub : owed'[t] = IF t \in subs THEN Underway(t) ELSE {}
    BY <1>2 DEF WaitBegin, Underway, InHand
  <2> QED BY <2>1 DEF Owed
<1>3. CASE WaitEnd
  <2>1. owed' = owed /\ waitFor' = waitFor /\ waitFor = {} /\ waiter' = "returned"
    BY <1>3 DEF WaitEnd
  <2> QED BY <1>0, <2>1 DEF Owed
<1>4. ASSUME NEW s \in Sub, WaitOne(s)
      PROVE  Owed'
  <2>1. owed' = owed /\ waitFor' = waitFor \ {s} /\ waiter' = waiter /\ handled' = handled /\ s \in waitFor
        /\ pending[s] = 0
    BY <1>4 DEF WaitOne
  <2>2. owed[s] \subseteq Range(handled'[s])
    BY <2>1, NoneUnderway DEF Owed
  <2> QED BY <1>0, <2>1, <2>2 DEF Owed
<1>5. CASE ~UNCHANGED waitVars
  <2>1. ASSUME NEW s \in Sub,
               \/ Subscribe(s) \/ Unregister(s) \/ CloseQuit(s)
               \/ SeeQuit(s) \/ Return(s) \/ Take(s) \/ Handled(s)
        PROVE  UNCHANGED waitVars
    BY <2>1 DEF Subscribe, Unregister, CloseQuit, SeeQuit, Return, Take, Handled
  <2>2. ASSUME NEW c \in Call,
               PublishBegin(c) \/ PublishEnd(c) \/ \E s \in Sub : CountIn(c, s) \/ Send(c, s)
        PROVE  UNCHANGED waitVars
    BY <2>2 DEF PublishBegin, PublishEnd, CountIn, Send
  <2> QED BY <1>2, <1>3, <1>4, <1>5, <2>1, <2>2 DEF BusNext, Consumer, Publisher, Waiting
<1> QED BY <1>1, <1>5

-----------------------------------------------------------------------------
(* The theorems *)

LEMMA Start == BusInit => IInv
<1> SUFFICES ASSUME BusInit PROVE IInv
  OBVIOUS
<1>1. BusTypeOK
  BY DEF BusInit, BusTypeOK
<1>2. \A s \in Sub : /\ InHand(s) = << >> /\ ch[s] = << >> /\ handled[s] = << >> /\ line[s] = << >>
                     /\ pending[s] = 0 /\ owed[s] = {}
  BY DEF BusInit, InHand
<1>3. Conserved
  <2>1. << >> \in Seq(Call) /\ << >> \o << >> = << >>
    BY ConcatEmptySeq
  <2> QED BY <1>2, <2>1, Zenon DEF Conserved
<1>4. \A s \in Sub : Offerers(s) = {}
  BY BusAssumption DEF BusInit, Offerers
<1>5. PendingExact
  <2>1. \A s \in Sub : Cardinality(Offerers(s)) = 0
    BY <1>4, OfferersFinite, FS_EmptySet
  <2>2. \A s \in Sub : Len(ch[s]) = 0 /\ Len(InHand(s)) = 0 /\ pending[s] = 0
    BY <1>2
  <2> QED BY <2>1, <2>2, Counted
<1>6. PublishOrder /\ Once
  BY <1>2, RangeOfNone DEF PublishOrder, Once
<1>7. Settled /\ Returned
  BY DEF Settled, Returned, BusInit
<1>8. Owed
  BY <1>2 DEF Owed, BusInit
<1> QED BY <1>1, <1>3, <1>5, <1>6, <1>7, <1>8 DEF IInv

LEMMA Step == IInv /\ [BusNext]_busVars => IInv'
<1> SUFFICES ASSUME IInv, [BusNext]_busVars PROVE IInv'
  OBVIOUS
<1>1. CASE BusNext
  <2>1. BusTypeOK'
    BY <1>1, TypeStep DEF IInv
  <2> QED BY <1>1, <2>1, ConservedStep, PendingStep, OrderStep, SettledStep, OnceStep, ReturnedStep,
             OwedStep DEF IInv
<1>2. CASE UNCHANGED busVars
  BY <1>2 DEF busVars, IInv, BusTypeOK, Conserved, PendingExact, PublishOrder, Settled, Once, Returned,
             Owed, Underway, InHand
<1> QED BY <1>1, <1>2

LEMMA Invariant == BusSpec => []IInv
  BY Start, Step, PTL DEF BusSpec

\* Every accepted event is queued, in the consumer's hand or handled, once and
\* in order of acceptance: consume never loses, repeats or overtakes.
THEOREM BusConserves == BusSpec => []Conserved
  BY Invariant, PTL DEF IInv

\* An event published after another's Publish returned comes after it, in every
\* subscription that accepted both (the promise at eventbus.go:3).
THEOREM BusOrders == BusSpec => []PublishOrder
  BY Invariant, PTL DEF IInv

\* The WaitGroup of a subscription counts the events underway: Done never makes
\* it negative, which would panic, and no path leaks a count.
THEOREM BusCounts == BusSpec => [](BusTypeOK /\ PendingExact)
  BY Invariant, PTL DEF IInv

\* Wait returns only when everything it found accepted is handled.
THEOREM BusWaits == BusSpec => []WaitMeansHandled
<1>1. IInv => WaitMeansHandled
  BY DEF IInv, Owed, WaitMeansHandled
<1> QED BY <1>1, Invariant, PTL

-----------------------------------------------------------------------------
(***************************************************************************)
(* LiveMonitor.  The invariant of the bus says in which order a handler     *)
(* gets events; the invariants here follow an event from the handler's hand *)
(* through a broadcast, a client's channel and its writer.                  *)
(***************************************************************************)

\* An event is only offered to, and accepted by, subscriptions of its type.
Topical ==
    /\ \A m \in Call : \A s \in targets[m] : TypeOf[s] = About[m]
    /\ \A m \in Call : offering[m] # None => TypeOf[offering[m]] = About[m]
    /\ \A s \in Sub : \A m \in Range(line[s]) : TypeOf[s] = About[m]

\* Outside Broadcast a handler has nobody to visit and nobody to close.
Casting == \A b \in Sub : b \notin casting => todo[b] = {} /\ slow[b] = NoClient

\* Nobody knows a client that has not connected.
Strangers ==
    \A c \in Client : conn[c] = "none" =>
        /\ c \notin clients \union closed
        /\ cast[c] = << >>
        /\ \A b \in Sub : c \notin todo[b] /\ slow[b] # c

\* What was broadcast to a client has been handled, or is being broadcast and
\* the client has been visited.
Handed ==
    \A c \in Client : \A m \in Range(cast[c]) : \E b \in Sub :
        /\ TypeOf[b] = About[m]
        /\ m \in Range(handled[b]) \/ (m = hand[b] /\ b \in casting /\ c \notin todo[b])

CastInOrder ==
    \A c \in Client : \A k, l \in DOMAIN cast[c] :
        k < l /\ About[cast[c][k]] = About[cast[c][l]]
            => cast[c][l] \notin after[cast[c][k]] \union {cast[c][k]}

\* What is in a client's channel or was written to it was broadcast to it, and
\* is there once.
Known ==
    \A c \in Client :
        /\ Range(got[c]) \subseteq Range(cast[c])
        /\ Range(send[c]) \subseteq Range(cast[c]) \union {Pong}

Unique ==
    \A c \in Client :
        /\ \A i, j \in DOMAIN got[c] : i # j => got[c][i] # got[c][j]
        /\ \A i, j \in DOMAIN send[c] : i # j /\ send[c][i] # Pong => send[c][i] # send[c][j]
        /\ Range(got[c]) \cap Range(send[c]) = {}

\* An open client has had, or has in its channel, all that was broadcast to it,
\* but for the message of a handler about to close it ...
Delivered ==
    \A c \in Client : conn[c] = "open" =>
        \A m \in Range(cast[c]) :
            \/ m \in Range(got[c]) \union Range(send[c])
            \/ \E b \in Sub : slow[b] = c /\ TypeOf[b] = About[m]

\* ... and a topic's messages are written, and wait in the channel as long as
\* they may still be written, in the order of their broadcast, without a gap.
Before(q, i, x) == \E j \in 1 .. i - 1 : q[j] = x

GotFifo ==
    \A c \in Client : \A k, l \in DOMAIN cast[c] :
        k < l /\ About[cast[c][k]] = About[cast[c][l]] =>
            \A i \in DOMAIN got[c] : got[c][i] = cast[c][l] => Before(got[c], i, cast[c][k])

SendFifo ==
    \A c \in Client : conn[c] = "open" => \A k, l \in DOMAIN cast[c] :
        k < l /\ About[cast[c][k]] = About[cast[c][l]] =>
            \A i \in DOMAIN send[c] : send[c][i] = cast[c][l] =>
                \/ cast[c][k] \in Range(got[c])
                \/ Before(send[c], i, cast[c][k])

LiveInv ==
    /\ TypeOK /\ IInv /\ Topical
    /\ Casting /\ Strangers /\ RegisteredIsOpen
    /\ Handed /\ CastInOrder
    /\ Known /\ Unique /\ Delivered /\ GotFifo /\ SendFifo
    /\ LiveRowsRight

-----------------------------------------------------------------------------
(* The steps *)

\* A step of the bus alone: of a publisher or a consumer.
BusMove ==
    /\ \/ \E s \in Sub : Consumer(s)
       \/ \E c \in Call : PublishBegin(c) \/ Publisher(c)
    /\ UNCHANGED <<hubVars, liveVars>>

\* A step of a broadcast, before its last.
Casts(b) ==
    /\ hand[b] # None
    /\ BroadcastBegin(b) \/ CloseSlow(b) \/ \E c \in Client : Push(b, c, hand[b])
    /\ UNCHANGED <<busVars, liveVars>>

Finishes(b) == BroadcastEnd(b) /\ Handled(b) /\ UNCHANGED liveVars

LEMMA Steps ==
    ASSUME Next
    PROVE  \/ BusMove
           \/ AttachBus
           \/ \E b \in Sub : Casts(b) \/ Finishes(b)
           \/ \E c \in Client : Connect(c) \/ Read(c) \/ Write(c)
           \/ ForgetClients \/ HangUpClient
<1>1. ASSUME NEW c \in Call, Publish(c) \/ Publishing(c)
      PROVE  BusMove
  BY <1>1 DEF Publish, Publishing, BusMove
<1>2. ASSUME NEW s \in Sub, Consume(s) \/ Handle(s)
      PROVE  BusMove \/ Casts(s) \/ Finishes(s)
  BY <1>2 DEF Consume, Handle, BusMove, Casts, Finishes
<1> QED BY <1>1, <1>2 DEF Next, Main

LEMMA Attached == ASSUME AttachBus PROVE UNCHANGED <<quit, ch, pending, hand, pubVars, line, handled, waitVars, hubVars, hangUp, rows>>
  BY DEF AttachBus

LEMMA BusStep ==
    ASSUME IInv, Next
    PROVE  IInv'
<1>1. CASE BusMove
  BY <1>1, Step DEF BusMove, BusNext
<1>2. ASSUME NEW b \in Sub, Finishes(b)
      PROVE  IInv'
  BY <1>2, Step DEF Finishes, BusNext
<1>3. CASE UNCHANGED busVars
  BY <1>3, Step
<1>4. CASE AttachBus
  <2>1. UNCHANGED <<quit, ch, pending, hand, at, targets, offering, after, line, handled, waiter, waitFor, owed>>
        /\ subs' = Sub /\ reader' = [s \in Sub |-> "select"]
    BY <1>4 DEF AttachBus, pubVars, waitVars
  <2>2. BusTypeOK'
    BY <2>1 DEF IInv, BusTypeOK
  <2>3. Conserved' /\ PublishOrder'
    BY <2>1 DEF IInv, Conserved, PublishOrder, InHand
  <2>4. PendingExact'
    BY <2>1 DEF IInv, PendingExact, InHand
  <2>5. Settled' /\ Once' /\ Returned'
    BY <2>1 DEF IInv, Settled, Once, Returned
  <2>6. Owed'
    BY <2>1 DEF IInv, Owed, Underway, InHand
  <2> QED BY <2>2, <2>3, <2>4, <2>5, <2>6 DEF IInv
<1>5. ASSUME NEW c \in Client, Connect(c) \/ Read(c) \/ Write(c)
      PROVE  UNCHANGED busVars
  BY <1>5 DEF Connect, Read, Write
<1>6. CASE ForgetClients \/ HangUpClient
  BY <1>3, <1>6 DEF ForgetClients, HangUpClient
<1>7. ASSUME NEW b \in Sub, Casts(b)
      PROVE  UNCHANGED busVars
  BY <1>7 DEF Casts
<1> QED BY <1>1, <1>2, <1>3, <1>4, <1>5, <1>6, <1>7, Steps

LEMMA TopicalStep ==
    ASSUME BusTypeOK, Topical, Next
    PROVE  Topical'
<1> USE BusAssumption DEF Topical, BusTypeOK
<1>1. CASE UNCHANGED <<targets, offering, line>>
  BY <1>1
<1>2. ASSUME NEW m \in Call, PublishBegin(m)
      PROVE  Topical'
  BY <1>2 DEF PublishBegin
<1>3. ASSUME NEW m \in Call, NEW s \in Sub, CountIn(m, s)
      PROVE  Topical'
  BY <1>3 DEF CountIn
<1>4. ASSUME NEW m \in Call, NEW s \in Sub, Send(m, s)
      PROVE  Topical'
  <2>1. targets' = targets /\ offering' = [offering EXCEPT ![m] = None] /\ TypeOf[s] = About[m]
    BY <1>4 DEF Send
  <2>2. ASSUME NEW t \in Sub
        PROVE  Range(line'[t]) = Range(line[t]) \/ (t = s /\ Range(line'[t]) = Range(line[t]) \union {m})
    <3>1. line[t] \in Seq(Call)
      OBVIOUS
    <3>2. line'[t] = line[t] \/ (t = s /\ line'[t] = Append(line[t], m))
      BY <1>4, Accepted
    <3>3. Range(Append(line[t], m)) = Range(line[t]) \union {m}
      BY <3>1, RangeOfAppend
    <3> QED BY <3>2, <3>3
  <2>3. ASSUME NEW t \in Sub, NEW d \in Range(line'[t])
        PROVE  TypeOf[t] = About[d]
    <3>1. \A e \in Range(line[t]) : TypeOf[t] = About[e]
      OBVIOUS
    <3> HIDE DEF Topical, BusTypeOK
    <3> QED BY <2>1, <2>2, <2>3, <3>1
  <2> QED BY <2>1, <2>3
<1>5. CASE BusMove
  <2>1. ASSUME NEW s \in Sub, Consumer(s)
        PROVE  UNCHANGED <<targets, offering, line>>
    BY <2>1 DEF Consumer, Take, SeeQuit, Return, pubVars
  <2>2. ASSUME NEW m \in Call, PublishEnd(m)
        PROVE  UNCHANGED <<targets, offering, line>>
    BY <2>2 DEF PublishEnd
  <2> QED BY <1>1, <1>2, <1>3, <1>4, <1>5, <2>1, <2>2 DEF BusMove, Publisher
<1>6. CASE AttachBus
  BY <1>1, <1>6, Attached DEF pubVars
<1>7. ASSUME NEW b \in Sub, Casts(b) \/ Finishes(b)
      PROVE  UNCHANGED <<targets, offering, line>>
  BY <1>7 DEF Casts, Finishes, Handled, pubVars, busVars
<1>8. ASSUME NEW c \in Client, Connect(c) \/ Read(c) \/ Write(c)
      PROVE  UNCHANGED <<targets, offering, line>>
  BY <1>8 DEF Connect, Read, Write, busVars
<1>9. CASE ForgetClients \/ HangUpClient
  BY <1>1, <1>9 DEF ForgetClients, HangUpClient, busVars
<1> QED BY <1>1, <1>5, <1>6, <1>7, <1>8, <1>9, Steps

\* Only a client's own steps, a broadcast and Close touch the hub.
LEMMA HubSteps ==
    ASSUME Next, ~UNCHANGED hubVars
    PROVE  \/ \E b \in Sub : Casts(b) \/ Finishes(b)
           \/ \E c \in Client : ServeHTTP(c) \/ Reader(c) \/ Writer(c)
           \/ Forget \/ \E c \in hangUp : HangUp(c)
<1>1. BusMove \/ AttachBus => UNCHANGED hubVars
  BY DEF BusMove, AttachBus
<1> QED BY <1>1, Steps DEF Connect, Read, Write, ForgetClients, HangUpClient

-----------------------------------------------------------------------------
(* Types *)

LEMMA LeaveTyped ==
    ASSUME HubTypeOK, NEW c \in Client, Leave(c)
    PROVE  clients' \subseteq Client /\ closed' \subseteq Client
           /\ conn' \in [Client -> {"none", "open", "closed"}]
<1>1. clients' \subseteq Client /\ closed' \subseteq Client
  BY DEF Leave, HubTypeOK
<1>2. conn' \in [Client -> {"none", "open", "closed"}]
  BY DEF Leave, HubTypeOK
<1> QED BY <1>1, <1>2

LEMMA SendTyped ==
    ASSUME HubTypeOK, NEW c \in Client, NEW q \in Seq(Message \union {Pong}), Len(q) <= SendBuffer,
           send' = [send EXCEPT ![c] = q]
    PROVE  /\ send' \in [Client -> Seq(Message \union {Pong})]
           /\ \A d \in Client : Len(send'[d]) <= SendBuffer
<1>1. send \in [Client -> Seq(Message \union {Pong})] /\ \A d \in Client : Len(send[d]) <= SendBuffer
  BY DEF HubTypeOK
<1>2. \A d \in Client : send'[d] = IF d = c THEN q ELSE send[d]
  BY <1>1
<1>3. send' \in [Client -> Seq(Message \union {Pong})]
  BY <1>1
<1> QED BY <1>1, <1>2, <1>3

LEMMA HubTypeStep ==
    ASSUME BusTypeOK, HubTypeOK, Next
    PROVE  HubTypeOK'
<1> USE LiveAssumption, HubAssumption DEF HubTypeOK, castVars, Pump
<1>1. CASE UNCHANGED hubVars
  BY <1>1 DEF hubVars
<1>2. ASSUME NEW b \in Sub, Casts(b)
      PROVE  HubTypeOK'
  <2>1. CASE BroadcastBegin(b) \/ CloseSlow(b)
    BY <2>1 DEF BroadcastBegin, CloseSlow
  <2>2. ASSUME NEW c \in Client, Push(b, c, hand[b])
        PROVE  HubTypeOK'
    <3>1. hand[b] \in Call /\ hand[b] \in Message \union {Pong}
      BY <1>2 DEF Casts, BusTypeOK
    <3>2. cast[c] \in Seq(Message) /\ send[c] \in Seq(Message \union {Pong})
      OBVIOUS
    <3> DEFINE q == Append(send[c], hand[b])  h == Append(cast[c], hand[b])
    <3>3. q \in Seq(Message \union {Pong}) /\ Len(q) = Len(send[c]) + 1 /\ h \in Seq(Message)
          /\ Len(send[c]) \in Nat
      BY <3>1, <3>2, AppendProperties
    <3>4. /\ cast' = [cast EXCEPT ![c] = h]
          /\ \/ Len(send[c]) < SendBuffer /\ send' = [send EXCEPT ![c] = q] /\ slow' = slow
             \/ send' = send /\ slow' = [slow EXCEPT ![b] = c]
          /\ todo' = [todo EXCEPT ![b] = @ \ {c}] /\ panicked' = (c \in closed)
          /\ UNCHANGED <<clients, conn, closed, rp, wp, casting, got>>
      BY <2>2 DEF Push
    <3> HIDE DEF q, h
    <3>5. cast' \in [Client -> Seq(Message)]
      BY <3>3, <3>4
    <3>6. send' \in [Client -> Seq(Message \union {Pong})] /\ \A d \in Client : Len(send'[d]) <= SendBuffer
      <4>1. CASE send' = send
        BY <4>1
      <4>2. CASE send' # send
        <5>1. send' = [send EXCEPT ![c] = q] /\ Len(q) <= SendBuffer
          BY <3>3, <3>4, <4>2
        <5> QED BY <3>3, <5>1, SendTyped
      <4> QED BY <4>1, <4>2
    <3>7. todo' \in [Caster -> SUBSET Client]
      BY <3>4
    <3>8. slow' \in [Caster -> Client \union {NoClient}]
      <4>1. slow' = slow \/ slow' = [slow EXCEPT ![b] = c]
        BY <3>4
      <4> QED BY <4>1
    <3>9. panicked' \in BOOLEAN
      BY <3>4
    <3> QED BY <3>4, <3>5, <3>6, <3>7, <3>8, <3>9
  <2> QED BY <1>2, <2>1, <2>2 DEF Casts
<1>3. ASSUME NEW b \in Sub, Finishes(b)
      PROVE  HubTypeOK'
  BY <1>3 DEF Finishes, BroadcastEnd
<1>4. ASSUME NEW c \in Client, ServeHTTP(c)
      PROVE  HubTypeOK'
  BY <1>4 DEF ServeHTTP
<1>5. ASSUME NEW c \in Client, Reader(c)
      PROVE  HubTypeOK'
  <2>1. CASE SendPong(c)
    <3>1. send[c] \in Seq(Message \union {Pong}) /\ Pong \in Message \union {Pong}
      OBVIOUS
    <3> DEFINE q == Append(send[c], Pong)
    <3>2. q \in Seq(Message \union {Pong}) /\ Len(q) = Len(send[c]) + 1 /\ Len(send[c]) \in Nat
      BY <3>1, AppendProperties
    <3>3. (Len(send[c]) < SendBuffer /\ send' = [send EXCEPT ![c] = q]) \/ send' = send
      BY <2>1 DEF SendPong
    <3> HIDE DEF q
    <3>4. send' \in [Client -> Seq(Message \union {Pong})] /\ \A d \in Client : Len(send'[d]) <= SendBuffer
      <4>1. CASE send' = send
        BY <4>1
      <4>2. CASE send' # send
        <5>1. send' = [send EXCEPT ![c] = q] /\ Len(q) <= SendBuffer
          BY <3>2, <3>3, <4>2
        <5> QED BY <3>2, <5>1, SendTyped
      <4> QED BY <4>1, <4>2
    <3>5. panicked' \in BOOLEAN /\ rp' \in [Client -> Pump]
      BY <2>1 DEF SendPong
    <3>6. UNCHANGED <<clients, conn, closed, wp, todo, casting, slow, cast, got>>
      BY <2>1 DEF SendPong
    <3> QED BY <3>4, <3>5, <3>6
  <2>2. CASE ReadPing(c) \/ ReadFails(c)
    <3>1. UNCHANGED <<clients, conn, send, closed, wp, todo, casting, slow, cast, got, panicked>>
      BY <2>2 DEF ReadPing, ReadFails
    <3>2. rp' \in [Client -> Pump]
      BY <2>2 DEF ReadPing, ReadFails
    <3> QED BY <3>1, <3>2
  <2>3. CASE ReaderLeaves(c)
    <3>1. UNCHANGED <<send, wp, todo, casting, slow, cast, got, panicked>>
      BY <2>3 DEF ReaderLeaves
    <3>2. rp' \in [Client -> Pump]
      BY <2>3 DEF ReaderLeaves
    <3> QED BY <2>3, <3>1, <3>2, LeaveTyped DEF ReaderLeaves
  <2> QED BY <1>5, <2>1, <2>2, <2>3 DEF Reader
<1>6. ASSUME NEW c \in Client, Writer(c)
      PROVE  HubTypeOK'
  <2>1. CASE WriteFrame(c)
    <3>1. send[c] \in Seq(Message \union {Pong}) /\ send[c] # << >> /\ got[c] \in Seq(Message)
      BY <2>1 DEF WriteFrame
    <3> DEFINE q == Tail(send[c])  h == Append(got[c], Head(send[c]))
    <3>2. q \in Seq(Message \union {Pong}) /\ Len(q) = Len(send[c]) - 1 /\ Len(send[c]) \in Nat
          /\ Head(send[c]) \in Message \union {Pong}
      BY <3>1, HeadTailProperties
    <3>3. Head(send[c]) # Pong => h \in Seq(Message)
      BY <3>1, <3>2, AppendProperties
    <3>4. send' = [send EXCEPT ![c] = q]
          /\ (got' = got \/ (Head(send[c]) # Pong /\ got' = [got EXCEPT ![c] = h]))
      BY <2>1 DEF WriteFrame
    <3> HIDE DEF q, h
    <3>5. send' \in [Client -> Seq(Message \union {Pong})] /\ \A d \in Client : Len(send'[d]) <= SendBuffer
      BY <3>2, <3>4
    <3>6. got' \in [Client -> Seq(Message)]
      BY <3>3, <3>4
    <3>7. UNCHANGED <<clients, conn, closed, rp, wp, todo, casting, slow, cast, panicked>>
      BY <2>1 DEF WriteFrame
    <3> QED BY <3>5, <3>6, <3>7
  <2>2. CASE WriteFails(c) \/ SeesClosed(c)
    <3>1. UNCHANGED <<clients, conn, send, closed, rp, todo, casting, slow, cast, got, panicked>>
      BY <2>2 DEF WriteFails, SeesClosed
    <3>2. wp' \in [Client -> Pump \ {"pong"}]
      BY <2>2 DEF WriteFails, SeesClosed
    <3> QED BY <3>1, <3>2
  <2>3. CASE WriterLeaves(c)
    <3>1. UNCHANGED <<send, rp, todo, casting, slow, cast, got, panicked>>
      BY <2>3 DEF WriterLeaves
    <3>2. wp' \in [Client -> Pump \ {"pong"}]
      BY <2>3 DEF WriterLeaves
    <3> QED BY <2>3, <3>1, <3>2, LeaveTyped DEF WriterLeaves
  <2> QED BY <1>6, <2>1, <2>2, <2>3 DEF Writer
<1>7. CASE Forget
  BY <1>7 DEF Forget
<1>8. ASSUME NEW c \in hangUp, HangUp(c)
      PROVE  HubTypeOK'
  BY <1>8 DEF HangUp
<1> QED BY <1>1, <1>2, <1>3, <1>4, <1>5, <1>6, <1>7, <1>8, HubSteps
-----------------------------------------------------------------------------
(* The registry *)

\* A broadcast's own state is touched by broadcasts only.
LEMMA CastSteps ==
    ASSUME Next, ~UNCHANGED <<castVars, cast>>
    PROVE  \E b \in Sub : \/ BroadcastBegin(b) \/ CloseSlow(b) \/ BroadcastEnd(b)
                          \/ hand[b] # None /\ \E c \in Client : Push(b, c, hand[b])
<1>1. CASE UNCHANGED hubVars
  BY <1>1 DEF hubVars, castVars
<1>2. ASSUME NEW c \in Client, ServeHTTP(c) \/ Reader(c) \/ Writer(c)
      PROVE  UNCHANGED <<castVars, cast>>
  BY <1>2 DEF ServeHTTP, Reader, ReadPing, SendPong, ReadFails, ReaderLeaves,
              Writer, WriteFrame, WriteFails, SeesClosed, WriterLeaves
<1>3. Forget \/ (\E c \in hangUp : HangUp(c)) => UNCHANGED <<castVars, cast>>
  BY DEF Forget, HangUp
<1>4. ASSUME NEW b \in Sub, Casts(b) \/ Finishes(b)
      PROVE  \/ BroadcastBegin(b) \/ CloseSlow(b) \/ BroadcastEnd(b)
             \/ hand[b] # None /\ \E c \in Client : Push(b, c, hand[b])
  BY <1>4 DEF Casts, Finishes
<1> QED BY <1>1, <1>2, <1>3, <1>4, HubSteps

LEMMA CastingStep ==
    ASSUME HubTypeOK, Casting, Next
    PROVE  Casting'
<1>0. Caster = Sub /\ todo \in [Sub -> SUBSET Client] /\ slow \in [Sub -> Client \union {NoClient}]
  BY LiveAssumption DEF HubTypeOK
<1>1. CASE UNCHANGED <<castVars, cast>>
  BY <1>1 DEF Casting, castVars
<1>2. ASSUME NEW b \in Sub, BroadcastBegin(b) \/ CloseSlow(b) \/ BroadcastEnd(b)
      PROVE  Casting'
  BY <1>0, <1>2 DEF BroadcastBegin, CloseSlow, BroadcastEnd, Casting
<1>3. ASSUME NEW b \in Sub, NEW c \in Client, Push(b, c, hand[b])
      PROVE  Casting'
  <2>1. b \in casting /\ casting' = casting
    BY <1>3 DEF Push, Casting
  <2>2. \A r \in Sub : r # b => todo'[r] = todo[r] /\ slow'[r] = slow[r]
    BY <1>0, <1>3 DEF Push
  <2> QED BY <2>1, <2>2 DEF Casting
<1> QED BY <1>1, <1>2, <1>3, CastSteps

\* The locked end of a pump: nobody is being broadcast to.
LEMMA Leaving ==
    ASSUME HubTypeOK, Casting, NEW c \in Client, Leave(c)
    PROVE  /\ \A b \in Sub : todo[b] = {} /\ slow[b] = NoClient
           /\ clients' = clients \ {c} /\ closed \subseteq closed'
           /\ \A d \in Client : d \in closed' => d \in closed \/ (d = c /\ c \in clients)
           /\ \A d \in Client : conn'[d] = IF d = c THEN "closed" ELSE conn[d]
<1>1. \A b \in Sub : b \notin casting
  BY DEF Leave, Lockable
<1>2. \A d \in Client : conn'[d] = IF d = c THEN "closed" ELSE conn[d]
  BY DEF Leave, HubTypeOK
<1> QED BY <1>1, <1>2 DEF Leave, Casting

\* What the steps of the hub do to the registry and the connections.
RegistryMove ==
    \/ UNCHANGED <<clients, closed, conn>>
    \/ \E b \in Sub : CloseSlow(b)
    \/ \E c \in Client : (ServeHTTP(c) \/ Leave(c) \/ HangUp(c)) /\ UNCHANGED <<castVars, cast>>
    \/ Forget

LEMMA RegistrySteps ==
    ASSUME hangUp \subseteq Client, Next
    PROVE  RegistryMove
<1>1. CASE UNCHANGED hubVars
  BY <1>1 DEF hubVars, RegistryMove
<1>2. ASSUME NEW b \in Sub, Casts(b) \/ Finishes(b)
      PROVE  RegistryMove
  BY <1>2 DEF Casts, Finishes, BroadcastBegin, BroadcastEnd, Push, RegistryMove
<1>3. ASSUME NEW c \in Client, Reader(c) \/ Writer(c)
      PROVE  RegistryMove
  BY <1>3 DEF Reader, ReadPing, SendPong, ReadFails, ReaderLeaves,
              Writer, WriteFrame, WriteFails, SeesClosed, WriterLeaves, RegistryMove
<1>4. ASSUME NEW c \in Client, ServeHTTP(c) \/ HangUp(c)
      PROVE  RegistryMove
  BY <1>4 DEF ServeHTTP, HangUp, RegistryMove
<1> QED BY <1>1, <1>2, <1>3, <1>4, HubSteps DEF RegistryMove

LEMMA StrangersStep ==
    ASSUME HubTypeOK, hangUp \subseteq Client, Casting, Strangers, Next
    PROVE  Strangers'
<1> SUFFICES ASSUME NEW c \in Client, conn'[c] = "none"
             PROVE  /\ c \notin clients' \union closed'
                    /\ cast'[c] = << >>
                    /\ \A b \in Sub : c \notin todo'[b] /\ slow'[b] # c
  BY DEF Strangers
<1>0. /\ conn \in [Client -> {"none", "open", "closed"}] /\ NoClient \notin Client
      /\ Caster = Sub /\ todo \in [Sub -> SUBSET Client] /\ slow \in [Sub -> Client \union {NoClient}]
      /\ cast \in [Client -> Seq(Message)]
  BY LiveAssumption, HubAssumption DEF HubTypeOK
<1>1. conn[c] = "none" /\ c \notin clients' \union closed'
  <2>0. conn[c] = "none" => c \notin clients \union closed
    BY DEF Strangers
  <2>1. CASE UNCHANGED <<clients, closed, conn>>
    BY <2>0, <2>1
  <2>2. ASSUME NEW b \in Sub, CloseSlow(b)
        PROVE  conn[c] = "none" /\ c \notin clients' \union closed'
    BY <1>0, <2>0, <2>2 DEF CloseSlow
  <2>3. ASSUME NEW d \in Client, Leave(d)
        PROVE  conn[c] = "none" /\ c \notin clients' \union closed'
    BY <2>0, <2>3, Leaving
  <2>4. ASSUME NEW d \in Client, ServeHTTP(d) \/ HangUp(d)
        PROVE  conn[c] = "none" /\ c \notin clients' \union closed'
    BY <1>0, <2>0, <2>4 DEF ServeHTTP, HangUp
  <2>5. CASE Forget
    BY <2>0, <2>5 DEF Forget
  <2> QED BY <2>1, <2>2, <2>3, <2>4, <2>5, RegistrySteps DEF RegistryMove
<1>2. /\ c \notin clients /\ cast[c] = << >>
      /\ \A b \in Sub : c \notin todo[b] /\ slow[b] # c
  BY <1>1 DEF Strangers
<1>3. CASE UNCHANGED <<castVars, cast>>
  BY <1>1, <1>2, <1>3 DEF castVars
<1>4. ASSUME NEW b \in Sub, BroadcastBegin(b) \/ CloseSlow(b) \/ BroadcastEnd(b)
      PROVE  cast'[c] = << >> /\ \A r \in Sub : c \notin todo'[r] /\ slow'[r] # c
  BY <1>0, <1>2, <1>4 DEF BroadcastBegin, CloseSlow, BroadcastEnd
<1>5. ASSUME NEW b \in Sub, NEW d \in Client, Push(b, d, hand[b])
      PROVE  cast'[c] = << >> /\ \A r \in Sub : c \notin todo'[r] /\ slow'[r] # c
  <2>1. c # d
    BY <1>2, <1>5 DEF Push
  <2> QED BY <1>0, <1>2, <1>5, <2>1 DEF Push
<1> QED BY <1>1, <1>3, <1>4, <1>5, CastSteps

LEMMA RegisteredStep ==
    ASSUME HubTypeOK, hangUp \subseteq Client, Casting, Strangers, RegisteredIsOpen, Next
    PROVE  RegisteredIsOpen'
<1>0. Caster = Sub /\ todo \in [Sub -> SUBSET Client] /\ clients \subseteq Client /\ closed \subseteq Client
      /\ clients \cap closed = {} /\ \A b \in Sub : todo[b] \cap closed = {}
  BY LiveAssumption DEF HubTypeOK, RegisteredIsOpen
<1>1. \A b \in Sub : todo'[b] \subseteq todo[b] \/ todo'[b] = clients
  <2>1. CASE UNCHANGED <<castVars, cast>>
    BY <2>1 DEF castVars
  <2>2. ASSUME NEW b \in Sub, BroadcastBegin(b) \/ CloseSlow(b) \/ BroadcastEnd(b)
        PROVE  \A r \in Sub : todo'[r] \subseteq todo[r] \/ todo'[r] = clients
    BY <1>0, <2>2 DEF BroadcastBegin, CloseSlow, BroadcastEnd
  <2>3. ASSUME NEW b \in Sub, NEW d \in Client, Push(b, d, hand[b])
        PROVE  \A r \in Sub : todo'[r] \subseteq todo[r] \/ todo'[r] = clients
    BY <1>0, <2>3 DEF Push
  <2> QED BY <2>1, <2>2, <2>3, CastSteps
<1>2. CASE UNCHANGED <<clients, closed, conn>>
  BY <1>0, <1>1, <1>2 DEF RegisteredIsOpen
<1>3. ASSUME NEW b \in Sub, CloseSlow(b)
      PROVE  RegisteredIsOpen'
  BY <1>0, <1>1, <1>3 DEF CloseSlow, RegisteredIsOpen
<1>4. ASSUME NEW c \in Client, ServeHTTP(c), UNCHANGED <<castVars, cast>>
      PROVE  RegisteredIsOpen'
  <2>1. c \notin closed /\ clients' = clients \union {c} /\ closed' = closed /\ todo' = todo
    BY <1>4 DEF ServeHTTP, Strangers, castVars
  <2> QED BY <1>0, <2>1 DEF RegisteredIsOpen
<1>5. ASSUME NEW c \in Client, Leave(c), UNCHANGED <<castVars, cast>>
      PROVE  RegisteredIsOpen'
  <2>1. todo' = todo /\ closed' \subseteq Client
    BY <1>5, LeaveTyped DEF castVars
  <2> QED BY <1>0, <1>5, <2>1, Leaving DEF RegisteredIsOpen
<1>6. ASSUME NEW c \in Client, HangUp(c)
      PROVE  RegisteredIsOpen'
  BY <1>0, <1>6 DEF HangUp, castVars, RegisteredIsOpen
<1>7. CASE Forget
  BY <1>0, <1>7 DEF Forget, castVars, RegisteredIsOpen
<1> QED BY <1>2, <1>3, <1>4, <1>5, <1>6, <1>7, RegistrySteps DEF RegistryMove
-----------------------------------------------------------------------------
(* The handler's event *)

LEMMA Appended ==
    ASSUME NEW S, NEW q \in Seq(S), NEW x \in S
    PROVE  /\ Append(q, x) \in Seq(S) /\ Len(Append(q, x)) = Len(q) + 1 /\ Len(q) \in Nat
           /\ \A i \in DOMAIN q : i \in DOMAIN Append(q, x) /\ Append(q, x)[i] = q[i]
           /\ \A i \in DOMAIN Append(q, x) : i \in DOMAIN q \/ (i = Len(q) + 1 /\ Append(q, x)[i] = x)
           /\ Append(q, x)[Len(q) + 1] = x /\ Len(q) + 1 \in DOMAIN Append(q, x)
           /\ DOMAIN q = 1 .. Len(q) /\ \A i \in DOMAIN q : q[i] \in S
           /\ Range(Append(q, x)) = Range(q) \union {x}
<1>1. /\ Append(q, x) \in Seq(S) /\ Len(Append(q, x)) = Len(q) + 1 /\ Len(q) \in Nat
      /\ \A i \in 1 .. Len(q) : Append(q, x)[i] = q[i] /\ q[i] \in S
      /\ Append(q, x)[Len(q) + 1] = x /\ DOMAIN q = 1 .. Len(q)
      /\ DOMAIN Append(q, x) = 1 .. Len(q) + 1
  BY AppendProperties
<1>2. /\ \A i \in DOMAIN q : i \in DOMAIN Append(q, x) /\ Append(q, x)[i] = q[i]
      /\ \A i \in DOMAIN Append(q, x) : i \in DOMAIN q \/ (i = Len(q) + 1 /\ Append(q, x)[i] = x)
      /\ Len(q) + 1 \in DOMAIN Append(q, x)
  BY <1>1
<1>3. Range(Append(q, x)) = Range(q) \union {x}
  <2>1. ASSUME NEW y \in Range(Append(q, x))
        PROVE  y \in Range(q) \union {x}
    <3>1. PICK i \in DOMAIN Append(q, x) : y = Append(q, x)[i]
      BY <2>1 DEF Range
    <3> QED BY <1>2, <3>1 DEF Range
  <2>2. ASSUME NEW y \in Range(q) \union {x}
        PROVE  y \in Range(Append(q, x))
    BY <1>1, <1>2, <2>2 DEF Range
  <2> QED BY <2>1, <2>2
<1> QED BY <1>1, <1>2, <1>3

\* What a handler has in hand is of its type, is not among what it is done with,
\* and no event it is done with was published after it.
LEMMA InHandIsNew ==
    ASSUME IInv, Topical, NEW b \in Sub, hand[b] # None
    PROVE  /\ hand[b] \in Call /\ TypeOf[b] = About[hand[b]] /\ hand[b] \in Range(line[b])
           /\ \A x \in Range(handled[b]) :
                x \in Call /\ TypeOf[b] = About[x] /\ x # hand[b] /\ hand[b] \notin after[x]
<1> DEFINE h == handled[b]  l == line[b]  q == ch[b]  a == Append(h, hand[b])
<1>1. /\ hand[b] \in Call /\ InHand(b) = <<hand[b]>> /\ h \in Seq(Call) /\ q \in Seq(Call)
      /\ l \in Seq(Call)
  BY InHandType DEF IInv, BusTypeOK
<1>2. l = (h \o <<hand[b]>>) \o q
  BY <1>1 DEF IInv, Conserved
<1>3. l = a \o q
  <2>1. a = h \o <<hand[b]>>
    BY <1>1, AppendJoins, Zenon
  <2> QED BY <1>2, <2>1
<1>4. /\ a \in Seq(Call) /\ Len(h) \in Nat /\ DOMAIN h = 1 .. Len(h)
      /\ Len(a) = Len(h) + 1 /\ a[Len(h) + 1] = hand[b] /\ \A i \in DOMAIN h : a[i] = h[i]
  BY <1>1, Appended
<1> HIDE DEF a, h, q, l
<1>5. Len(l) = Len(a) + Len(q) /\ Len(q) \in Nat /\ \A i \in 1 .. Len(a) : l[i] = a[i]
  <2>1. Len(a) \in Nat /\ Len(q) \in Nat /\ \A i \in 1 .. Len(a) : i \in 1 .. Len(a) + Len(q) /\ i <= Len(a)
    BY <1>1, <1>4
  <2>2. /\ Len(a \o q) = Len(a) + Len(q)
        /\ \A i \in 1 .. Len(a) + Len(q) : (a \o q)[i] = IF i <= Len(a) THEN a[i] ELSE q[i - Len(a)]
    BY <1>1, <1>4, ConcatProperties, Zenon
  <2> QED BY <1>3, <2>1, <2>2
<1>6. /\ Len(h) + 1 \in 1 .. Len(l) /\ l[Len(h) + 1] = hand[b]
      /\ \A i \in DOMAIN h : i \in 1 .. Len(l) /\ i < Len(h) + 1 /\ l[i] = h[i]
  BY <1>4, <1>5
<1>7. \A i, j \in 1 .. Len(l) : i < j => l[i] # l[j] /\ l[j] \notin after[l[i]]
  BY DEF IInv, PublishOrder, l
<1>8. \A i \in 1 .. Len(l) : l[i] \in Range(l) /\ l[i] \in Call
  BY <1>1 DEF Range
<1>9. \A x \in Range(l) : TypeOf[b] = About[x]
  BY DEF Topical, l
<1>10. ASSUME NEW x \in Range(h)
       PROVE  x \in Call /\ TypeOf[b] = About[x] /\ x # hand[b] /\ hand[b] \notin after[x]
  <2>1. PICK i \in DOMAIN h : x = h[i]
    BY <1>10 DEF Range
  <2> QED BY <1>6, <1>7, <1>8, <1>9, <2>1
<1> QED BY <1>1, <1>6, <1>8, <1>9, <1>10 DEF h, l

\* What is broadcast to a client is new to it, and was not published before
\* any event of the topic that was broadcast to it.
LEMMA Fresh ==
    ASSUME IInv, Topical, HubTypeOK, Handed, NEW b \in Sub, NEW c \in Client,
           hand[b] # None, Push(b, c, hand[b]), NEW x \in Range(cast[c]), About[x] = About[hand[b]]
    PROVE  hand[b] \notin after[x] \union {x}
<1>1. hand[b] \in Call /\ TypeOf[b] = About[hand[b]]
  BY InHandIsNew
<1>2. PICK r \in Sub : /\ TypeOf[r] = About[x]
                       /\ x \in Range(handled[r]) \/ (x = hand[r] /\ r \in casting /\ c \notin todo[r])
  BY DEF Handed
<1>3. r = b
  BY <1>1, <1>2, LiveAssumption
<1>4. c \in todo[b]
  BY DEF Push
<1> QED BY <1>2, <1>3, <1>4, InHandIsNew

LEMMA PushEffect ==
    ASSUME HubTypeOK, NEW b \in Sub, NEW c \in Client, NEW m \in Call, Push(b, c, m)
    PROVE  /\ cast[c] \in Seq(Call) /\ send[c] \in Seq(Call \union {Pong})
           /\ cast'[c] = Append(cast[c], m)
           /\ \A d \in Client : d # c => cast'[d] = cast[d] /\ send'[d] = send[d]
           /\ \/ send'[c] = Append(send[c], m) /\ slow' = slow
              \/ send'[c] = send[c] /\ slow'[b] = c /\ \A r \in Sub : r # b => slow'[r] = slow[r]
           /\ slow[b] = NoClient /\ conn' = conn /\ got' = got
           /\ c \in todo[b] /\ c \notin todo'[b] /\ casting' = casting
           /\ \A r \in Sub : todo'[r] \subseteq todo[r]
<1>1. /\ Caster = Sub /\ Message = Call
      /\ cast \in [Client -> Seq(Call)] /\ send \in [Client -> Seq(Call \union {Pong})]
      /\ todo \in [Sub -> SUBSET Client] /\ slow \in [Sub -> Client \union {NoClient}]
  BY LiveAssumption DEF HubTypeOK
<1>2. CASE Len(send[c]) < SendBuffer
  BY <1>1, <1>2 DEF Push
<1>3. CASE ~(Len(send[c]) < SendBuffer)
  BY <1>1, <1>3 DEF Push
<1> QED BY <1>2, <1>3

LEMMA HandledInLine ==
    ASSUME IInv, NEW b \in Sub, NEW x \in Range(handled[b])
    PROVE  x \in Range(line[b])
<1>1. InHand(b) \in Seq(Call) /\ handled[b] \in Seq(Call) /\ ch[b] \in Seq(Call)
  BY InHandType DEF IInv, BusTypeOK
<1>2. handled[b] \o InHand(b) \in Seq(Call)
  BY <1>1, ConcatProperties
<1>3. line[b] = (handled[b] \o InHand(b)) \o ch[b]
  BY DEF IInv, Conserved
<1>4. Range((handled[b] \o InHand(b)) \o ch[b]) = Range(handled[b] \o InHand(b)) \union Range(ch[b])
  BY <1>1, <1>2, RangeConcatenation, Zenon
<1>5. Range(handled[b] \o InHand(b)) = Range(handled[b]) \union Range(InHand(b))
  BY <1>1, RangeConcatenation, Zenon
<1> QED BY <1>3, <1>4, <1>5

\* An event stays with its handler until the broadcast of it ends.
LEMMA HandKeeps ==
    ASSUME BusTypeOK, BusTypeOK', Next, NEW b \in Sub
    PROVE  /\ Range(handled[b]) \subseteq Range(handled'[b])
           /\ hand[b] # None => hand'[b] = hand[b] \/ hand[b] \in Range(handled'[b])
<1>1. CASE UNCHANGED <<handled, hand>>
  BY <1>1
<1>2. CASE BusMove
  <2>1. Range(handled[b]) \subseteq Range(handled'[b])
    BY <1>2, Kept DEF BusMove, BusNext
  <2>2. hand'[b] = hand[b] \/ hand[b] = None
    <3>1. ASSUME NEW s \in Sub, Consumer(s)
          PROVE  hand'[b] = hand[b] \/ hand[b] = None
      BY <3>1 DEF Consumer, Take, SeeQuit, Return, BusTypeOK
    <3>2. ASSUME NEW d \in Call, PublishBegin(d) \/ Publisher(d)
          PROVE  hand' = hand
      BY <3>2 DEF PublishBegin, Publisher, PublishEnd, CountIn, Send
    <3> QED BY <1>2, <3>1, <3>2 DEF BusMove
  <2> QED BY <2>1, <2>2
<1>3. ASSUME NEW r \in Sub, Finishes(r)
      PROVE  /\ Range(handled[b]) \subseteq Range(handled'[b])
             /\ hand[b] # None => hand'[b] = hand[b] \/ hand[b] \in Range(handled'[b])
  <2>1. CASE r = b
    <3>1. hand[b] \in Call /\ handled[b] \in Seq(Call) /\ handled'[b] = Append(handled[b], hand[b])
      BY <1>3, <2>1 DEF Finishes, Handled, BusTypeOK
    <3>2. Range(handled'[b]) = Range(handled[b]) \union {hand[b]}
      BY <3>1, RangeOfAppend, Zenon
    <3> QED BY <3>2
  <2>2. CASE r # b
    BY <1>3, <2>2 DEF Finishes, Handled, BusTypeOK
  <2> QED BY <2>1, <2>2
<1>4. AttachBus => UNCHANGED <<handled, hand>>
  BY DEF AttachBus
<1>5. ASSUME NEW c \in Client, Connect(c) \/ Read(c) \/ Write(c)
      PROVE  UNCHANGED <<handled, hand>>
  BY <1>5 DEF Connect, Read, Write, busVars
<1>6. ForgetClients \/ HangUpClient => UNCHANGED <<handled, hand>>
  BY DEF ForgetClients, HangUpClient, busVars
<1>7. ASSUME NEW r \in Sub, Casts(r)
      PROVE  UNCHANGED <<handled, hand>>
  BY <1>7 DEF Casts, busVars
<1> QED BY <1>1, <1>2, <1>3, <1>4, <1>5, <1>6, <1>7, Steps

\* A finished broadcast's event is handled in the same step.
LEMMA CastKeeps ==
    ASSUME HubTypeOK, BusTypeOK, Next, NEW b \in Sub, NEW c \in Client, b \in casting, c \notin todo[b]
    PROVE  (b \in casting' /\ c \notin todo'[b]) \/ (hand[b] # None /\ hand[b] \in Range(handled'[b]))
<1>0. Caster = Sub /\ todo \in [Sub -> SUBSET Client]
  BY LiveAssumption DEF HubTypeOK
<1>1. CASE UNCHANGED hubVars
  BY <1>1 DEF hubVars
<1>2. ASSUME NEW r \in Sub, Finishes(r)
      PROVE  (b \in casting' /\ c \notin todo'[b]) \/ (hand[b] # None /\ hand[b] \in Range(handled'[b]))
  <2>1. CASE r = b
    <3>1. hand[b] # None /\ hand[b] \in Call /\ handled[b] \in Seq(Call)
          /\ handled'[b] = Append(handled[b], hand[b])
      BY <1>2, <2>1 DEF Finishes, Handled, BusTypeOK
    <3> QED BY <3>1, RangeOfAppend
  <2>2. CASE r # b
    BY <1>2, <2>2 DEF Finishes, BroadcastEnd
  <2> QED BY <2>1, <2>2
<1>3. ASSUME NEW r \in Sub, Casts(r)
      PROVE  b \in casting' /\ c \notin todo'[b]
  BY <1>0, <1>3 DEF Casts, BroadcastBegin, CloseSlow, Push
<1>4. ASSUME NEW d \in Client, ServeHTTP(d) \/ Reader(d) \/ Writer(d)
      PROVE  b \in casting' /\ c \notin todo'[b]
  BY <1>4 DEF ServeHTTP, Reader, ReadPing, SendPong, ReadFails, ReaderLeaves, castVars,
              Writer, WriteFrame, WriteFails, SeesClosed, WriterLeaves
<1>5. Forget \/ (\E d \in hangUp : HangUp(d)) => b \in casting' /\ c \notin todo'[b]
  BY DEF Forget, HangUp, castVars
<1> QED BY <1>1, <1>2, <1>3, <1>4, <1>5, HubSteps

LEMMA CastPushes ==
    ASSUME Next, cast' # cast
    PROVE  \E b \in Sub, c \in Client :
              hand[b] # None /\ Push(b, c, hand[b]) /\ UNCHANGED <<busVars, liveVars>>
<1>1. ASSUME NEW b \in Sub, BroadcastBegin(b) \/ CloseSlow(b) \/ BroadcastEnd(b)
      PROVE  cast' = cast
  BY <1>1 DEF BroadcastBegin, CloseSlow, BroadcastEnd
<1>2. ASSUME NEW c \in Client, ServeHTTP(c) \/ Reader(c) \/ Writer(c)
      PROVE  cast' = cast
  BY <1>2 DEF ServeHTTP, Reader, ReadPing, SendPong, ReadFails, ReaderLeaves,
              Writer, WriteFrame, WriteFails, SeesClosed, WriterLeaves
<1>3. UNCHANGED hubVars \/ Forget \/ (\E c \in hangUp : HangUp(c)) => cast' = cast
  BY DEF Forget, HangUp, hubVars
<1> QED BY <1>1, <1>2, <1>3, HubSteps DEF Casts, Finishes

LEMMA HandedStep ==
    ASSUME HubTypeOK, IInv, BusTypeOK', Topical, Casting, Handed, Next
    PROVE  Handed'
<1> SUFFICES ASSUME NEW c \in Client, NEW m \in Range(cast'[c])
             PROVE  \E b \in Sub : /\ TypeOf[b] = About[m]
                                   /\ \/ m \in Range(handled'[b])
                                      \/ m = hand'[b] /\ b \in casting' /\ c \notin todo'[b]
  BY DEF Handed
<1>1. CASE m \in Range(cast[c])
  <2>1. PICK b \in Sub : /\ TypeOf[b] = About[m]
                         /\ m \in Range(handled[b]) \/ (m = hand[b] /\ b \in casting /\ c \notin todo[b])
    BY <1>1 DEF Handed
  <2>2. CASE m \in Range(handled[b])
    BY <2>1, <2>2, HandKeeps DEF IInv
  <2>3. CASE m = hand[b] /\ b \in casting /\ c \notin todo[b]
    <3>1. m # None
      BY <1>1, LiveAssumption, BusAssumption DEF HubTypeOK, Range
    <3>2. hand'[b] = hand[b] \/ m \in Range(handled'[b])
      BY <2>3, <3>1, HandKeeps DEF IInv
    <3>3. (b \in casting' /\ c \notin todo'[b]) \/ m \in Range(handled'[b])
      BY <2>3, CastKeeps DEF IInv
    <3> QED BY <2>1, <2>3, <3>2, <3>3
  <2> QED BY <2>1, <2>2, <2>3
<1>2. CASE m \notin Range(cast[c])
  <2>1. PICK b \in Sub, d \in Client :
            hand[b] # None /\ Push(b, d, hand[b]) /\ UNCHANGED <<busVars, liveVars>>
    BY <1>2, CastPushes
  <2>2. hand[b] \in Call /\ TypeOf[b] = About[hand[b]] /\ hand' = hand
    BY <2>1, InHandIsNew DEF busVars
  <2>3. /\ cast[d] \in Seq(Call) /\ cast'[d] = Append(cast[d], hand[b])
        /\ \A e \in Client : e # d => cast'[e] = cast[e]
        /\ d \in todo[b] /\ d \notin todo'[b] /\ casting' = casting
    BY <2>1, <2>2, PushEffect
  <2>4. c = d /\ m = hand[b]
    <3>1. Range(Append(cast[d], hand[b])) = Range(cast[d]) \union {hand[b]}
      BY <2>2, <2>3, Appended
    <3> QED BY <1>2, <2>3, <3>1
  <2>5. b \in casting
    BY <2>3 DEF Casting
  <2> QED BY <2>2, <2>3, <2>4, <2>5
<1> QED BY <1>1, <1>2

\* What a call of Publish may not come before is fixed once it has begun.
LEMMA AfterKeeps ==
    ASSUME BusTypeOK, Next, NEW e \in Call, at[e] # "idle"
    PROVE  after'[e] = after[e]
<1>1. CASE UNCHANGED after
  BY <1>1
<1>2. ASSUME NEW d \in Call, PublishBegin(d)
      PROVE  after'[e] = after[e]
  BY <1>2 DEF PublishBegin, BusTypeOK
<1>3. CASE BusMove
  <2>1. ASSUME NEW s \in Sub, Consumer(s)
        PROVE  after' = after
    BY <2>1 DEF Consumer, Take, SeeQuit, Return, pubVars
  <2>2. ASSUME NEW d \in Call, Publisher(d)
        PROVE  after' = after
    BY <2>2 DEF Publisher, PublishEnd, CountIn, Send
  <2> QED BY <1>2, <1>3, <2>1, <2>2 DEF BusMove
<1>4. AttachBus => UNCHANGED after
  BY DEF AttachBus, pubVars
<1>5. ASSUME NEW c \in Client, Connect(c) \/ Read(c) \/ Write(c)
      PROVE  UNCHANGED after
  BY <1>5 DEF Connect, Read, Write, busVars
<1>6. ForgetClients \/ HangUpClient => UNCHANGED after
  BY DEF ForgetClients, HangUpClient, busVars
<1>7. ASSUME NEW r \in Sub, Casts(r) \/ Finishes(r)
      PROVE  UNCHANGED after
  BY <1>7 DEF Casts, Finishes, Handled, pubVars, busVars
<1> QED BY <1>1, <1>3, <1>4, <1>5, <1>6, <1>7, Steps

\* What was broadcast had been published.
LEMMA CastBegan ==
    ASSUME IInv, Topical, Handed, NEW c \in Client, NEW m \in Range(cast[c]), m \in Call
    PROVE  at[m] # "idle"
<1>1. PICK b \in Sub : m \in Range(handled[b]) \/ m = hand[b]
  BY DEF Handed
<1>2. m # None
  BY BusAssumption
<1>3. m \in Range(line[b])
  BY <1>1, <1>2, HandledInLine, InHandIsNew
<1> QED BY <1>3 DEF IInv, Once

LEMMA CastInOrderStep ==
    ASSUME HubTypeOK, IInv, Topical, Handed, CastInOrder, Next
    PROVE  CastInOrder'
<1> SUFFICES ASSUME NEW c \in Client, NEW k \in DOMAIN cast'[c], NEW l \in DOMAIN cast'[c],
                    k < l, About[cast'[c][k]] = About[cast'[c][l]]
             PROVE  cast'[c][l] \notin after'[cast'[c][k]] \union {cast'[c][k]}
  BY DEF CastInOrder
<1>1. cast[c] \in Seq(Call)
  BY LiveAssumption DEF HubTypeOK
<1>2. \A i \in DOMAIN cast[c] : cast[c][i] \in Call /\ after'[cast[c][i]] = after[cast[c][i]]
  <2>1. ASSUME NEW i \in DOMAIN cast[c]
        PROVE  cast[c][i] \in Call /\ cast[c][i] \in Range(cast[c])
    BY <1>1, <2>1 DEF Range
  <2> QED BY <2>1, CastBegan, AfterKeeps DEF IInv
<1>3. \A i, j \in DOMAIN cast[c] : i < j /\ About[cast[c][i]] = About[cast[c][j]]
          => cast[c][j] \notin after[cast[c][i]] \union {cast[c][i]}
  BY DEF CastInOrder
<1>4. CASE cast'[c] = cast[c]
  BY <1>2, <1>3, <1>4
<1>5. CASE cast'[c] # cast[c]
  <2>1. PICK b \in Sub, d \in Client :
            hand[b] # None /\ Push(b, d, hand[b]) /\ UNCHANGED <<busVars, liveVars>>
    BY <1>5, CastPushes
  <2> DEFINE m == hand[b]
  <2>2. m \in Call /\ after' = after
    BY <2>1, InHandIsNew DEF busVars
  <2>3. d = c /\ cast'[c] = Append(cast[c], m)
    BY <1>5, <2>1, <2>2, PushEffect
  <2>4. \A x \in Range(cast[c]) : About[x] = About[m] => m \notin after[x] \union {x}
    BY <2>1, <2>3, Fresh
  <2> HIDE DEF m
  <2>5. /\ \A i \in DOMAIN cast'[c] :
              (i \in DOMAIN cast[c] /\ cast'[c][i] = cast[c][i]) \/ (i = Len(cast[c]) + 1 /\ cast'[c][i] = m)
        /\ DOMAIN cast[c] = 1 .. Len(cast[c]) /\ Len(cast[c]) \in Nat
    BY <1>1, <2>2, <2>3, Appended
  <2>6. CASE l \in DOMAIN cast[c]
    <3>1. k \in DOMAIN cast[c] /\ cast'[c][k] = cast[c][k] /\ cast'[c][l] = cast[c][l]
      BY <2>5, <2>6
    <3> QED BY <1>3, <2>2, <2>6, <3>1
  <2>7. CASE l \notin DOMAIN cast[c]
    <3>1. k \in DOMAIN cast[c] /\ cast'[c][k] = cast[c][k] /\ cast'[c][l] = m
      BY <2>5, <2>7
    <3>2. cast[c][k] \in Range(cast[c])
      BY <3>1 DEF Range
    <3> QED BY <2>2, <2>4, <3>1, <3>2
  <2> QED BY <2>6, <2>7
<1> QED BY <1>4, <1>5
-----------------------------------------------------------------------------
(* What a step does to one client *)

LEMMA Tailed ==
    ASSUME NEW S, NEW q \in Seq(S), q # << >>
    PROVE  /\ 1 \in DOMAIN q /\ q[1] \in S /\ Head(q) = q[1]
           /\ \A i \in DOMAIN Tail(q) : i \in Nat \ {0} /\ i + 1 \in DOMAIN q /\ Tail(q)[i] = q[i + 1]
           /\ \A i \in DOMAIN q : i \in Nat /\ (i = 1 \/ (i - 1 \in DOMAIN Tail(q) /\ Tail(q)[i - 1] = q[i]))
           /\ Range(q) = {q[1]} \union Range(Tail(q))
<1>1. /\ Len(q) \in Nat \ {0} /\ DOMAIN q = 1 .. Len(q) /\ Head(q) = q[1]
      /\ \A i \in 1 .. Len(q) : q[i] \in S
      /\ Len(Tail(q)) = Len(q) - 1 /\ DOMAIN Tail(q) = 1 .. Len(q) - 1
      /\ \A i \in 1 .. Len(q) - 1 : Tail(q)[i] = q[i + 1]
  BY HeadTailProperties
<1>2. /\ 1 \in DOMAIN q /\ q[1] \in S
      /\ \A i \in DOMAIN Tail(q) : i \in Nat \ {0} /\ i + 1 \in DOMAIN q /\ Tail(q)[i] = q[i + 1]
  BY <1>1
<1>3. ASSUME NEW i \in DOMAIN q, i # 1
      PROVE  i \in Nat /\ i - 1 \in DOMAIN Tail(q) /\ Tail(q)[i - 1] = q[i]
  <2>1. i - 1 \in 1 .. Len(q) - 1 /\ (i - 1) + 1 = i /\ i \in Nat
    BY <1>1, <1>3
  <2> QED BY <1>1, <2>1
<1>4. Range(q) = {q[1]} \union Range(Tail(q))
  <2>1. ASSUME NEW y \in Range(q)
        PROVE  y \in {q[1]} \union Range(Tail(q))
    BY <1>3, <2>1 DEF Range
  <2>2. ASSUME NEW y \in {q[1]} \union Range(Tail(q))
        PROVE  y \in Range(q)
    BY <1>2, <2>2 DEF Range
  <2> QED BY <2>1, <2>2
<1> QED BY <1>1, <1>2, <1>3, <1>4

Untouched(c) == cast'[c] = cast[c] /\ send'[c] = send[c] /\ got'[c] = got[c] /\ rows'[c] = rows[c]

Pushed(b, c) ==
    /\ hand[b] \in Call \ Range(cast[c]) /\ TypeOf[b] = About[hand[b]] /\ slow[b] = NoClient
    /\ cast'[c] = Append(cast[c], hand[b]) /\ got'[c] = got[c] /\ rows'[c] = rows[c]
    /\ send'[c] = Append(send[c], hand[b]) \/ (send'[c] = send[c] /\ slow'[b] = c)

Ponged(c) == cast'[c] = cast[c] /\ send'[c] = Append(send[c], Pong) /\ got'[c] = got[c] /\ rows'[c] = rows[c]

Written(c) ==
    /\ send[c] # << >> /\ send'[c] = Tail(send[c]) /\ cast'[c] = cast[c] /\ conn[c] = "open"
    /\ \/ send[c][1] = Pong /\ got'[c] = got[c] /\ rows'[c] = rows[c]
       \/ /\ send[c][1] \in Call
          /\ got'[c] = Append(got[c], send[c][1])
          /\ rows'[c] = mergeLiveEvent(rows[c], send[c][1])

LEMMA WriteStep ==
    ASSUME HubTypeOK, rows \in [Client -> Seq(Row)], NEW c \in Client, NEW d \in Client, Write(d)
    PROVE  Untouched(c) \/ Written(c)
<1>1. /\ send \in [Client -> Seq(Call \union {Pong})] /\ got \in [Client -> Seq(Call)]
      /\ cast \in [Client -> Seq(Call)]
  BY LiveAssumption DEF HubTypeOK
<1>2. CASE WriteFails(d) \/ SeesClosed(d) \/ WriterLeaves(d)
  <2>1. cast' = cast /\ send' = send /\ got' = got
    BY <1>2 DEF WriteFails, SeesClosed, WriterLeaves
  <2> QED BY <2>1 DEF Write, Untouched
<1>3. CASE WriteFrame(d)
  <2>1. send[d] # << >> /\ conn[d] = "open" /\ cast' = cast /\ send' = [send EXCEPT ![d] = Tail(send[d])]
    BY <1>3 DEF WriteFrame
  <2>2. Head(send[d]) = send[d][1] /\ send[d][1] \in Call \union {Pong}
    BY <1>1, <2>1, Tailed
  <2>3. CASE send[d][1] = Pong
    <3>1. got' = got
      BY <1>3, <2>2, <2>3 DEF WriteFrame
    <3>2. rows' = rows
      BY <3>1 DEF Write
    <3> QED BY <1>1, <2>1, <2>3, <3>1, <3>2 DEF Untouched, Written
  <2>4. CASE send[d][1] # Pong
    <3> DEFINE m == send[d][1]  q == Append(got[d], m)
    <3>1. m \in Call /\ got' = [got EXCEPT ![d] = q]
      BY <1>3, <2>2, <2>4 DEF WriteFrame
    <3>2. q \in Seq(Call) /\ Len(q) = Len(got[d]) + 1 /\ Len(got[d]) \in Nat /\ q[Len(got[d]) + 1] = m
      BY <1>1, <3>1, Appended
    <3> HIDE DEF q, m
    <3>3. got'[d] = q /\ \A e \in Client : e # d => got'[e] = got[e]
      BY <1>1, <3>1
    <3>4. got' # got /\ Last(got'[d]) = m
      BY <3>2, <3>3 DEF Last
    <3>5. rows' = [rows EXCEPT ![d] = mergeLiveEvent(rows[d], m)]
      BY <3>4 DEF Write
    <3>6. c # d => Untouched(c)
      BY <1>1, <2>1, <3>3, <3>5 DEF Untouched
    <3>7. c = d => Written(c)
      BY <1>1, <2>1, <3>1, <3>3, <3>5 DEF Written, m, q
    <3> QED BY <3>6, <3>7
  <2> QED BY <2>3, <2>4
<1> QED BY <1>2, <1>3 DEF Write, Writer

LEMMA ClientStep ==
    ASSUME HubTypeOK, rows \in [Client -> Seq(Row)], IInv, Topical, Handed, Next, NEW c \in Client
    PROVE  Untouched(c) \/ (\E b \in Sub : Pushed(b, c)) \/ Ponged(c) \/ Written(c)
<1>0. send \in [Client -> Seq(Call \union {Pong})]
  BY LiveAssumption DEF HubTypeOK
<1>1. CASE BusMove \/ AttachBus \/ ForgetClients \/ HangUpClient
  BY <1>1 DEF BusMove, AttachBus, ForgetClients, Forget, HangUpClient, HangUp, hubVars, liveVars, Untouched
<1>2. ASSUME NEW b \in Sub, Casts(b)
      PROVE  Untouched(c) \/ Pushed(b, c)
  <2>1. CASE BroadcastBegin(b) \/ CloseSlow(b)
    BY <1>2, <2>1 DEF Casts, BroadcastBegin, CloseSlow, liveVars, Untouched
  <2>2. ASSUME NEW d \in Client, Push(b, d, hand[b])
        PROVE  Untouched(c) \/ Pushed(b, c)
    <3>1. hand[b] # None /\ rows' = rows
      BY <1>2 DEF Casts, liveVars
    <3>2. hand[b] \in Call /\ TypeOf[b] = About[hand[b]]
      BY <3>1, InHandIsNew
    <3>3. hand[b] \notin Range(cast[d])
      BY <2>2, <3>1, Fresh
    <3> QED BY <2>2, <3>1, <3>2, <3>3, PushEffect DEF Untouched, Pushed
  <2> QED BY <1>2, <2>1, <2>2 DEF Casts
<1>3. ASSUME NEW b \in Sub, Finishes(b)
      PROVE  Untouched(c)
  BY <1>3 DEF Finishes, BroadcastEnd, liveVars, Untouched
<1>4. ASSUME NEW d \in Client, Connect(d) \/ Read(d)
      PROVE  Untouched(c) \/ Ponged(c)
  <2>1. CASE SendPong(d)
    BY <1>0, <1>4, <2>1 DEF SendPong, Connect, Read, liveVars, Untouched, Ponged
  <2>2. CASE ~SendPong(d)
    BY <1>4, <2>2 DEF Connect, ServeHTTP, Read, Reader, ReadPing, ReadFails, ReaderLeaves, liveVars, Untouched
  <2> QED BY <2>1, <2>2
<1> QED BY <1>1, <1>2, <1>3, <1>4, WriteStep, Steps

LEMMA StillOpen ==
    ASSUME HubTypeOK, hangUp \subseteq Client, Casting, Next, NEW c \in Client, conn'[c] = "open"
    PROVE  conn[c] \in {"open", "none"}
<1>1. conn \in [Client -> {"none", "open", "closed"}]
  BY DEF HubTypeOK
<1>2. ASSUME NEW d \in Client, Leave(d)
      PROVE  conn[c] = "open"
  BY <1>2, Leaving
<1>3. ASSUME NEW b \in Sub, CloseSlow(b)
      PROVE  conn[c] = "open"
  BY <1>1, <1>3 DEF CloseSlow
<1>4. ASSUME NEW d \in Client, ServeHTTP(d) \/ HangUp(d)
      PROVE  conn[c] \in {"open", "none"}
  BY <1>1, <1>4 DEF ServeHTTP, HangUp
<1>5. CASE Forget
  BY <1>5 DEF Forget
<1> QED BY <1>2, <1>3, <1>4, <1>5, RegistrySteps DEF RegistryMove

\* The client a handler is about to close is closed before it is forgotten.
LEMMA SlowKeeps ==
    ASSUME HubTypeOK, Next, NEW c \in Client, NEW b \in Sub, slow[b] = c, conn'[c] = "open"
    PROVE  slow'[b] = c
<1>1. /\ conn \in [Client -> {"none", "open", "closed"}] /\ NoClient \notin Client
      /\ Caster = Sub /\ slow \in [Sub -> Client \union {NoClient}]
  BY LiveAssumption, HubAssumption DEF HubTypeOK
<1>2. CASE UNCHANGED <<castVars, cast>>
  BY <1>2 DEF castVars
<1>3. ASSUME NEW r \in Sub, BroadcastBegin(r) \/ CloseSlow(r) \/ BroadcastEnd(r)
      PROVE  slow'[b] = c
  BY <1>1, <1>3 DEF BroadcastBegin, CloseSlow, BroadcastEnd
<1>4. ASSUME NEW r \in Sub, NEW d \in Client, Push(r, d, hand[r])
      PROVE  slow'[b] = c
  <2>1. r # b
    BY <1>1, <1>4 DEF Push
  <2> QED BY <1>1, <1>4, <2>1 DEF Push
<1> QED BY <1>2, <1>3, <1>4, CastSteps
-----------------------------------------------------------------------------
(* What a client is sent and has received *)

ClientTypeOK(c) ==
    /\ cast[c] \in Seq(Call) /\ got[c] \in Seq(Call) /\ send[c] \in Seq(Call \union {Pong})
    /\ rows[c] \in Seq(Row)
    /\ Pong \notin Call

LEMMA ClientTyped ==
    ASSUME HubTypeOK, rows \in [Client -> Seq(Row)], NEW c \in Client
    PROVE  ClientTypeOK(c)
  BY LiveAssumption, HubAssumption DEF HubTypeOK, ClientTypeOK

LEMMA PushRanges ==
    ASSUME NEW c \in Client, ClientTypeOK(c), NEW b \in Sub, Pushed(b, c)
    PROVE  /\ Range(cast'[c]) = Range(cast[c]) \union {hand[b]}
           /\ Range(send'[c]) = Range(send[c]) \union {hand[b]} \/ Range(send'[c]) = Range(send[c])
<1>1. cast[c] \in Seq(Call) /\ send[c] \in Seq(Call \union {Pong}) /\ hand[b] \in Call
      /\ hand[b] \in Call \union {Pong}
  BY DEF ClientTypeOK, Pushed
<1>2. Range(Append(cast[c], hand[b])) = Range(cast[c]) \union {hand[b]}
  BY <1>1, Appended
<1>3. Range(Append(send[c], hand[b])) = Range(send[c]) \union {hand[b]}
  BY <1>1, Appended
<1> QED BY <1>2, <1>3 DEF Pushed

LEMMA SendGrown ==
    ASSUME NEW c \in Client, ClientTypeOK(c), NEW m \in Call \union {Pong}, send'[c] = Append(send[c], m)
    PROVE  /\ \A i \in DOMAIN send'[c] :
                (i \in DOMAIN send[c] /\ send'[c][i] = send[c][i]) \/ (i = Len(send[c]) + 1 /\ send'[c][i] = m)
           /\ \A i \in DOMAIN send[c] :
                i \in DOMAIN send'[c] /\ send'[c][i] = send[c][i] /\ i < Len(send[c]) + 1 /\ i \in Nat \ {0}
           /\ Range(send'[c]) = Range(send[c]) \union {m} /\ Len(send[c]) \in Nat
<1>1. send[c] \in Seq(Call \union {Pong})
  BY DEF ClientTypeOK
<1> DEFINE q == send[c]  r == Append(q, m)
<1>2. /\ \A i \in DOMAIN q : i \in DOMAIN r /\ r[i] = q[i]
      /\ \A i \in DOMAIN r : i \in DOMAIN q \/ (i = Len(q) + 1 /\ r[i] = m)
      /\ DOMAIN q = 1 .. Len(q) /\ Len(q) \in Nat /\ Range(r) = Range(q) \union {m}
  BY <1>1, Appended
<1> HIDE DEF q, r
<1>3. /\ \A i \in DOMAIN r : (i \in DOMAIN q /\ r[i] = q[i]) \/ (i = Len(q) + 1 /\ r[i] = m)
      /\ \A i \in DOMAIN q : i \in DOMAIN r /\ r[i] = q[i] /\ i < Len(q) + 1 /\ i \in Nat \ {0}
  BY <1>2
<1>4. send'[c] = r
  BY DEF r, q
<1> QED BY <1>2, <1>3, <1>4 DEF q

LEMMA PongRange ==
    ASSUME NEW c \in Client, ClientTypeOK(c), Ponged(c)
    PROVE  Range(send'[c]) = Range(send[c]) \union {Pong}
<1>1. send[c] \in Seq(Call \union {Pong}) /\ Pong \in Call \union {Pong}
  BY DEF ClientTypeOK
<1>2. Range(Append(send[c], Pong)) = Range(send[c]) \union {Pong}
  BY <1>1, Appended
<1> QED BY <1>2 DEF Ponged

LEMMA WriteRanges ==
    ASSUME NEW c \in Client, ClientTypeOK(c), Written(c)
    PROVE  /\ Range(send[c]) = {send[c][1]} \union Range(send'[c])
           /\ send[c][1] # Pong => Range(got'[c]) = Range(got[c]) \union {send[c][1]}
<1>1. send[c] \in Seq(Call \union {Pong}) /\ send[c] # << >> /\ got[c] \in Seq(Call) /\ Pong \notin Call
  BY DEF ClientTypeOK, Written
<1>2. Range(send[c]) = {send[c][1]} \union Range(Tail(send[c]))
  BY <1>1, Tailed
<1>3. send[c][1] \in Call => Range(Append(got[c], send[c][1])) = Range(got[c]) \union {send[c][1]}
  BY <1>1, Appended
<1> QED BY <1>1, <1>2, <1>3 DEF Written

LEMMA KnownStep ==
    ASSUME HubTypeOK, rows \in [Client -> Seq(Row)], IInv, Topical, Handed, Known, Next
    PROVE  Known'
<1> SUFFICES ASSUME NEW c \in Client
             PROVE  /\ Range(got'[c]) \subseteq Range(cast'[c])
                    /\ Range(send'[c]) \subseteq Range(cast'[c]) \union {Pong}
  BY DEF Known
<1>0. /\ Range(got[c]) \subseteq Range(cast[c]) /\ Range(send[c]) \subseteq Range(cast[c]) \union {Pong}
      /\ ClientTypeOK(c)
  BY ClientTyped DEF Known
<1>1. CASE Untouched(c)
  BY <1>0, <1>1 DEF Untouched
<1>2. ASSUME NEW b \in Sub, Pushed(b, c)
      PROVE  Range(got'[c]) \subseteq Range(cast'[c]) /\ Range(send'[c]) \subseteq Range(cast'[c]) \union {Pong}
  <2>1. got'[c] = got[c]
    BY <1>2 DEF Pushed
  <2> QED BY <1>0, <1>2, <2>1, PushRanges
<1>3. CASE Ponged(c)
  <2>1. got'[c] = got[c] /\ cast'[c] = cast[c]
    BY <1>3 DEF Ponged
  <2> QED BY <1>0, <1>3, <2>1, PongRange
<1>4. CASE Written(c)
  <2>1. cast'[c] = cast[c] /\ (send[c][1] = Pong => got'[c] = got[c])
    BY <1>0, <1>4 DEF Written, ClientTypeOK
  <2> QED BY <1>0, <1>4, <2>1, WriteRanges
<1> QED BY <1>1, <1>2, <1>3, <1>4, ClientStep

LEMMA UniqueStep ==
    ASSUME HubTypeOK, rows \in [Client -> Seq(Row)], IInv, Topical, Handed, Known, Unique, Next
    PROVE  Unique'
<1> SUFFICES ASSUME NEW c \in Client
             PROVE  /\ \A i, j \in DOMAIN got'[c] : i # j => got'[c][i] # got'[c][j]
                    /\ \A i, j \in DOMAIN send'[c] : i # j /\ send'[c][i] # Pong => send'[c][i] # send'[c][j]
                    /\ Range(got'[c]) \cap Range(send'[c]) = {}
  BY DEF Unique
<1>0. /\ Range(got[c]) \subseteq Range(cast[c]) /\ Range(send[c]) \subseteq Range(cast[c]) \union {Pong}
      /\ ClientTypeOK(c)
      /\ \A i, j \in DOMAIN got[c] : i # j => got[c][i] # got[c][j]
      /\ \A i, j \in DOMAIN send[c] : i # j /\ send[c][i] # Pong => send[c][i] # send[c][j]
      /\ Range(got[c]) \cap Range(send[c]) = {}
  BY ClientTyped DEF Known, Unique
<1>a. /\ got[c] \in Seq(Call) /\ send[c] \in Seq(Call \union {Pong}) /\ Pong \notin Call
      /\ \A i \in DOMAIN got[c] : got[c][i] \in Range(got[c]) /\ got[c][i] \in Call
      /\ \A i \in DOMAIN send[c] : send[c][i] \in Range(send[c])
      /\ Range(got[c]) \subseteq Call
  BY <1>0 DEF ClientTypeOK, Range
<1>1. CASE Untouched(c)
  BY <1>0, <1>1 DEF Untouched
<1>2. ASSUME NEW b \in Sub, Pushed(b, c)
      PROVE  /\ \A i, j \in DOMAIN got'[c] : i # j => got'[c][i] # got'[c][j]
             /\ \A i, j \in DOMAIN send'[c] : i # j /\ send'[c][i] # Pong => send'[c][i] # send'[c][j]
             /\ Range(got'[c]) \cap Range(send'[c]) = {}
  <2> DEFINE m == hand[b]
  <2>1. /\ got'[c] = got[c] /\ m \in Call /\ m \notin Range(cast[c])
        /\ send'[c] = Append(send[c], m) \/ send'[c] = send[c]
    BY <1>2 DEF Pushed
  <2> HIDE DEF m
  <2>2. CASE send'[c] = send[c]
    BY <1>0, <2>1, <2>2
  <2>3. CASE send'[c] = Append(send[c], m)
    <3>1. /\ \A i \in DOMAIN send'[c] :
              (i \in DOMAIN send[c] /\ send'[c][i] = send[c][i]) \/ (i = Len(send[c]) + 1 /\ send'[c][i] = m)
          /\ Range(send'[c]) = Range(send[c]) \union {m}
      <4>1. m \in Call \union {Pong}
        BY <2>1
      <4> QED BY <1>0, <2>3, <4>1, SendGrown
    <3>2. m \notin Range(send[c]) /\ m \notin Range(got[c]) /\ m # Pong
      BY <1>0, <1>a, <2>1
    <3>3. \A i, j \in DOMAIN send'[c] : i # j /\ send'[c][i] # Pong => send'[c][i] # send'[c][j]
      BY <1>0, <1>a, <3>1, <3>2
    <3> QED BY <1>0, <2>1, <3>1, <3>2, <3>3
  <2> QED BY <2>1, <2>2, <2>3
<1>3. CASE Ponged(c)
  <2>1. got'[c] = got[c] /\ send'[c] = Append(send[c], Pong) /\ Pong \in Call \union {Pong}
    BY <1>3 DEF Ponged
  <2>2. /\ \A i \in DOMAIN send'[c] :
              (i \in DOMAIN send[c] /\ send'[c][i] = send[c][i]) \/ (i = Len(send[c]) + 1 /\ send'[c][i] = Pong)
        /\ Range(send'[c]) = Range(send[c]) \union {Pong}
    BY <1>0, <2>1, SendGrown
  <2>3. \A i, j \in DOMAIN send'[c] : i # j /\ send'[c][i] # Pong => send'[c][i] # send'[c][j]
    BY <1>0, <2>2
  <2> QED BY <1>0, <1>a, <2>1, <2>2, <2>3
<1>4. CASE Written(c)
  <2>1. send[c] # << >> /\ send'[c] = Tail(send[c])
    BY <1>4 DEF Written
  <2>2. /\ \A i \in DOMAIN send'[c] : i \in Nat \ {0} /\ i + 1 \in DOMAIN send[c] /\ send'[c][i] = send[c][i + 1]
        /\ 1 \in DOMAIN send[c] /\ Range(send[c]) = {send[c][1]} \union Range(send'[c])
    BY <1>a, <2>1, Tailed
  <2>3. \A i, j \in DOMAIN send'[c] : i # j /\ send'[c][i] # Pong => send'[c][i] # send'[c][j]
    <3> SUFFICES ASSUME NEW i \in DOMAIN send'[c], NEW j \in DOMAIN send'[c], i # j, send'[c][i] # Pong
                 PROVE  send'[c][i] # send'[c][j]
      OBVIOUS
    <3>1. i + 1 # j + 1
      BY <2>2
    <3> QED BY <1>0, <2>2, <3>1
  <2>4. CASE send[c][1] = Pong
    <3>1. got'[c] = got[c]
      BY <1>a, <1>4, <2>4 DEF Written
    <3> QED BY <1>0, <2>2, <2>3, <3>1
  <2>5. CASE send[c][1] # Pong
    <3> DEFINE m == send[c][1]
    <3>1. m \in Call /\ got'[c] = Append(got[c], m) /\ m \in Range(send[c])
      BY <1>a, <1>4, <2>2, <2>5 DEF Written
    <3>2. m \notin Range(send'[c])
      <4>1. ASSUME NEW i \in DOMAIN send'[c]
            PROVE  send'[c][i] # m
        <5>1. i + 1 # 1
          BY <2>2
        <5> QED BY <1>0, <2>2, <2>5, <5>1
      <4> QED BY <4>1 DEF Range
    <3>3. m \notin Range(got[c])
      BY <1>0, <3>1
    <3> HIDE DEF m
    <3>4. /\ \A i \in DOMAIN got'[c] :
              (i \in DOMAIN got[c] /\ got'[c][i] = got[c][i]) \/ (i = Len(got[c]) + 1 /\ got'[c][i] = m)
          /\ Range(got'[c]) = Range(got[c]) \union {m}
      BY <1>a, <3>1, Appended
    <3>5. \A i, j \in DOMAIN got'[c] : i # j => got'[c][i] # got'[c][j]
      BY <1>0, <1>a, <3>3, <3>4
    <3> QED BY <1>0, <2>2, <2>3, <3>2, <3>4, <3>5
  <2> QED BY <2>4, <2>5
<1> QED BY <1>1, <1>2, <1>3, <1>4, ClientStep

\* A client that is open had all, or is new and had nothing broadcast to it.
LEMMA OpenBefore ==
    ASSUME HubTypeOK, hangUp \subseteq Client, Casting, Strangers, Next, NEW c \in Client, conn'[c] = "open"
    PROVE  conn[c] = "open" \/ cast[c] = << >>
  BY StillOpen DEF Strangers

LEMMA DeliveredStep ==
    ASSUME TypeOK, IInv, Topical, Casting, Strangers, Handed, Delivered, Next
    PROVE  Delivered'
<1> SUFFICES ASSUME NEW c \in Client, conn'[c] = "open", NEW m \in Range(cast'[c])
             PROVE  \/ m \in Range(got'[c]) \union Range(send'[c])
                    \/ \E b \in Sub : slow'[b] = c /\ TypeOf[b] = About[m]
  BY DEF Delivered
<1>0. HubTypeOK /\ rows \in [Client -> Seq(Row)] /\ hangUp \subseteq Client /\ ClientTypeOK(c)
  BY ClientTyped DEF TypeOK
<1>1. m \in Range(cast[c]) =>
         \/ m \in Range(got[c]) \union Range(send[c])
         \/ \E b \in Sub : slow'[b] = c /\ TypeOf[b] = About[m]
  <2>1. cast[c] = << >> => m \notin Range(cast[c])
    BY RangeOfNone
  <2> QED BY <1>0, <2>1, OpenBefore, SlowKeeps DEF Delivered
<1>2. CASE Untouched(c)
  BY <1>1, <1>2 DEF Untouched
<1>3. ASSUME NEW b \in Sub, Pushed(b, c)
      PROVE  \/ m \in Range(got'[c]) \union Range(send'[c])
             \/ \E r \in Sub : slow'[r] = c /\ TypeOf[r] = About[m]
  <2>1. /\ got'[c] = got[c] /\ TypeOf[b] = About[hand[b]] /\ hand[b] \in Call
        /\ send'[c] = Append(send[c], hand[b]) \/ (send'[c] = send[c] /\ slow'[b] = c)
    BY <1>3 DEF Pushed
  <2>2. Range(cast'[c]) = Range(cast[c]) \union {hand[b]}
        /\ (Range(send'[c]) = Range(send[c]) \union {hand[b]} \/ Range(send'[c]) = Range(send[c]))
    BY <1>0, <1>3, PushRanges
  <2>3. send'[c] = Append(send[c], hand[b]) => hand[b] \in Range(send'[c])
    <3>1. send[c] \in Seq(Call \union {Pong}) /\ hand[b] \in Call \union {Pong}
      BY <1>0, <2>1 DEF ClientTypeOK
    <3>2. Range(Append(send[c], hand[b])) = Range(send[c]) \union {hand[b]}
      BY <3>1, Appended
    <3> QED BY <3>2
  <2>4. CASE m = hand[b]
    BY <2>1, <2>3, <2>4
  <2>5. CASE m \in Range(cast[c])
    BY <1>1, <2>1, <2>2, <2>5
  <2> QED BY <2>2, <2>4, <2>5
<1>4. CASE Ponged(c)
  <2>1. got'[c] = got[c] /\ cast'[c] = cast[c]
    BY <1>4 DEF Ponged
  <2> QED BY <1>0, <1>1, <1>4, <2>1, PongRange
<1>5. CASE Written(c)
  <2>1. cast'[c] = cast[c] /\ (send[c][1] = Pong => got'[c] = got[c])
    BY <1>0, <1>5 DEF Written, ClientTypeOK
  <2>2. m # Pong
    BY <1>0, <2>1 DEF ClientTypeOK, Range
  <2> QED BY <1>0, <1>1, <1>5, <2>1, <2>2, WriteRanges
<1> QED BY <1>0, <1>2, <1>3, <1>4, <1>5, ClientStep
\* An event comes only after the earlier ones of its topic ...
LEMMA CastGrown ==
    ASSUME NEW c \in Client, ClientTypeOK(c), NEW b \in Sub, Pushed(b, c),
           NEW k \in DOMAIN cast'[c], NEW l \in DOMAIN cast'[c], k < l
    PROVE  /\ k \in DOMAIN cast[c] /\ cast'[c][k] = cast[c][k]
           /\ (l \in DOMAIN cast[c] /\ cast'[c][l] = cast[c][l]) \/ cast'[c][l] = hand[b]
<1>1. cast[c] \in Seq(Call) /\ hand[b] \in Call /\ cast'[c] = Append(cast[c], hand[b])
  BY DEF ClientTypeOK, Pushed
<1> DEFINE q == cast[c]  m == hand[b]  r == Append(q, m)
<1>2. /\ \A i \in DOMAIN q : i \in DOMAIN r /\ r[i] = q[i]
      /\ \A i \in DOMAIN r : i \in DOMAIN q \/ (i = Len(q) + 1 /\ r[i] = m)
      /\ DOMAIN q = 1 .. Len(q) /\ Len(q) \in Nat
  BY <1>1, Appended
<1>3. k \in DOMAIN r /\ l \in DOMAIN r /\ cast'[c] = r
  BY <1>1
<1> HIDE DEF q, m, r
<1>4. k \in DOMAIN q /\ r[k] = q[k] /\ ((l \in DOMAIN q /\ r[l] = q[l]) \/ r[l] = m)
  BY <1>2, <1>3
<1> QED BY <1>3, <1>4 DEF q, m

LEMMA GotFifoStep ==
    ASSUME HubTypeOK, rows \in [Client -> Seq(Row)], IInv, Topical, Handed, Known, GotFifo, SendFifo, Next
    PROVE  GotFifo'
<1> SUFFICES ASSUME NEW c \in Client, NEW k \in DOMAIN cast'[c], NEW l \in DOMAIN cast'[c],
                    k < l, About[cast'[c][k]] = About[cast'[c][l]],
                    NEW i \in DOMAIN got'[c], got'[c][i] = cast'[c][l]
             PROVE  Before(got'[c], i, cast'[c][k])
  BY DEF GotFifo
<1>0. /\ ClientTypeOK(c) /\ Range(got[c]) \subseteq Range(cast[c])
      /\ \A x, y \in DOMAIN cast[c] : x < y /\ About[cast[c][x]] = About[cast[c][y]] =>
            \A z \in DOMAIN got[c] : got[c][z] = cast[c][y] => Before(got[c], z, cast[c][x])
  BY ClientTyped DEF Known, GotFifo
<1>1. CASE Untouched(c) \/ Ponged(c)
  BY <1>0, <1>1 DEF Untouched, Ponged
<1>2. ASSUME NEW b \in Sub, Pushed(b, c)
      PROVE  Before(got'[c], i, cast'[c][k])
  <2>1. got'[c] = got[c] /\ hand[b] \notin Range(cast[c])
    BY <1>2 DEF Pushed
  <2>2. got[c][i] \in Range(cast[c])
    BY <1>0, <2>1 DEF Range
  <2>3. /\ k \in DOMAIN cast[c] /\ cast'[c][k] = cast[c][k]
        /\ (l \in DOMAIN cast[c] /\ cast'[c][l] = cast[c][l]) \/ cast'[c][l] = hand[b]
    BY <1>0, <1>2, CastGrown
  <2> QED BY <1>0, <2>1, <2>2, <2>3
<1>3. CASE Written(c)
  <2> DEFINE m == send[c][1]
  <2>1. /\ cast'[c] = cast[c] /\ conn[c] = "open" /\ send[c] # << >>
        /\ got'[c] = got[c] \/ (m \in Call /\ got'[c] = Append(got[c], m))
    BY <1>3 DEF Written
  <2>2. CASE got'[c] = got[c]
    BY <1>0, <2>1, <2>2
  <2>3. CASE m \in Call /\ got'[c] = Append(got[c], m)
    <3>1. got[c] \in Seq(Call) /\ send[c] \in Seq(Call \union {Pong})
      BY <1>0 DEF ClientTypeOK
    <3>2. 1 \in DOMAIN send[c]
      BY <2>1, <3>1, Tailed
    <3> HIDE DEF m
    <3> DEFINE q == got[c]  r == Append(q, m)
    <3>3. /\ \A z \in DOMAIN q : z \in DOMAIN r /\ r[z] = q[z]
          /\ \A z \in DOMAIN r : z \in DOMAIN q \/ (z = Len(q) + 1 /\ r[z] = m)
          /\ DOMAIN q = 1 .. Len(q) /\ Len(q) \in Nat
      BY <2>3, <3>1, Appended
    <3>4. got'[c] = r
      BY <2>3
    <3> HIDE DEF q, r
    <3>5. CASE i \in DOMAIN q
      <4>1. PICK j \in 1 .. i - 1 : q[j] = cast[c][k]
        BY <1>0, <2>1, <3>3, <3>4, <3>5 DEF q, Before
      <4>2. j \in DOMAIN q
        BY <3>3, <3>5
      <4> QED BY <2>1, <3>3, <3>4, <4>1, <4>2 DEF Before
    <3>6. CASE i \notin DOMAIN q
      <4>1. i = Len(q) + 1 /\ m = cast[c][l]
        BY <2>1, <3>3, <3>4, <3>6
      <4>2. cast[c][k] \in Range(q) \/ Before(send[c], 1, cast[c][k])
        BY <2>1, <3>2, <4>1 DEF SendFifo, m, q
      <4>3. cast[c][k] \in Range(q)
        BY <4>2 DEF Before
      <4>4. PICK j \in DOMAIN q : q[j] = cast[c][k]
        BY <4>3 DEF Range
      <4>5. j \in 1 .. i - 1
        BY <3>3, <4>1
      <4> QED BY <2>1, <3>3, <3>4, <4>4, <4>5 DEF Before
    <3> QED BY <3>5, <3>6
  <2> QED BY <2>1, <2>2, <2>3
<1> QED BY <1>1, <1>2, <1>3, ClientStep

\* ... and the channel keeps that order.
LEMMA SendFifoStep ==
    ASSUME TypeOK, IInv, Topical, Casting, Strangers, Handed, Known, Delivered, SendFifo, Next
    PROVE  SendFifo'
<1> SUFFICES ASSUME NEW c \in Client, conn'[c] = "open",
                    NEW k \in DOMAIN cast'[c], NEW l \in DOMAIN cast'[c],
                    k < l, About[cast'[c][k]] = About[cast'[c][l]],
                    NEW i \in DOMAIN send'[c], send'[c][i] = cast'[c][l]
             PROVE  \/ cast'[c][k] \in Range(got'[c])
                    \/ Before(send'[c], i, cast'[c][k])
  BY DEF SendFifo
<1>0. HubTypeOK /\ rows \in [Client -> Seq(Row)] /\ hangUp \subseteq Client /\ ClientTypeOK(c)
  BY ClientTyped DEF TypeOK
<1>a. /\ cast[c] \in Seq(Call) /\ send[c] \in Seq(Call \union {Pong}) /\ Pong \notin Call
      /\ \A x \in DOMAIN cast[c] : cast[c][x] \in Call /\ cast[c][x] \in Range(cast[c])
      /\ Range(send[c]) \subseteq Range(cast[c]) \union {Pong}
  <2>1. Range(send[c]) \subseteq Range(cast[c]) \union {Pong}
    BY DEF Known
  <2>2. cast[c] \in Seq(Call) /\ send[c] \in Seq(Call \union {Pong}) /\ Pong \notin Call
    BY <1>0 DEF ClientTypeOK
  <2>3. \A x \in DOMAIN cast[c] : cast[c][x] \in Call /\ cast[c][x] \in Range(cast[c])
    BY <2>2 DEF Range
  <2> QED BY <2>1, <2>2, <2>3
<1>b. \A x, y \in DOMAIN cast[c] : x < y /\ About[cast[c][x]] = About[cast[c][y]] =>
         \A z \in DOMAIN send[c] : send[c][z] = cast[c][y] =>
            cast[c][x] \in Range(got[c]) \/ Before(send[c], z, cast[c][x])
  <2>1. cast[c] = << >> => DOMAIN cast[c] = {}
    OBVIOUS
  <2> QED BY <1>0, <2>1, OpenBefore DEF SendFifo
<1>1. CASE Untouched(c)
  BY <1>1, <1>b DEF Untouched
<1>2. ASSUME NEW b \in Sub, Pushed(b, c)
      PROVE  \/ cast'[c][k] \in Range(got'[c])
             \/ Before(send'[c], i, cast'[c][k])
  <2> DEFINE m == hand[b]
  <2>1. /\ got'[c] = got[c] /\ m \in Call /\ m \notin Range(cast[c]) /\ TypeOf[b] = About[m]
        /\ slow[b] = NoClient
        /\ send'[c] = Append(send[c], m) \/ send'[c] = send[c]
    BY <1>2 DEF Pushed
  <2>2. /\ k \in DOMAIN cast[c] /\ cast'[c][k] = cast[c][k]
        /\ (l \in DOMAIN cast[c] /\ cast'[c][l] = cast[c][l]) \/ cast'[c][l] = m
    BY <1>0, <1>2, CastGrown
  <2>3. m \notin Range(send[c])
    BY <1>a, <2>1
  <2> HIDE DEF m
  <2>4. CASE send'[c] = send[c]
    <3>1. send[c][i] # m
      BY <2>3, <2>4 DEF Range
    <3> QED BY <1>b, <2>1, <2>2, <2>4, <3>1
  <2>5. CASE send'[c] = Append(send[c], m)
    <3>1. /\ \A z \in DOMAIN send'[c] :
              (z \in DOMAIN send[c] /\ send'[c][z] = send[c][z]) \/ (z = Len(send[c]) + 1 /\ send'[c][z] = m)
          /\ \A z \in DOMAIN send[c] :
              z \in DOMAIN send'[c] /\ send'[c][z] = send[c][z] /\ z < Len(send[c]) + 1 /\ z \in Nat \ {0}
          /\ Len(send[c]) \in Nat
      <4>1. m \in Call \union {Pong}
        BY <2>1
      <4> QED BY <1>0, <2>5, <4>1, SendGrown
    <3>2. CASE i \in DOMAIN send[c]
      <4>1. send'[c][i] = send[c][i] /\ send[c][i] # m
        BY <2>3, <3>1, <3>2 DEF Range
      <4>2. cast[c][k] \in Range(got[c]) \/ Before(send[c], i, cast[c][k])
        BY <1>b, <2>2, <3>2, <4>1
      <4>3. \A j \in 1 .. i - 1 : send'[c][j] = send[c][j]
        <5>1. DOMAIN send[c] = 1 .. Len(send[c])
          BY <1>a
        <5>2. \A j \in 1 .. i - 1 : j \in DOMAIN send[c]
          BY <3>1, <3>2, <5>1
        <5> QED BY <3>1, <5>2
      <4> QED BY <2>1, <2>2, <4>2, <4>3 DEF Before
    <3>3. CASE i \notin DOMAIN send[c]
      <4>1. i = Len(send[c]) + 1 /\ send'[c][i] = m
        BY <3>1, <3>3
      <4>2. l \notin DOMAIN cast[c] \/ cast'[c][l] # cast[c][l]
        BY <1>a, <2>1, <4>1
      <4>3. About[cast[c][k]] = About[m]
        BY <2>2, <4>1
      <4>4. conn[c] = "open"
        <5>1. cast[c] # << >>
          BY <2>2
        <5> QED BY <1>0, <5>1, OpenBefore
      <4>5. cast[c][k] \in Range(got[c]) \union Range(send[c])
        <5>1. ASSUME NEW r \in Sub, slow[r] = c, TypeOf[r] = About[cast[c][k]]
              PROVE  FALSE
          <6>1. r = b
            BY <2>1, <4>3, <5>1, LiveAssumption
          <6> QED BY <2>1, <5>1, <6>1, HubAssumption
        <5> QED BY <1>a, <2>2, <4>4, <5>1 DEF Delivered
      <4>6. cast[c][k] \in Range(send[c]) => Before(send'[c], i, cast[c][k])
        <5> SUFFICES ASSUME cast[c][k] \in Range(send[c])
                     PROVE  Before(send'[c], i, cast[c][k])
          OBVIOUS
        <5>1. PICK j \in DOMAIN send[c] : send[c][j] = cast[c][k]
          BY DEF Range
        <5>2. j \in 1 .. i - 1 /\ send'[c][j] = send[c][j]
          BY <3>1, <4>1, <5>1
        <5> QED BY <5>1, <5>2 DEF Before
      <4> QED BY <2>1, <2>2, <4>5, <4>6
    <3> QED BY <3>2, <3>3
  <2> QED BY <2>1, <2>4, <2>5
<1>3. CASE Ponged(c)
  <2>1. got'[c] = got[c] /\ cast'[c] = cast[c] /\ send'[c] = Append(send[c], Pong)
    BY <1>3 DEF Ponged
  <2>2. /\ \A z \in DOMAIN send'[c] :
            (z \in DOMAIN send[c] /\ send'[c][z] = send[c][z]) \/ (z = Len(send[c]) + 1 /\ send'[c][z] = Pong)
        /\ \A z \in DOMAIN send[c] :
            z \in DOMAIN send'[c] /\ send'[c][z] = send[c][z] /\ z < Len(send[c]) + 1 /\ z \in Nat \ {0}
        /\ Len(send[c]) \in Nat
    BY <1>0, <2>1, SendGrown
  <2>3. i \in DOMAIN send[c] /\ send'[c][i] = send[c][i]
    BY <1>a, <2>1, <2>2
  <2>4. \A j \in 1 .. i - 1 : send'[c][j] = send[c][j]
    <3>1. DOMAIN send[c] = 1 .. Len(send[c])
      BY <1>a
    <3>2. \A j \in 1 .. i - 1 : j \in DOMAIN send[c]
      BY <2>2, <2>3, <3>1
    <3> QED BY <2>2, <3>2
  <2> QED BY <1>b, <2>1, <2>3, <2>4 DEF Before
<1>4. CASE Written(c)
  <2>1. send[c] # << >> /\ send'[c] = Tail(send[c]) /\ cast'[c] = cast[c]
    BY <1>4 DEF Written
  <2>2. /\ \A z \in DOMAIN send'[c] : z \in Nat \ {0} /\ z + 1 \in DOMAIN send[c] /\ send'[c][z] = send[c][z + 1]
        /\ \A z \in DOMAIN send[c] : z \in Nat /\ (z = 1 \/ (z - 1 \in DOMAIN send'[c] /\ send'[c][z - 1] = send[c][z]))
    BY <1>a, <2>1, Tailed
  <2>3. cast[c][k] \in Range(got[c]) \/ Before(send[c], i + 1, cast[c][k])
    BY <1>b, <2>1, <2>2
  <2>4. send[c][1] = cast[c][k] => cast[c][k] \in Range(got'[c])
    <3>1. cast[c][k] # Pong
      BY <1>a, <2>1
    <3> QED BY <1>0, <1>4, <3>1, WriteRanges
  <2>5. Range(got[c]) \subseteq Range(got'[c])
    <3>1. send[c][1] = Pong => got'[c] = got[c]
      BY <1>a, <1>4 DEF Written
    <3> QED BY <1>0, <1>4, <3>1, WriteRanges
  <2>6. ASSUME NEW j \in 1 .. (i + 1) - 1, send[c][j] = cast[c][k], j # 1
        PROVE  \E z \in 1 .. i - 1 : send'[c][z] = cast[c][k]
    <3>1. i \in Nat /\ i + 1 \in DOMAIN send[c] /\ DOMAIN send[c] = 1 .. Len(send[c]) /\ Len(send[c]) \in Nat
      BY <1>a, <2>2
    <3>2. j \in DOMAIN send[c] /\ j - 1 \in 1 .. i - 1
      BY <2>6, <3>1
    <3> QED BY <2>2, <2>6, <3>2 DEF Before
  <2> QED BY <2>1, <2>3, <2>4, <2>5, <2>6 DEF Before
<1> QED BY <1>0, <1>1, <1>2, <1>3, <1>4, ClientStep
-----------------------------------------------------------------------------
(* The rows *)

\* LiveRowsRight of one list and the events it was made from.
RowsRight(q, heard) ==
    /\ \A i, j \in DOMAIN q : i # j => q[i].req # q[j].req
    /\ {q[i].req : i \in DOMAIN q} = {e[1] : e \in heard}
    /\ \A i \in DOMAIN q : q[i].done <=> <<q[i].req, "completed">> \in heard

LEMMA Prepended ==
    ASSUME NEW S, NEW q \in Seq(S), NEW x \in S
    PROVE  /\ <<x>> \o q \in Seq(S) /\ 1 \in DOMAIN (<<x>> \o q) /\ (<<x>> \o q)[1] = x
           /\ \A i \in DOMAIN q : i + 1 \in DOMAIN (<<x>> \o q) /\ (<<x>> \o q)[i + 1] = q[i]
           /\ \A i \in DOMAIN (<<x>> \o q) : i \in Nat /\
                (i = 1 \/ (i - 1 \in DOMAIN q /\ (<<x>> \o q)[i] = q[i - 1]))
<1> DEFINE h == <<x>>  r == h \o q
<1>1. h \in Seq(S) /\ Len(h) = 1 /\ h[1] = x /\ DOMAIN q = 1 .. Len(q) /\ Len(q) \in Nat
  OBVIOUS
<1> HIDE DEF h
<1>2. /\ r \in Seq(S) /\ Len(r) = Len(h) + Len(q)
      /\ \A i \in 1 .. Len(h) + Len(q) : r[i] = IF i <= Len(h) THEN h[i] ELSE q[i - Len(h)]
  BY <1>1, ConcatProperties, Zenon
<1> HIDE DEF r
<1>3. DOMAIN r = 1 .. Len(q) + 1
  BY <1>1, <1>2
<1>4. 1 \in DOMAIN r /\ r[1] = x
  BY <1>1, <1>2, <1>3
<1>5. ASSUME NEW i \in DOMAIN q
      PROVE  i + 1 \in DOMAIN r /\ r[i + 1] = q[i]
  <2>1. i \in Nat /\ i + 1 \in 1 .. Len(q) + 1 /\ ~(i + 1 <= 1) /\ (i + 1) - 1 = i
    BY <1>1, <1>5
  <2> QED BY <1>1, <1>2, <1>3, <2>1
<1>6. ASSUME NEW i \in DOMAIN r, i # 1
      PROVE  i \in Nat /\ i - 1 \in DOMAIN q /\ r[i] = q[i - 1]
  <2>1. i \in Nat /\ i - 1 \in DOMAIN q /\ ~(i <= 1) /\ i \in 1 .. 1 + Len(q)
    BY <1>1, <1>3, <1>6
  <2> QED BY <1>1, <1>2, <2>1
<1> QED BY <1>2, <1>4, <1>5, <1>6 DEF r, h

\* The first event of a request adds its row.
LEMMA NewRow ==
    ASSUME NEW prev \in Seq(Row), NEW e \in Call, NEW heard \in SUBSET Call, RowsRight(prev, heard),
           \A i \in DOMAIN prev : prev[i].req # e[1],
           NEW d \in BOOLEAN, d <=> e[2] = "completed"
    PROVE  RowsRight(<<[req |-> e[1], done |-> d]>> \o prev, heard \union {e})
           /\ <<[req |-> e[1], done |-> d]>> \o prev \in Seq(Row)
<1> DEFINE x == [req |-> e[1], done |-> d]
<1>1. /\ e = <<e[1], e[2]>> /\ e[1] \in Req /\ x \in Row /\ x.req = e[1] /\ (x.done <=> e[2] = "completed")
  BY LiveAssumption DEF Row
<1> DEFINE q == <<x>> \o prev
<1>2. /\ q \in Seq(Row) /\ 1 \in DOMAIN q /\ q[1] = x
      /\ \A i \in DOMAIN prev : i + 1 \in DOMAIN q /\ q[i + 1] = prev[i]
      /\ \A i \in DOMAIN q : i \in Nat /\ (i = 1 \/ (i - 1 \in DOMAIN prev /\ q[i] = prev[i - 1]))
  BY <1>1, Prepended
<1> HIDE DEF x, q
<1>3. ASSUME NEW i \in DOMAIN q, NEW j \in DOMAIN q, i # j
      PROVE  q[i].req # q[j].req
  <2>1. CASE i # 1 /\ j # 1
    <3>1. i - 1 # j - 1 /\ i - 1 \in DOMAIN prev /\ j - 1 \in DOMAIN prev
      BY <1>2, <1>3, <2>1
    <3>2. q[i] = prev[i - 1] /\ q[j] = prev[j - 1]
      BY <1>2, <1>3, <2>1
    <3>3. prev[i - 1].req # prev[j - 1].req
      BY <3>1 DEF RowsRight
    <3> QED BY <3>2, <3>3
  <2>2. CASE i = 1 \/ j = 1
    BY <1>1, <1>2, <1>3, <2>2
  <2> QED BY <2>1, <2>2
<1>4. {q[i].req : i \in DOMAIN q} = {f[1] : f \in heard \union {e}}
  <2>1. {prev[i].req : i \in DOMAIN prev} = {f[1] : f \in heard}
    BY DEF RowsRight
  <2>2. ASSUME NEW i \in DOMAIN q
        PROVE  q[i].req = e[1] \/ q[i].req \in {f[1] : f \in heard}
    BY <1>1, <1>2, <2>1, <2>2
  <2>3. ASSUME NEW f \in heard
        PROVE  \E i \in DOMAIN q : q[i].req = f[1]
    <3>1. PICK i \in DOMAIN prev : prev[i].req = f[1]
      BY <2>1
    <3> QED BY <1>2, <3>1
  <2>4. \E i \in DOMAIN q : q[i].req = e[1]
    BY <1>1, <1>2
  <2> QED BY <2>2, <2>3, <2>4
<1>5. ASSUME NEW i \in DOMAIN q
      PROVE  q[i].done <=> <<q[i].req, "completed">> \in heard \union {e}
  <2>1. CASE i = 1
    <3>1. <<e[1], "completed">> \notin heard
      <4>1. e[1] \notin {f[1] : f \in heard}
        BY DEF RowsRight
      <4>2. <<e[1], "completed">>[1] = e[1]
        OBVIOUS
      <4> QED BY <4>1, <4>2
    <3>2. <<e[1], "completed">> = e <=> e[2] = "completed"
      BY <1>1
    <3> QED BY <1>1, <1>2, <2>1, <3>1, <3>2
  <2>2. CASE i # 1
    <3>1. i - 1 \in DOMAIN prev /\ q[i] = prev[i - 1]
      BY <1>2, <1>5, <2>2
    <3>2. prev[i - 1].done <=> <<prev[i - 1].req, "completed">> \in heard
      BY <3>1 DEF RowsRight
    <3>3. <<prev[i - 1].req, "completed">> # e
      <4>1. prev[i - 1].req # e[1]
        BY <3>1
      <4> QED BY <4>1
    <3> QED BY <3>1, <3>2, <3>3
  <2> QED BY <2>1, <2>2
<1>6. RowsRight(q, heard \union {e})
  BY <1>3, <1>4, <1>5 DEF RowsRight
<1> QED BY <1>2, <1>6 DEF x, q

\* Another changes at most its own.
LEMMA OldRow ==
    ASSUME NEW prev \in Seq(Row), NEW e \in Call, NEW heard \in SUBSET Call, RowsRight(prev, heard),
           NEW k \in DOMAIN prev, prev[k].req = e[1]
    PROVE  RowsRight(mergeLiveEvent(prev, e), heard \union {e}) /\ mergeLiveEvent(prev, e) \in Seq(Row)
<1> DEFINE q == mergeLiveEvent(prev, e)
<1>1. e = <<e[1], e[2]>> /\ e[2] \in {"started", "completed"}
  BY LiveAssumption
<1>2. \A i \in DOMAIN prev : prev[i] \in Row /\ prev[i].done \in BOOLEAN
  <2>1. \A i \in DOMAIN prev : prev[i] \in Row
    OBVIOUS
  <2> QED BY <2>1 DEF Row
<1>3. DOMAIN q = DOMAIN prev /\ \A i \in DOMAIN prev :
         /\ q[i] \in Row /\ q[i].req = prev[i].req
         /\ q[i].done <=> prev[i].done \/ (e[2] = "completed" /\ prev[i].req = e[1])
  <2>1. CASE e[2] = "started"
    <3>1. q = prev
      BY <2>1 DEF mergeLiveEvent, mergeStarted
    <3> QED BY <1>2, <2>1, <3>1
  <2>2. CASE e[2] = "completed"
    <3>1. q = [i \in DOMAIN prev |-> IF prev[i].req = e[1] THEN [prev[i] EXCEPT !.done = TRUE] ELSE prev[i]]
      BY <2>2 DEF mergeLiveEvent, mergeCompleted
    <3> HIDE DEF q
    <3>2. ASSUME NEW i \in DOMAIN prev
          PROVE  /\ q[i] \in Row /\ q[i].req = prev[i].req
                 /\ q[i].done <=> prev[i].done \/ (e[2] = "completed" /\ prev[i].req = e[1])
      BY <1>2, <2>2, <3>1, <3>2 DEF Row
    <3> QED BY <3>1, <3>2
  <2> QED BY <1>1, <2>1, <2>2
<1>4. q \in Seq(Row)
  <2>1. DOMAIN prev = 1 .. Len(prev) /\ Len(prev) \in Nat
    OBVIOUS
  <2>2. CASE e[2] = "started"
    BY <2>2 DEF mergeLiveEvent, mergeStarted
  <2>3. CASE e[2] = "completed"
    <3>1. q = [i \in DOMAIN prev |-> IF prev[i].req = e[1] THEN [prev[i] EXCEPT !.done = TRUE] ELSE prev[i]]
      BY <2>3 DEF mergeLiveEvent, mergeCompleted
    <3> HIDE DEF q
    <3>2. q \in [1 .. Len(prev) -> Row]
      BY <1>3, <2>1, <3>1
    <3> QED BY <2>1, <3>2, SeqDef
  <2> QED BY <1>1, <2>2, <2>3
<1> HIDE DEF q
<1>5. \A i, j \in DOMAIN q : i # j => q[i].req # q[j].req
  BY <1>3 DEF RowsRight
<1>6. {q[i].req : i \in DOMAIN q} = {f[1] : f \in heard \union {e}}
  <2>1. {q[i].req : i \in DOMAIN q} = {prev[i].req : i \in DOMAIN prev}
    BY <1>3
  <2>2. {prev[i].req : i \in DOMAIN prev} = {f[1] : f \in heard}
    BY DEF RowsRight
  <2>3. e[1] \in {prev[i].req : i \in DOMAIN prev}
    OBVIOUS
  <2> QED BY <2>1, <2>2, <2>3
<1>7. ASSUME NEW i \in DOMAIN q
      PROVE  q[i].done <=> <<q[i].req, "completed">> \in heard \union {e}
  <2>1. prev[i].done <=> <<prev[i].req, "completed">> \in heard
    BY <1>3, <1>7 DEF RowsRight
  <2>2. <<prev[i].req, "completed">> = e <=> e[2] = "completed" /\ prev[i].req = e[1]
    BY <1>1
  <2> QED BY <1>3, <1>7, <2>1, <2>2
<1>8. RowsRight(q, heard \union {e})
  BY <1>5, <1>6, <1>7 DEF RowsRight
<1> QED BY <1>4, <1>8 DEF q

LEMMA Merged ==
    ASSUME NEW prev \in Seq(Row), NEW e \in Call, NEW heard \in SUBSET Call, RowsRight(prev, heard)
    PROVE  RowsRight(mergeLiveEvent(prev, e), heard \union {e}) /\ mergeLiveEvent(prev, e) \in Seq(Row)
<1>1. CASE \E k \in DOMAIN prev : prev[k].req = e[1]
  BY <1>1, OldRow
<1>2. CASE ~ \E k \in DOMAIN prev : prev[k].req = e[1]
  <2>1. e[2] \in {"started", "completed"}
    BY LiveAssumption
  <2>2. CASE e[2] = "started"
    <3>1. mergeLiveEvent(prev, e) = <<[req |-> e[1], done |-> FALSE]>> \o prev
      BY <1>2, <2>2 DEF mergeLiveEvent, mergeStarted
    <3>2. FALSE \in BOOLEAN /\ (FALSE <=> e[2] = "completed")
      BY <2>2
    <3> QED BY <1>2, <3>1, <3>2, NewRow
  <2>3. CASE e[2] = "completed"
    <3>1. mergeLiveEvent(prev, e) = <<[req |-> e[1], done |-> TRUE]>> \o prev
      BY <1>2, <2>3 DEF mergeLiveEvent, mergeCompleted
    <3>2. TRUE \in BOOLEAN /\ (TRUE <=> e[2] = "completed")
      BY <2>3
    <3> QED BY <1>2, <3>1, <3>2, NewRow
  <2> QED BY <2>1, <2>2, <2>3
<1> QED BY <1>1, <1>2
LEMMA RowsAre ==
    LiveRowsRight <=> \A c \in Client : RowsRight(rows[c], Range(got[c]))
  BY DEF LiveRowsRight, RowsRight

LEMMA RowsStep ==
    ASSUME HubTypeOK, rows \in [Client -> Seq(Row)], IInv, Topical, Handed, LiveRowsRight, Next,
           NEW c \in Client
    PROVE  rows'[c] \in Seq(Row) /\ RowsRight(rows'[c], Range(got'[c]))
<1>1. /\ ClientTypeOK(c) /\ got[c] \in Seq(Call) /\ rows[c] \in Seq(Row)
      /\ RowsRight(rows[c], Range(got[c])) /\ Range(got[c]) \in SUBSET Call
  <2>1. got[c] \in Seq(Call) /\ rows[c] \in Seq(Row)
    BY ClientTyped DEF ClientTypeOK
  <2>2. Range(got[c]) \in SUBSET Call
    BY <2>1 DEF Range
  <2> QED BY <2>1, <2>2, ClientTyped, RowsAre
<1>2. CASE got'[c] = got[c] /\ rows'[c] = rows[c]
  BY <1>1, <1>2
<1>3. CASE Written(c) /\ ~(got'[c] = got[c] /\ rows'[c] = rows[c])
  <2> DEFINE m == send[c][1]
  <2>1. m \in Call /\ rows'[c] = mergeLiveEvent(rows[c], m)
    BY <1>3 DEF Written
  <2>2. Range(got'[c]) = Range(got[c]) \union {m}
    <3>1. m # Pong
      BY <1>1, <2>1 DEF ClientTypeOK
    <3> QED BY <1>1, <1>3, <3>1, WriteRanges
  <2> HIDE DEF m
  <2> QED BY <1>1, <2>1, <2>2, Merged
<1>4. Untouched(c) \/ Ponged(c) \/ (\E b \in Sub : Pushed(b, c)) => got'[c] = got[c] /\ rows'[c] = rows[c]
  BY DEF Untouched, Ponged, Pushed
<1> QED BY <1>2, <1>3, <1>4, ClientStep

LEMMA LiveTypeStep ==
    ASSUME TypeOK, IInv, IInv', Topical, Handed, LiveRowsRight, Next
    PROVE  TypeOK'
<1>0. HubTypeOK /\ BusTypeOK /\ rows \in [Client -> Seq(Row)] /\ hangUp \subseteq Client /\ clients \subseteq Client
  BY DEF TypeOK, HubTypeOK
<1>1. HubTypeOK' /\ BusTypeOK'
  BY <1>0, HubTypeStep DEF IInv
<1>2. main' \in {"attach", "serve", "hangup"} /\ hangUp' \subseteq Client
  <2>1. CASE UNCHANGED <<main, hangUp>>
    BY <2>1 DEF TypeOK
  <2>2. AttachBus => main' = "serve" /\ hangUp' = hangUp
    BY DEF AttachBus
  <2>3. ForgetClients => main' = "hangup" /\ hangUp' = clients
    BY DEF ForgetClients
  <2>4. HangUpClient => main' = main /\ hangUp' \subseteq hangUp
    BY DEF HangUpClient
  <2>5. ASSUME NEW b \in Sub, Casts(b) \/ Finishes(b)
        PROVE  UNCHANGED <<main, hangUp>>
    BY <2>5 DEF Casts, Finishes, liveVars
  <2>6. ASSUME NEW c \in Client, Connect(c) \/ Read(c) \/ Write(c)
        PROVE  UNCHANGED <<main, hangUp>>
    BY <2>6 DEF Connect, Read, Write, liveVars
  <2>7. BusMove => UNCHANGED <<main, hangUp>>
    BY DEF BusMove, liveVars
  <2> QED BY <1>0, <2>1, <2>2, <2>3, <2>4, <2>5, <2>6, <2>7, Steps DEF TypeOK
<1>3. rows' \in [Client -> Seq(Row)]
  <2>1. rows' = rows \/ \E d \in Client : \E q : rows' = [rows EXCEPT ![d] = q]
    <3>1. ASSUME NEW d \in Client, Write(d)
          PROVE  rows' = rows \/ \E q : rows' = [rows EXCEPT ![d] = q]
      BY <3>1 DEF Write
    <3>2. ASSUME NEW b \in Sub, Casts(b) \/ Finishes(b)
          PROVE  rows' = rows
      BY <3>2 DEF Casts, Finishes, liveVars
    <3>3. ASSUME NEW d \in Client, Connect(d) \/ Read(d)
          PROVE  rows' = rows
      BY <3>3 DEF Connect, Read, liveVars
    <3>4. BusMove \/ AttachBus \/ ForgetClients \/ HangUpClient => rows' = rows
      BY DEF BusMove, AttachBus, ForgetClients, HangUpClient, liveVars
    <3> QED BY <3>1, <3>2, <3>3, <3>4, Steps
  <2>2. \A c \in Client : rows'[c] \in Seq(Row)
    BY <1>0, RowsStep
  <2>3. DOMAIN rows' = Client /\ rows' = [c \in DOMAIN rows' |-> rows'[c]]
    BY <1>0, <2>1
  <2> QED BY <2>2, <2>3
<1> QED BY <1>1, <1>2, <1>3 DEF TypeOK

-----------------------------------------------------------------------------
(* The theorems *)

LEMMA LiveStart == Init => LiveInv
<1> SUFFICES ASSUME Init PROVE LiveInv
  OBVIOUS
<1>1. IInv
  BY Start DEF Init
<1>2. TypeOK
  <2>1. HubTypeOK
    <3>1. HubInit
      BY DEF Init
    <3>2. send \in [Client -> Seq(Message \union {Pong})] /\ \A c \in Client : Len(send[c]) <= SendBuffer
      <4>1. \A c \in Client : send[c] = << >>
        BY <3>1 DEF HubInit
      <4>2. send \in [Client -> Seq(Message \union {Pong})]
        BY <3>1 DEF HubInit
      <4>3. Len(<< >>) = 0 /\ 0 <= SendBuffer
        BY HubAssumption
      <4> QED BY <4>1, <4>2, <4>3
    <3>3. rp \in [Client -> Pump] /\ wp \in [Client -> Pump \ {"pong"}]
          /\ conn \in [Client -> {"none", "open", "closed"}]
      BY <3>1 DEF HubInit, Pump
    <3>4. todo \in [Caster -> SUBSET Client] /\ slow \in [Caster -> Client \union {NoClient}]
      BY <3>1 DEF HubInit
    <3>5. cast \in [Client -> Seq(Message)] /\ got \in [Client -> Seq(Message)]
      BY <3>1 DEF HubInit
    <3> QED BY <3>1, <3>2, <3>3, <3>4, <3>5 DEF HubInit, HubTypeOK
  <2> QED BY <1>1, <2>1 DEF Init, TypeOK, IInv
<1>3. Topical
  <2>1. \A s \in Sub : line[s] = << >>
    BY DEF Init, BusInit
  <2>2. \A m \in Call : targets[m] = {} /\ offering[m] = None
    BY DEF Init, BusInit
  <2> QED BY <2>1, <2>2, RangeOfNone DEF Topical
<1>4. \A c \in Client : /\ cast[c] = << >> /\ got[c] = << >> /\ send[c] = << >> /\ rows[c] = << >>
                        /\ conn[c] = "none"
  BY DEF Init, HubInit
<1>5. /\ clients = {} /\ closed = {} /\ Caster = Sub
      /\ \A b \in Sub : todo[b] = {} /\ slow[b] = NoClient
  BY LiveAssumption DEF Init, HubInit
<1>6. Casting /\ Strangers /\ RegisteredIsOpen
  BY <1>4, <1>5, HubAssumption DEF Casting, Strangers, RegisteredIsOpen
<1>7. Handed /\ Known /\ Delivered
  BY <1>4, RangeOfNone DEF Handed, Known, Delivered
<1>8. CastInOrder /\ GotFifo /\ SendFifo
  BY <1>4 DEF CastInOrder, GotFifo, SendFifo
<1>9. Unique
  BY <1>4, RangeOfNone DEF Unique
<1>10. LiveRowsRight
  BY <1>4, RangeOfNone DEF LiveRowsRight
<1> QED BY <1>1, <1>2, <1>3, <1>6, <1>7, <1>8, <1>9, <1>10 DEF LiveInv

LEMMA LiveStep == LiveInv /\ [Next]_vars => LiveInv'
<1> SUFFICES ASSUME LiveInv, [Next]_vars PROVE LiveInv'
  OBVIOUS
<1>1. CASE Next
  <2>1. /\ TypeOK /\ BusTypeOK /\ HubTypeOK /\ rows \in [Client -> Seq(Row)] /\ hangUp \subseteq Client
        /\ IInv /\ Topical /\ Casting /\ Strangers /\ RegisteredIsOpen /\ Handed /\ CastInOrder
        /\ Known /\ Unique /\ Delivered /\ GotFifo /\ SendFifo /\ LiveRowsRight
    BY DEF LiveInv, TypeOK
  <2>2. IInv' /\ Topical'
    BY <1>1, <2>1, BusStep, TopicalStep
  <2>3. TypeOK' /\ BusTypeOK'
    BY <1>1, <2>1, <2>2, LiveTypeStep DEF IInv
  <2>4. Casting' /\ Strangers' /\ RegisteredIsOpen'
    BY <1>1, <2>1, CastingStep, StrangersStep, RegisteredStep
  <2>5. Handed' /\ CastInOrder'
    BY <1>1, <2>1, <2>3, HandedStep, CastInOrderStep
  <2>6. Known' /\ Unique' /\ Delivered'
    BY <1>1, <2>1, KnownStep, UniqueStep, DeliveredStep
  <2>7. GotFifo' /\ SendFifo'
    BY <1>1, <2>1, GotFifoStep, SendFifoStep
  <2>8. LiveRowsRight'
    <3>1. \A c \in Client : RowsRight(rows'[c], Range(got'[c]))
      BY <1>1, <2>1, RowsStep
    <3> QED BY <3>1 DEF LiveRowsRight, RowsRight
  <2> QED BY <2>2, <2>3, <2>4, <2>5, <2>6, <2>7, <2>8 DEF LiveInv
<1>2. CASE UNCHANGED vars
  <2>1. IInv'
    BY <1>2, Step DEF LiveInv, vars
  <2>2. UNCHANGED <<busVars, hubVars, liveVars>>
    BY <1>2 DEF vars, liveVars
  <2>3. TypeOK' /\ Topical'
    BY <2>2 DEF LiveInv, TypeOK, BusTypeOK, HubTypeOK, Topical, busVars, hubVars, liveVars
  <2>4. Casting' /\ Strangers' /\ RegisteredIsOpen'
    BY <2>2 DEF LiveInv, Casting, Strangers, RegisteredIsOpen, hubVars
  <2>5. Handed' /\ CastInOrder'
    BY <2>2 DEF LiveInv, Handed, CastInOrder, busVars, hubVars
  <2>6. Known' /\ Unique' /\ Delivered'
    BY <2>2 DEF LiveInv, Known, Unique, Delivered, hubVars
  <2>7. GotFifo' /\ SendFifo'
    BY <2>2 DEF LiveInv, GotFifo, SendFifo, hubVars
  <2>8. LiveRowsRight'
    BY <2>2 DEF LiveInv, LiveRowsRight, hubVars, liveVars
  <2> QED BY <2>1, <2>3, <2>4, <2>5, <2>6, <2>7, <2>8 DEF LiveInv
<1> QED BY <1>1, <1>2

LEMMA LiveInvariant == Spec => []LiveInv
  BY LiveStart, LiveStep, PTL DEF Spec

\* Broadcast never sends on a closed channel: whom it has still to visit is
\* registered, and a channel is closed only with the registry locked.
THEOREM ChannelsOpen == Spec => [](TypeOK /\ RegisteredIsOpen)
  BY LiveInvariant, PTL DEF LiveInv

\* What reaches a dashboard of a topic is a prefix of what was broadcast of it
\* while the client was connected, in the order of publication, nothing twice.
THEOREM NothingMissed == Spec => []NoGaps
<1>1. LiveInv => NoGaps
  <2> SUFFICES ASSUME LiveInv, NEW c \in Client
               PROVE  NothingSkipped(c) /\ InOrder(c)
    BY DEF NoGaps
  <2>0. /\ cast[c] \in Seq(Call) /\ got[c] \in Seq(Call) /\ Range(got[c]) \subseteq Range(cast[c])
        /\ \A i, j \in DOMAIN got[c] : i # j => got[c][i] # got[c][j]
        /\ \A m \in Call : About[m] = m[2]
    BY LiveAssumption DEF LiveInv, TypeOK, HubTypeOK, Known, Unique
  <2>1. \A k \in DOMAIN cast[c] : cast[c][k] \in Call
    BY <2>0
  <2>a. DOMAIN cast[c] \subseteq Nat /\ DOMAIN got[c] \subseteq Nat
    BY <2>0
  <2>2. \A k, l \in DOMAIN cast[c] : k < l /\ cast[c][k][2] = cast[c][l][2] =>
          \A i \in DOMAIN got[c] : got[c][i] = cast[c][l] => Before(got[c], i, cast[c][k])
    BY <2>0, <2>1 DEF LiveInv, GotFifo
  <2>3. NothingSkipped(c)
    BY <2>0, <2>2 DEF NothingSkipped, Before
  <2>4. InOrder(c)
    <3> SUFFICES ASSUME NEW i \in DOMAIN got[c], NEW j \in DOMAIN got[c], i < j,
                        got[c][i][2] = got[c][j][2]
                 PROVE  got[c][j] \notin after[got[c][i]] \union {got[c][i]}
      BY DEF InOrder
    <3>0. got[c][i] \in Range(cast[c]) /\ got[c][j] \in Range(cast[c])
      <4>1. got[c][i] \in Range(got[c]) /\ got[c][j] \in Range(got[c])
        BY DEF Range
      <4> QED BY <2>0, <4>1
    <3>1. PICK k \in DOMAIN cast[c] : cast[c][k] = got[c][i]
      BY <3>0 DEF Range
    <3>2. PICK l \in DOMAIN cast[c] : cast[c][l] = got[c][j]
      BY <3>0 DEF Range
    <3>3. got[c][i] # got[c][j]
      BY <2>0, <2>a
    <3>4. About[cast[c][k]] = About[cast[c][l]]
      BY <2>0, <2>1, <3>1, <3>2
    <3>5. CASE k < l
      BY <3>1, <3>2, <3>4, <3>5 DEF LiveInv, CastInOrder
    <3>6. CASE l < k
      \* Then j would come before i.
      <4>1. Before(got[c], i, got[c][j])
        BY <2>0, <2>1, <2>2, <3>1, <3>2, <3>4, <3>6
      <4>2. PICK z \in 1 .. i - 1 : got[c][z] = got[c][j]
        BY <4>1 DEF Before
      <4>3. z \in DOMAIN got[c] /\ z # j
        <5>1. DOMAIN got[c] = 1 .. Len(got[c]) /\ Len(got[c]) \in Nat
          BY <2>0
        <5> QED BY <5>1
      <4> QED BY <2>0, <4>2, <4>3
    <3> QED BY <2>a, <3>1, <3>2, <3>3, <3>5, <3>6
  <2> QED BY <2>3, <2>4
<1> QED BY <1>1, LiveInvariant, PTL

\* The live list has one row per request heard of, done when its completion
\* has arrived, although start and completion come by different subscriptions
\* and may overtake each other.
THEOREM RowsStayRight == Spec => []LiveRowsRight
  BY LiveInvariant, PTL DEF LiveInv
=============================================================================
