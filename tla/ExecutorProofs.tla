--------------------------- MODULE ExecutorProofs ---------------------------
(***************************************************************************)
(* What TLAPS proves of Executor, for every set of channels, requests,      *)
(* groups and settings.                                                     *)
(*                                                                          *)
(* Life says, phase by phase, what has been answered, logged and asked of   *)
(* an upstream so far, Forward and Line which candidates were asked and     *)
(* tried.  They speak of one request only, and no action of one             *)
(* request touches another (Elsewhere, Frame): each action is examined for  *)
(* its own request (StepLife, StepLine), and the properties follow.         *)
(***************************************************************************)
EXTENDS Executor, FiniteSetTheorems, SequenceTheorems, TLAPS

-----------------------------------------------------------------------------
(* Selection *)

\* The protocol a converted request is written in is one of the three.
LEMMA UpstreamProtocol ==
    ASSUME NEW ch \in ChannelRec, NEW in \in Protocol
    PROVE  upstreamProtoFor(ch, in) \in Protocol
  BY SMT DEF upstreamProtoFor, Protocol, ChannelRec

\* Only what WriteUpstreamRequest can write is ever chosen for a usable channel.
LEMMA NeverWritesResponses ==
    ASSUME NEW ch \in ChannelRec, NEW in \in Protocol, NEW m \in Model,
           Usable(ch, in, m), ~IsNative(ch, in)
    PROVE  upstreamProtoFor(ch, in) # "responses"
  BY SMT DEF upstreamProtoFor, Protocol, ChannelRec, Usable, Convertible, IsNative, SupportsModel

\* A channel that declares a protocol is never written to in the inbound one.
LEMMA ProbedConverts ==
    ASSUME NEW ch \in ChannelRec, NEW in \in Protocol, NEW m \in Model,
           Usable(ch, in, m), ~IsNative(ch, in), ch.native # {}
    PROVE  upstreamProtoFor(ch, in) # in
  BY SMT DEF upstreamProtoFor, Protocol, ChannelRec, Usable, Convertible, IsNative, SupportsModel

LEMMA CandidatesTyped ==
    ASSUME NEW table \in [Channel -> Configs], NEW in \in Protocol, NEW m \in Model,
           NEW group, group = NoGroup \/ IsGroup(group)
    PROVE  /\ Candidates(table, in, m, group) \subseteq Candidate
           /\ IsFiniteSet(Candidates(table, in, m, group))
<1> DEFINE W == Wanted(m, group)
           Y == {y \in Channel \X W : Usable(table[y[1]], in, y[2])}
<1>1. W \subseteq Model /\ IsFiniteSet(W)
  <2>1. CASE group = NoGroup
    BY <2>1, FS_Singleton DEF Wanted
  <2>2. CASE group # NoGroup
    BY <2>2 DEF Wanted, IsGroup
  <2> QED BY <2>1, <2>2
<1>2. \A y \in Y : y[1] \in Channel /\ y[2] \in Model
  BY <1>1
<1>3. \A c \in Channel : table[c] \in ChannelRec
  BY ExecutorAssumption
<1>4. \A y \in Y : CandidateOf(table, y[1], in, y[2]) \in Candidate
  <2> TAKE y \in Y
  <2>1. table[y[1]] \in ChannelRec
    BY <1>2, <1>3
  <2>2. upstreamProtoFor(table[y[1]], in) \in Protocol
    BY <2>1, UpstreamProtocol
  <2>3. IsNative(table[y[1]], in) \in BOOLEAN
    BY DEF IsNative
  <2> QED
    BY <1>2, <2>2, <2>3 DEF CandidateOf, Candidate
<1>5. IsFiniteSet(Channel \X W)
  BY <1>1, FS_Product, ExecutorAssumption
<1>6. IsFiniteSet(Y)
  BY <1>5, FS_Subset
<1> DEFINE f == [y \in Y |-> CandidateOf(table, y[1], in, y[2])]
<1>7. Candidates(table, in, m, group) = {CandidateOf(table, x[1], in, x[2]) : x \in Y}
  BY DEF Candidates
<1> DEFINE D == {CandidateOf(table, x[1], in, x[2]) : x \in Y}
<1>8. f \in Surjection(Y, D)
  BY Zenon DEF Surjection
<1> HIDE DEF Y, f, D
<1>9. IsFiniteSet(D)
  BY <1>6, <1>8, FS_Surjection, Zenon
<1> QED
  BY <1>4, <1>7, <1>9, Zenon DEF D

\* What SelectCandidates returns is a sequence of candidates, none twice.
LEMMA SelectionTyped ==
    ASSUME NEW table \in [Channel -> Configs], NEW in \in Protocol, NEW m \in Model,
           NEW group, group = NoGroup \/ IsGroup(group),
           NEW s \in SelectCandidates(table, in, m, group)
    PROVE  s \in Seq(Candidate) /\ \A i, j \in DOMAIN s : s[i] = s[j] => i = j
<1> DEFINE C == Candidates(table, in, m, group)
           n == Cardinality(C)
<1>1. C \subseteq Candidate /\ IsFiniteSet(C)
  BY CandidatesTyped
<1>2. n \in Nat /\ n = Cardinality(C)
  BY <1>1, FS_CardinalityType
<1>3. s \in [1 .. n -> C] /\ Range(s) = C
  BY DEF SelectCandidates
<1> HIDE DEF C, n
<1>4. s \in [1 .. n -> Candidate]
  BY <1>1, <1>3
<1>5. s \in Seq(Candidate)
  BY <1>2, <1>4, SeqDef
<1>6. s \in Surjection(1 .. n, C)
  BY <1>3 DEF Surjection, Range
<1>7. IsFiniteSet(1 .. n) /\ Cardinality(1 .. n) = n
  BY <1>2, FS_Interval
<1>8. s \in Injection(1 .. n, C)
  <2>1. Cardinality(C) = Cardinality(1 .. n)
    BY <1>2, <1>7
  <2> QED
    BY <2>1, <1>6, <1>7, FS_Surjection, Zenon
<1>9. \A i, j \in DOMAIN s : s[i] = s[j] => i = j
  BY <1>3, <1>8 DEF Injection, IsInjective
<1> QED
  BY <1>5, <1>9

-----------------------------------------------------------------------------
(* The invariant *)

\* Nothing was answered or logged.
Silent(r) == reply[r] = << >> /\ row[r] = << >>

\* k points at a candidate.
AtCandidate(r) == k[r] \in 1 .. Len(cands[r])

\* The current candidate is the last one whose upstream was asked.
Asked(r) ==
    /\ AtCandidate(r)
    /\ Len(sent[r]) >= 1
    /\ sent[r][Len(sent[r])] = Current(r)

\* The client's only answer came from the current candidate, nothing is logged yet.
Answered(r) ==
    /\ Asked(r)
    /\ row[r] = << >>
    /\ Len(reply[r]) = 1
    /\ reply[r][1].status = "ok" /\ reply[r][1].by = Current(r).ch

\* The only row blames the error in progress on whom Refuse is about to name.
Blamed(r) ==
    /\ reply[r] = << >>
    /\ Len(row[r]) = 1
    /\ row[r][1].error = err[r]
    /\ err[r] \in GatewayErrors \union {"upstream_error"}
    /\ err[r] = "upstream_error" =>
          /\ Asked(r)
          /\ row[r][1].by = Current(r).ch
          /\ row[r][1].model = Current(r).model

\* Answer and row, once both are there, agree.
Settled(r) ==
    /\ Len(reply[r]) = 1
    /\ \/ row[r] = << >> /\ reply[r][1].status = "internal" /\ reply[r][1].by = NoOne
       \/ /\ Len(row[r]) = 1
          /\ reply[r][1].by = NoOne =>
                /\ row[r][1].error \in GatewayErrors
                /\ reply[r][1].status # "ok"
          /\ reply[r][1].by # NoOne =>
                /\ Asked(r)
                /\ row[r][1].by = reply[r][1].by
                /\ row[r][1].by = Current(r).ch
                /\ row[r][1].model = Current(r).model
                /\ row[r][1].error \notin GatewayErrors
                /\ reply[r][1].status = "ok" <=> row[r][1].error # "upstream_error"

Life(r) ==
    /\ phase[r] \in {"new", "list", "lookup", "empty", "try", "wait", "exhausted"} => Silent(r)
    /\ phase[r] \in {"new", "list", "lookup", "empty", "try", "wait"} => err[r] = "none"
    /\ phase[r] = "lookup" => listed[r] \in [Channel -> Configs]
    /\ phase[r] \in {"try", "exhausted"} => AtCandidate(r)
    /\ phase[r] = "wait" => Asked(r)
    /\ phase[r] \in {"log", "stream", "streamed"} => Answered(r)
    /\ phase[r] \in {"log", "stream"} => err[r] = "none"
    /\ phase[r] = "streamed" => err[r] \in {"none", "stream_cut", "stream_left"}
    /\ phase[r] = "exhausted" => err[r] \in {"all_failed", "gone"}
    /\ phase[r] = "refuse" => Blamed(r)
    /\ phase[r] = "done" => Settled(r)
    /\ err[r] = "all_failed" => k[r] = Len(cands[r])

\* How far down the list upstreams have been asked.
Past(r) == IF phase[r] = "try" THEN k[r] - 1 ELSE k[r]

\* Candidates are tried from the front, none twice.
Forward(r) ==
    /\ phase[r] \in {"new", "list", "lookup", "empty"} => sent[r] = << >>
    /\ \A i, j \in DOMAIN cands[r] : cands[r][i] = cands[r][j] => i = j
    /\ \A i, j \in DOMAIN sent[r] : sent[r][i] = sent[r][j] => i = j
    /\ \A i \in DOMAIN sent[r] : \E j \in 1 .. Past(r) :
          j \in DOMAIN cands[r] /\ sent[r][i] = cands[r][j]

\* Those tried are the candidates passed so far, each in its place.
Line(r) ==
    /\ phase[r] \in {"new", "list", "lookup", "empty"} => k[r] = 0
    /\ Len(tried[r]) = Past(r)
    /\ \A i \in 1 .. Past(r) : i \in DOMAIN cands[r] /\ tried[r][i] = cands[r][i]

IInv ==
    /\ TypeOK
    /\ SessionsAreStreams
    /\ \A r \in Request : Life(r) /\ Forward(r) /\ Line(r)

-----------------------------------------------------------------------------
(* Steps *)

\* Appending to the empty sequence.
LEMMA OneElement ==
    ASSUME NEW x
    PROVE  Len(Append(<< >>, x)) = 1 /\ Append(<< >>, x)[1] = x
  OBVIOUS

LEMMA InitIInv == Init => IInv
<1> SUFFICES ASSUME Init PROVE IInv
  OBVIOUS
<1>1. TypeOK
  <2>1. << >> \in Seq(Candidate) /\ << >> \in Seq(Reply) /\ << >> \in Seq(Row)
    OBVIOUS
  <2>2. channels \in [Channel -> Configs] /\ groups \subseteq DOMAIN Group /\ want \in [Request -> Wants]
    BY DEF Init
  <2>3. phase \in [Request -> Phases] /\ err \in [Request -> RowError]
    BY DEF Init, Phases, RowError
  <2>4. /\ cands \in [Request -> Seq(Candidate)] /\ sent \in [Request -> Seq(Candidate)]
        /\ tried \in [Request -> Seq(Candidate)]
        /\ reply \in [Request -> Seq(Reply)] /\ row \in [Request -> Seq(Row)]
    BY <2>1 DEF Init
  <2>5. listed \in [Request -> [Channel -> Configs] \union {NoTable}] /\ k \in [Request -> Nat]
    BY DEF Init
  <2>6. gone \in [Request -> BOOLEAN] /\ open \subseteq Request
    BY DEF Init
  <2> QED
    BY <2>2, <2>3, <2>4, <2>5, <2>6 DEF TypeOK
<1>2. SessionsAreStreams
  BY DEF Init, SessionsAreStreams
<1>3. ASSUME NEW r \in Request PROVE Life(r)
  BY <1>3 DEF Init, Life, Silent
<1>4. ASSUME NEW r \in Request PROVE Forward(r)
  <2>1. cands[r] = << >> /\ sent[r] = << >>
    BY <1>4 DEF Init
  <2>2. DOMAIN cands[r] = {} /\ DOMAIN sent[r] = {}
    BY <2>1
  <2> QED
    BY <2>1, <2>2, Zenon DEF Forward
<1>5. ASSUME NEW r \in Request PROVE Line(r)
  <2>1. tried[r] = << >> /\ k[r] = 0 /\ phase[r] = "new"
    BY <1>5 DEF Init
  <2>2. Past(r) = 0
    BY <2>1 DEF Past
  <2> QED
    BY <2>1, <2>2 DEF Line
<1> QED
  BY <1>1, <1>2, <1>3, <1>4, <1>5 DEF IInv

\* The types of a candidate's parts.
LEMMA CurrentTyped ==
    ASSUME TypeOK, NEW r \in Request, AtCandidate(r)
    PROVE  /\ Current(r) \in Candidate
           /\ Current(r).ch \in Channel /\ Current(r).model \in Model
<1>1. cands[r] \in Seq(Candidate)
  BY DEF TypeOK
<1>2. Current(r) \in Candidate
  BY <1>1, ElementOfSeq DEF AtCandidate, Current
<1> QED
  BY <1>2 DEF Candidate

\* Select finds a typed sequence without repetitions.
LEMMA SelectParts ==
    ASSUME TypeOK, NEW r \in Request, Life(r), Select(r)
    PROVE  \E s \in Seq(Candidate) :
              /\ cands' = [cands EXCEPT ![r] = s]
              /\ \A i, j \in DOMAIN s : s[i] = s[j] => i = j
              /\ IF s = << >>
                 THEN /\ Goto(r, "empty") /\ UNCHANGED k
                 ELSE /\ Goto(r, "try") /\ k' = [k EXCEPT ![r] = 1]
<1>1. listed[r] \in [Channel -> Configs]
  BY DEF Select, Life
<1>2. want[r].in \in Protocol /\ want[r].model \in Model
  BY ExecutorAssumption DEF TypeOK
<1>3. lookupGroup(want[r].model) = NoGroup \/ IsGroup(lookupGroup(want[r].model))
  BY ExecutorAssumption DEF TypeOK, lookupGroup
<1>4. PICK s \in SelectCandidates(listed[r], want[r].in, want[r].model, lookupGroup(want[r].model)) :
          /\ cands' = [cands EXCEPT ![r] = s]
          /\ IF s = << >>
             THEN /\ Goto(r, "empty") /\ UNCHANGED k
             ELSE /\ Goto(r, "try") /\ k' = [k EXCEPT ![r] = 1]
  BY Zenon DEF Select
<1>5. s \in Seq(Candidate) /\ \A i, j \in DOMAIN s : s[i] = s[j] => i = j
  BY <1>1, <1>2, <1>3, SelectionTyped
<1> QED
  BY <1>4, <1>5, Zenon

\* How a step of one request may change the variables.
Shape(r) ==
    /\ UNCHANGED <<channels, groups, want>>
    /\ phase' = phase \/ \E p \in Phases : phase' = [phase EXCEPT ![r] = p]
    /\ listed' = listed \/ \E t \in [Channel -> Configs] \union {NoTable} : listed' = [listed EXCEPT ![r] = t]
    /\ cands' = cands \/ \E s \in Seq(Candidate) : cands' = [cands EXCEPT ![r] = s]
    /\ k' = k \/ \E n \in Nat : k' = [k EXCEPT ![r] = n]
    /\ err' = err \/ \E e \in RowError : err' = [err EXCEPT ![r] = e]
    /\ sent' = sent \/ \E c \in Candidate : sent' = [sent EXCEPT ![r] = Append(sent[r], c)]
    /\ tried' = tried \/ \E c \in Candidate : tried' = [tried EXCEPT ![r] = Append(tried[r], c)]
    /\ reply' = reply \/ \E a \in Reply : reply' = [reply EXCEPT ![r] = Append(reply[r], a)]
    /\ row' = row \/ \E w \in Row : row' = [row EXCEPT ![r] = Append(row[r], w)]
    /\ gone' = gone \/ gone' = [gone EXCEPT ![r] = TRUE]
    /\ open' \in {open, open \union {r}, open \ {r}}

\* Nothing that concerns q changes.
Same(q) ==
    /\ want'[q] = want[q] /\ phase'[q] = phase[q] /\ listed'[q] = listed[q]
    /\ cands'[q] = cands[q] /\ k'[q] = k[q] /\ err'[q] = err[q] /\ sent'[q] = sent[q]
    /\ tried'[q] = tried[q] /\ reply'[q] = reply[q] /\ row'[q] = row[q] /\ gone'[q] = gone[q]
    /\ (q \in open)' <=> q \in open

LEMMA ShapeTypes ==
    ASSUME TypeOK, NEW r \in Request, Shape(r)
    PROVE  TypeOK'
<1>1. channels' \in [Channel -> Configs] /\ groups' \subseteq DOMAIN Group /\ want' \in [Request -> Wants]
  BY DEF TypeOK, Shape
<1>2. phase' \in [Request -> Phases]
  BY DEF TypeOK, Shape
<1>3. listed' \in [Request -> [Channel -> Configs] \union {NoTable}]
  BY DEF TypeOK, Shape
<1>4. cands' \in [Request -> Seq(Candidate)]
  BY DEF TypeOK, Shape
<1>5. k' \in [Request -> Nat]
  BY DEF TypeOK, Shape
<1>6. err' \in [Request -> RowError]
  BY DEF TypeOK, Shape
<1>7. sent' \in [Request -> Seq(Candidate)]
  <2>1. sent \in [Request -> Seq(Candidate)]
    BY DEF TypeOK
  <2>2. ASSUME NEW c \in Candidate PROVE Append(sent[r], c) \in Seq(Candidate)
    BY <2>1
  <2> QED
    BY <2>1, <2>2 DEF Shape
<1>8. reply' \in [Request -> Seq(Reply)]
  <2>1. reply \in [Request -> Seq(Reply)]
    BY DEF TypeOK
  <2>2. ASSUME NEW a \in Reply PROVE Append(reply[r], a) \in Seq(Reply)
    BY <2>1
  <2> QED
    BY <2>1, <2>2 DEF Shape
<1>9. row' \in [Request -> Seq(Row)]
  <2>1. row \in [Request -> Seq(Row)]
    BY DEF TypeOK
  <2>2. ASSUME NEW w \in Row PROVE Append(row[r], w) \in Seq(Row)
    BY <2>1
  <2> QED
    BY <2>1, <2>2 DEF Shape
<1>12. tried' \in [Request -> Seq(Candidate)]
  <2>1. tried \in [Request -> Seq(Candidate)]
    BY DEF TypeOK
  <2>2. ASSUME NEW c \in Candidate PROVE Append(tried[r], c) \in Seq(Candidate)
    BY <2>1
  <2> QED
    BY <2>1, <2>2 DEF Shape
<1>10. gone' \in [Request -> BOOLEAN]
  BY DEF TypeOK, Shape
<1>11. open' \subseteq Request
  BY DEF TypeOK, Shape
<1> QED
  BY <1>1, <1>2, <1>3, <1>4, <1>5, <1>6, <1>7, <1>8, <1>9, <1>10, <1>11, <1>12 DEF TypeOK

\* No step of a request touches another one.
LEMMA Elsewhere ==
    ASSUME TypeOK, NEW r \in Request, Shape(r), NEW q \in Request, q # r
    PROVE  Same(q)
<1>1. want'[q] = want[q] /\ phase'[q] = phase[q] /\ listed'[q] = listed[q]
  BY DEF TypeOK, Shape
<1>2. cands'[q] = cands[q] /\ k'[q] = k[q] /\ err'[q] = err[q]
  BY DEF TypeOK, Shape
<1>3. sent'[q] = sent[q] /\ tried'[q] = tried[q] /\ reply'[q] = reply[q]
  BY DEF TypeOK, Shape
<1>4. row'[q] = row[q] /\ gone'[q] = gone[q] /\ ((q \in open)' <=> q \in open)
  BY DEF TypeOK, Shape
<1> QED
  BY <1>1, <1>2, <1>3, <1>4 DEF Same

\* What is not touched stays as it was.
LEMMA Frame ==
    ASSUME NEW q \in Request, Same(q), Life(q), Forward(q), Line(q)
    PROVE  Life(q)' /\ Forward(q)' /\ Line(q)'
<1>1. Life(q)'
  BY DEF Same, Life, Silent, AtCandidate, Asked, Answered, Blamed, Settled, Current
<1>2. Forward(q)'
  BY DEF Same, Forward, Past
<1>3. Line(q)'
  BY DEF Same, Line, Past
<1> QED
  BY <1>1, <1>2, <1>3

\* Every step of a request has the shape of one.
LEMMA StepShape ==
    ASSUME IInv, NEW r \in Request, Proceed(r) \/ Upstream(r) \/ ClientLeaves(r)
    PROVE  Shape(r)
<1> TypeOK /\ Life(r)
  BY DEF IInv
<1>k. k[r] + 1 \in Nat
  BY DEF TypeOK
<1>m. want[r].model \in Model
  BY ExecutorAssumption DEF TypeOK
<1> USE DEF Phases, RowError, Shape, tableVars
<1>1. CASE Accept(r)
  BY <1>1 DEF Accept, Goto
<1>2. CASE ListEnabled(r)
  <2>1. channels \in [Channel -> Configs]
    BY DEF TypeOK
  <2> QED
    BY <1>2, <2>1 DEF ListEnabled, Goto
<1>3. CASE QueryError(r)
  <2>1. [status |-> "internal", by |-> NoOne] \in Reply
    BY DEF Reply, Status
  <2> QED
    BY <1>3, <2>1 DEF QueryError, Goto, Write
<1>4. CASE Select(r)
  <2>1. PICK s \in Seq(Candidate) :
            /\ cands' = [cands EXCEPT ![r] = s]
            /\ IF s = << >>
               THEN /\ Goto(r, "empty") /\ UNCHANGED k
               ELSE /\ Goto(r, "try") /\ k' = [k EXCEPT ![r] = 1]
    BY <1>4, SelectParts, Zenon
  <2>2. phase' = phase \/ \E p \in Phases : phase' = [phase EXCEPT ![r] = p]
    BY <2>1 DEF Goto
  <2>3. k' = k \/ \E i \in Nat : k' = [k EXCEPT ![r] = i]
    BY <2>1
  <2> QED
    BY <1>4, <2>1, <2>2, <2>3 DEF Select
<1>5. CASE NoCandidate(r)
  <2>1. [by |-> NoOne, model |-> want[r].model, error |-> "no_channel"] \in Row
    BY <1>m DEF Row
  <2> QED
    BY <1>5, <2>1 DEF NoCandidate, Goto, finish
<1>6. CASE Send(r)
  <2>1. Current(r) \in Candidate
    BY <1>6, CurrentTyped DEF Send, Life
  <2> QED
    BY <1>6, <2>1 DEF Send, Try, Goto
<1>7. CASE SendFails(r)
  <2>1. Current(r) \in Candidate
    BY <1>7, CurrentTyped DEF SendFails, Life
  <2> QED
    BY <1>7, <1>k, <2>1 DEF SendFails, Try, Goto, NextCandidate
<1>8. CASE LogNonStream(r)
  <2>1. Current(r).ch \in Channel /\ Current(r).model \in Model
    BY <1>8, CurrentTyped DEF LogNonStream, Life, Asked, Answered
  <2>2. [by |-> Current(r).ch, model |-> Current(r).model, error |-> "none"] \in Row
    BY <2>1 DEF Row
  <2> QED
    BY <1>8, <2>2 DEF LogNonStream, Goto, finishAttempt, finish
<1>9. CASE LogStream(r)
  <2>1. Current(r).ch \in Channel /\ Current(r).model \in Model
    BY <1>9, CurrentTyped DEF LogStream, Life, Asked, Answered
  <2>2. [by |-> Current(r).ch, model |-> Current(r).model, error |-> err[r]] \in Row
    BY <2>1 DEF TypeOK, Row
  <2> QED
    BY <1>9, <2>2 DEF LogStream, Goto, finishAttempt, finish
<1>10. CASE Exhausted(r)
  <2>1. Current(r).ch \in Channel /\ Current(r).model \in Model
    BY <1>10, CurrentTyped DEF Exhausted, Life, Asked, Answered
  <2>2. [by |-> Current(r).ch, model |-> Current(r).model, error |-> err[r]] \in Row
    BY <2>1 DEF TypeOK, Row
  <2> QED
    BY <1>10, <2>2 DEF Exhausted, Goto, finishAttempt, finish
<1>11. CASE Refuse(r)
  <2>1. \E x \in Reply : reply' = [reply EXCEPT ![r] = Append(reply[r], x)]
    <3>1. CASE err[r] = "upstream_error"
      <4>1. Current(r).ch \in Channel
        BY <1>11, <3>1, CurrentTyped DEF Refuse, Life, Blamed, Asked
      <4>2. [status |-> "upstream_error", by |-> Current(r).ch] \in Reply
        BY <4>1 DEF Reply, Status
      <4> QED
        BY <1>11, <3>1, <4>2 DEF Refuse, Write
    <3>2. CASE err[r] # "upstream_error"
      <4> DEFINE x == [status |-> IF err[r] = "gone" THEN "all_failed" ELSE err[r], by |-> NoOne]
      <4>1. err[r] \in GatewayErrors
        BY <1>11, <3>2 DEF Refuse, Life, Blamed
      <4>2. x \in Reply
        BY <4>1 DEF Reply, Status, GatewayErrors
      <4> QED
        BY <1>11, <3>2, <4>2 DEF Refuse, Write
    <3> QED
      BY <3>1, <3>2
  <2> QED
    BY <1>11, <2>1 DEF Refuse, Goto
<1>12. CASE AttemptFails(r)
  BY <1>12, <1>k DEF AttemptFails, Goto, NextCandidate
<1>13. CASE UpstreamRefuses(r)
  <2>1. Current(r).ch \in Channel /\ Current(r).model \in Model
    BY <1>13, CurrentTyped DEF UpstreamRefuses, Life, Asked, Answered
  <2>2. [by |-> Current(r).ch, model |-> Current(r).model, error |-> "upstream_error"] \in Row
    BY <2>1 DEF Row
  <2> QED
    BY <1>13, <2>2 DEF UpstreamRefuses, Goto, finishAttempt, finish
<1>14. CASE ConvertResponseFails(r)
  <2>1. Current(r).ch \in Channel /\ Current(r).model \in Model
    BY <1>14, CurrentTyped DEF ConvertResponseFails, Life, Asked, Answered
  <2>2. [by |-> Current(r).ch, model |-> Current(r).model, error |-> "conversion"] \in Row
    BY <2>1 DEF Row
  <2> QED
    BY <1>14, <2>2 DEF ConvertResponseFails, Goto, finishAttempt, finish
<1>15. CASE RespondNonStream(r)
  <2>1. Current(r).ch \in Channel /\ Current(r).model \in Model
    BY <1>15, CurrentTyped DEF RespondNonStream, Life, Asked, Answered
  <2>2. [status |-> "ok", by |-> Current(r).ch] \in Reply
    BY <2>1 DEF Reply, Status
  <2> QED
    BY <1>15, <2>2 DEF RespondNonStream, Goto, Write
<1>16. CASE Commit(r)
  <2>1. Current(r).ch \in Channel /\ Current(r).model \in Model
    BY <1>16, CurrentTyped DEF Commit, Life, Asked, Answered
  <2>2. [status |-> "ok", by |-> Current(r).ch] \in Reply
    BY <2>1 DEF Reply, Status
  <2> QED
    BY <1>16, <2>2 DEF Commit, Goto, Write
<1>17. CASE StreamEnds(r)
  BY <1>17 DEF StreamEnds, Goto
<1>18. CASE ClientLeaves(r)
  BY <1>18 DEF ClientLeaves, Goto
<1> QED
  BY <1>1, <1>2, <1>3, <1>4, <1>5, <1>6, <1>7, <1>8, <1>9, <1>10, <1>11, <1>12, <1>13, <1>14, <1>15, <1>16, <1>17, <1>18 DEF Proceed, Upstream
\* A request has an open session exactly while its stream is relayed.
Session(r) == r \in open <=> phase[r] \in {"stream", "streamed"}

LEMMA SessionsPointwise ==
    ASSUME open \subseteq Request
    PROVE  SessionsAreStreams <=> \A r \in Request : Session(r)
  BY DEF SessionsAreStreams, Session

\* Every step of a request keeps its own part of the invariant.
LEMMA StepLife ==
    ASSUME IInv, NEW r \in Request, Proceed(r) \/ Upstream(r) \/ ClientLeaves(r), TypeOK'
    PROVE  Life(r)' /\ Forward(r)' /\ Session(r)'
<1>a. TypeOK /\ Life(r) /\ Forward(r) /\ Session(r)
  BY SessionsPointwise DEF IInv, TypeOK
<1>b. \A x : Len(Append(<< >>, x)) = 1 /\ Append(<< >>, x)[1] = x /\ Append(<< >>, x) # << >>
  BY OneElement
<1>c. /\ cands[r] \in Seq(Candidate) /\ sent[r] \in Seq(Candidate) /\ k[r] \in Nat
      /\ reply[r] \in Seq(Reply) /\ row[r] \in Seq(Row)
  BY <1>a DEF TypeOK
<1>k. /\ k[r] \in Nat /\ Len(cands[r]) \in Nat /\ Len(sent[r]) \in Nat
  BY <1>c
<1>l. /\ DOMAIN cands[r] = 1 .. Len(cands[r]) /\ DOMAIN sent[r] = 1 .. Len(sent[r])
  BY <1>c
<1>d. ASSUME UNCHANGED <<cands[r], sent[r]>>, Past(r)' >= Past(r),
             phase'[r] \notin {"new", "list", "lookup", "empty"} \/ sent[r] = << >>
      PROVE  Forward(r)'
  <2>1. Past(r) \in Int /\ Past(r)' \in Int
    BY <1>a DEF Past, TypeOK
  <2>2. \A j \in 1 .. Past(r) : j \in 1 .. Past(r)'
    BY <1>d, <2>1
  <2>3. cands'[r] = cands[r] /\ sent'[r] = sent[r]
    BY <1>d
  <2> QED
    BY <1>a, <1>d, <2>2, <2>3, Zenon DEF Forward
<1>e. NoOne \notin Channel
  BY ExecutorAssumption
<1>f. ASSUME Asked(r), UNCHANGED <<cands[r], k[r], sent[r]>>
      PROVE  Asked(r)' /\ Current(r)' = Current(r) /\ Current(r).ch # NoOne
  BY <1>a, <1>e, <1>f, CurrentTyped DEF Asked, AtCandidate, Current
<1>1. CASE Accept(r)
  <2>1. /\ want'[r] = want[r] /\ phase'[r] = "list" /\ listed'[r] = listed[r]
        /\ cands'[r] = cands[r] /\ k'[r] = k[r] /\ err'[r] = err[r]
        /\ sent'[r] = sent[r] /\ reply'[r] = reply[r] /\ row'[r] = row[r]
        /\ gone'[r] = gone[r]
    BY <1>1, <1>a DEF Accept, Goto, tableVars, TypeOK
  <2>2. Life(r)'
    BY <1>a, <1>1, <2>1 DEF Accept, Life, Silent, AtCandidate, Asked, Answered, Blamed, Settled, Current, GatewayErrors
  <2>3. Forward(r)'
    BY <1>a, <1>c, <1>d, <1>1, <2>1 DEF Accept, Past, Forward
  <2>4. Session(r)'
    BY <1>a, <1>1, <2>1 DEF Accept, Session, TypeOK
  <2> QED
    BY <2>2, <2>3, <2>4
<1>2. CASE ListEnabled(r)
  <2>1. /\ want'[r] = want[r] /\ phase'[r] = "lookup" /\ listed'[r] = channels
        /\ cands'[r] = cands[r] /\ k'[r] = k[r] /\ err'[r] = err[r]
        /\ sent'[r] = sent[r] /\ reply'[r] = reply[r] /\ row'[r] = row[r]
        /\ gone'[r] = gone[r]
    BY <1>2, <1>a DEF ListEnabled, Goto, tableVars, TypeOK
  <2>2. Life(r)'
    <3>1. channels \in [Channel -> Configs]
      BY <1>a DEF TypeOK
    <3>2. Silent(r)' /\ err[r] = "none"
      BY <1>a, <1>2, <2>1 DEF ListEnabled, Life, Silent
    <3> QED
      BY <2>1, <3>1, <3>2 DEF Life
  <2>3. Forward(r)'
    BY <1>a, <1>c, <1>d, <1>2, <2>1 DEF ListEnabled, Past, Forward
  <2>4. Session(r)'
    BY <1>a, <1>2, <2>1 DEF ListEnabled, Session, TypeOK
  <2> QED
    BY <2>2, <2>3, <2>4
<1>3. CASE QueryError(r)
  <2>1. /\ want'[r] = want[r] /\ phase'[r] = "done" /\ listed'[r] = NoTable
        /\ cands'[r] = cands[r] /\ k'[r] = k[r] /\ err'[r] = err[r]
        /\ sent'[r] = sent[r] /\ reply'[r] = Append(reply[r], [status |-> "internal", by |-> NoOne]) /\ row'[r] = row[r]
        /\ gone'[r] = gone[r]
    BY <1>3, <1>a DEF QueryError, Goto, tableVars, Write, TypeOK
  <2>2. Life(r)'
    <3>1. Silent(r) /\ err[r] = "none"
      BY <1>a, <1>3 DEF QueryError, Life
    <3>2. /\ Len(reply'[r]) = 1
          /\ reply'[r][1] = [status |-> "internal", by |-> NoOne]
      BY <1>b, <2>1, <3>1 DEF Silent
    <3>3. row'[r] = << >>
      BY <2>1, <3>1 DEF Silent
    <3>4. Settled(r)'
      BY <3>2, <3>3 DEF Settled
    <3> QED
      BY <2>1, <3>1, <3>4 DEF Life
  <2>3. Forward(r)'
    BY <1>a, <1>c, <1>d, <1>3, <2>1 DEF QueryError, Past, Forward
  <2>4. Session(r)'
    BY <1>a, <1>3, <2>1 DEF QueryError, Session, TypeOK
  <2> QED
    BY <2>2, <2>3, <2>4
<1>4. CASE Select(r)
  <2>1. PICK s \in Seq(Candidate) :
            /\ cands' = [cands EXCEPT ![r] = s]
            /\ \A i, j \in DOMAIN s : s[i] = s[j] => i = j
            /\ IF s = << >>
               THEN /\ Goto(r, "empty") /\ UNCHANGED k
               ELSE /\ Goto(r, "try") /\ k' = [k EXCEPT ![r] = 1]
    BY <1>a, <1>4, SelectParts, Zenon
  <2>2. Silent(r) /\ err[r] = "none" /\ sent[r] = << >>
    BY <1>a, <1>4 DEF Select, Life, Forward
  <2>3. /\ err'[r] = err[r] /\ sent'[r] = sent[r] /\ reply'[r] = reply[r] /\ row'[r] = row[r]
        /\ cands'[r] = s
    BY <1>a, <1>4, <2>1 DEF Select, TypeOK
  <2>4. phase'[r] \in {"empty", "try"} /\ (phase'[r] = "try" => k'[r] = 1 /\ s # << >>)
    BY <1>a, <2>1 DEF Goto, TypeOK
  <2>5. Life(r)'
    <3>1. Silent(r)'
      BY <2>2, <2>3 DEF Silent
    <3>2. phase'[r] = "try" => AtCandidate(r)'
      <4>1. s # << >> => 1 \in 1 .. Len(s)
        OBVIOUS
      <4> QED
        BY <2>3, <2>4, <4>1 DEF AtCandidate
    <3> QED
      BY <2>2, <2>3, <2>4, <3>1, <3>2 DEF Life
  <2>6. Forward(r)'
    <3>1. DOMAIN << >> = {}
      OBVIOUS
    <3> QED
      BY <2>1, <2>2, <2>3, <3>1, Zenon DEF Forward
  <2>7. Session(r)'
    BY <1>a, <1>4, <2>4 DEF Select, Session
  <2> QED
    BY <2>5, <2>6, <2>7
<1>5. CASE NoCandidate(r)
  <2>1. /\ want'[r] = want[r] /\ phase'[r] = "refuse" /\ listed'[r] = listed[r]
        /\ cands'[r] = cands[r] /\ k'[r] = k[r] /\ err'[r] = "no_channel"
        /\ sent'[r] = sent[r] /\ reply'[r] = reply[r] /\ row'[r] = Append(row[r], [by |-> NoOne, model |-> want[r].model, error |-> "no_channel"])
        /\ gone'[r] = gone[r]
    BY <1>5, <1>a DEF NoCandidate, Goto, tableVars, finish, TypeOK
  <2>2. Life(r)'
    <3>1. Silent(r)
      BY <1>a, <1>5 DEF NoCandidate, Life
    <3>2. /\ Len(row'[r]) = 1
          /\ row'[r][1] = [by |-> NoOne, model |-> want[r].model, error |-> "no_channel"]
      BY <1>b, <2>1, <3>1 DEF Silent
    <3>3. Blamed(r)'
      BY <2>1, <3>1, <3>2 DEF Blamed, Silent, GatewayErrors
    <3> QED
      BY <2>1, <3>3 DEF Life
  <2>3. Forward(r)'
    BY <1>a, <1>c, <1>d, <1>5, <2>1 DEF NoCandidate, Past, Forward
  <2>4. Session(r)'
    BY <1>a, <1>5, <2>1 DEF NoCandidate, Session, TypeOK
  <2> QED
    BY <2>2, <2>3, <2>4
<1>6. CASE Send(r)
  <2>1. /\ want'[r] = want[r] /\ phase'[r] = "wait" /\ listed'[r] = listed[r]
        /\ cands'[r] = cands[r] /\ k'[r] = k[r] /\ err'[r] = err[r]
        /\ sent'[r] = Append(sent[r], Current(r)) /\ reply'[r] = reply[r] /\ row'[r] = row[r]
        /\ gone'[r] = gone[r]
    BY <1>6, <1>a DEF Send, Goto, tableVars, TypeOK
  <2>0. phase[r] = "try" /\ AtCandidate(r) /\ Silent(r) /\ err[r] = "none"
    BY <1>a, <1>6 DEF Send, Life
  <2>01. Current(r) \in Candidate
    BY <1>a, <2>0, CurrentTyped
  <2>02. /\ Len(sent'[r]) = Len(sent[r]) + 1
         /\ sent'[r][Len(sent[r]) + 1] = Current(r)
         /\ \A i \in 1 .. Len(sent[r]) : sent'[r][i] = sent[r][i]
         /\ DOMAIN sent'[r] = 1 .. Len(sent[r]) + 1
         /\ DOMAIN sent[r] = 1 .. Len(sent[r])
         /\ Len(sent[r]) \in Nat
    BY <1>c, <2>1, <2>01
  <2>03. Current(r)' = Current(r)
    BY <2>1 DEF Current
  <2>2. Life(r)'
    <3>1. Asked(r)'
      <4>1. AtCandidate(r)'
        BY <2>0, <2>1, Zenon DEF AtCandidate
      <4>2. Len(sent'[r]) >= 1
        BY <2>02
      <4>3. sent'[r][Len(sent'[r])] = Current(r)'
        BY <2>02, <2>03, Zenon
      <4> QED
        BY <4>1, <4>2, <4>3 DEF Asked
    <3>2. Silent(r)'
      BY <2>0, <2>1 DEF Silent
    <3> QED
      BY <2>0, <2>1, <3>1, <3>2 DEF Life
  <2>3. Forward(r)'
    <3>1. Past(r) = k[r] - 1 /\ Past(r)' = k[r]
      BY <2>0, <2>1 DEF Past
    <3>2. k[r] \in 1 .. Len(cands[r]) /\ DOMAIN cands[r] = 1 .. Len(cands[r]) /\ Current(r) = cands[r][k[r]]
      BY <1>k, <1>l, <2>0 DEF AtCandidate, Current
    <3>3. \A i \in 1 .. Len(sent[r]) : \E j \in 1 .. k[r] - 1 : j \in DOMAIN cands[r] /\ sent[r][i] = cands[r][j]
      BY <1>a, <2>02, <3>1 DEF Forward
    <3>4. \A i \in 1 .. Len(sent[r]) : sent[r][i] # Current(r)
      <4> TAKE i \in 1 .. Len(sent[r])
      <4>1. PICK j \in 1 .. k[r] - 1 : j \in DOMAIN cands[r] /\ sent[r][i] = cands[r][j]
        BY <3>3
      <4>2. cands[r][j] # cands[r][k[r]]
        <5>1. j # k[r]
          BY <3>2, <1>c, <4>1
        <5> QED
          BY <1>a, <3>2, <4>1, <5>1 DEF Forward
      <4> QED
        BY <3>2, <4>1, <4>2
    <3>5. \A i, j \in DOMAIN sent'[r] : sent'[r][i] = sent'[r][j] => i = j
      <4> SUFFICES ASSUME NEW i \in 1 .. Len(sent[r]) + 1, NEW j \in 1 .. Len(sent[r]) + 1,
                          sent'[r][i] = sent'[r][j]
                   PROVE  i = j
        BY <2>02
      <4>1. CASE i \in 1 .. Len(sent[r]) /\ j \in 1 .. Len(sent[r])
        BY <1>a, <2>02, <4>1 DEF Forward
      <4>2. CASE i = Len(sent[r]) + 1 /\ j \in 1 .. Len(sent[r])
        BY <2>02, <3>4, <4>2
      <4>3. CASE j = Len(sent[r]) + 1 /\ i \in 1 .. Len(sent[r])
        BY <2>02, <3>4, <4>3
      <4> QED
        BY <1>k, <4>1, <4>2, <4>3
    <3>6. \A i \in DOMAIN sent'[r] : \E j \in 1 .. k[r] : j \in DOMAIN cands[r] /\ sent'[r][i] = cands[r][j]
      <4> SUFFICES ASSUME NEW i \in 1 .. Len(sent[r]) + 1
                   PROVE  \E j \in 1 .. k[r] : j \in DOMAIN cands[r] /\ sent'[r][i] = cands[r][j]
        BY <2>02
      <4>1. CASE i \in 1 .. Len(sent[r])
        <5>1. PICK j \in 1 .. k[r] - 1 : j \in DOMAIN cands[r] /\ sent[r][i] = cands[r][j]
          BY <3>3, <4>1
        <5>2. j \in 1 .. k[r]
          BY <1>c
        <5> QED
          BY <2>02, <4>1, <5>1, <5>2
      <4>2. CASE i = Len(sent[r]) + 1
        BY <1>c, <2>02, <3>2, <4>2
      <4> QED
        BY <2>02, <4>1, <4>2
    <3> QED
      BY <1>a, <2>1, <3>1, <3>5, <3>6 DEF Forward
  <2>4. Session(r)'
    BY <1>a, <1>6, <2>1 DEF Send, Session, TypeOK
  <2> QED
    BY <2>2, <2>3, <2>4
<1>7. CASE SendFails(r)
  <2>0. phase[r] = "try" /\ Silent(r) /\ AtCandidate(r) /\ err[r] = "none"
    BY <1>a, <1>7 DEF SendFails, Life, Asked
  <2>1. /\ cands'[r] = cands[r] /\ sent'[r] = sent[r] /\ reply'[r] = reply[r] /\ row'[r] = row[r]
        /\ \/ phase'[r] = "exhausted" /\ err'[r] = "gone" /\ k'[r] = k[r]
           \/ phase'[r] = "try" /\ err'[r] = err[r] /\ k'[r] = k[r] + 1 /\ k[r] < Len(cands[r])
           \/ phase'[r] = "exhausted" /\ err'[r] = "all_failed" /\ k'[r] = k[r] /\ k[r] = Len(cands[r])
    BY <1>a, <1>7 DEF SendFails, NextCandidate, Goto, TypeOK
  <2>2. Life(r)'
    <3>1. Silent(r)'
      BY <2>0, <2>1 DEF Silent
    <3>2. AtCandidate(r)'
      <4>1. Len(cands'[r]) = Len(cands[r])
        BY <2>1, Zenon
      <4>2. k[r] \in 1 .. Len(cands[r])
        BY <2>0 DEF AtCandidate
      <4>3. k'[r] = k[r] \/ (k'[r] = k[r] + 1 /\ k[r] < Len(cands[r]))
        BY <2>1, Zenon
      <4> QED
        BY <1>k, <4>1, <4>2, <4>3 DEF AtCandidate
    <3> QED
      BY <2>0, <2>1, <3>1, <3>2 DEF Life
  <2>3. Forward(r)'
    <3>0. \/ phase'[r] # "try" /\ k'[r] = k[r]
          \/ phase'[r] = "try" /\ k'[r] = k[r] + 1
      BY <2>1, Zenon
    <3>1. Past(r)' >= Past(r)
      BY <1>k, <3>0 DEF Past
    <3> QED
      BY <1>d, <2>1, <3>1
  <2>4. Session(r)'
    BY <1>a, <1>7, <2>0, <2>1 DEF SendFails, NextCandidate, Session
  <2> QED
    BY <2>2, <2>3, <2>4
<1>8. CASE LogNonStream(r)
  <2>1. /\ want'[r] = want[r] /\ phase'[r] = "done" /\ listed'[r] = listed[r]
        /\ cands'[r] = cands[r] /\ k'[r] = k[r] /\ err'[r] = err[r]
        /\ sent'[r] = sent[r] /\ reply'[r] = reply[r] /\ row'[r] = Append(row[r], [by |-> Current(r).ch, model |-> Current(r).model, error |-> "none"])
        /\ gone'[r] = gone[r]
    BY <1>8, <1>a DEF LogNonStream, Goto, tableVars, finishAttempt, finish, TypeOK
  <2>2. Life(r)'
    <3>1. Answered(r) /\ err[r] \in {"none", "stream_cut", "stream_left"}
      BY <1>a, <1>8 DEF LogNonStream, Life
    <3>2. Asked(r) /\ row[r] = << >>
      BY <3>1 DEF Answered
    <3>3. /\ Len(row'[r]) = 1
          /\ row'[r][1] = [by |-> Current(r).ch, model |-> Current(r).model, error |-> "none"]
      BY <1>b, <2>1, <3>2
    <3>4. Asked(r)' /\ Current(r)' = Current(r) /\ Current(r).ch # NoOne
      BY <1>f, <2>1, <3>2
    <3>6. /\ Len(reply'[r]) = 1
          /\ reply'[r][1].status = "ok" /\ reply'[r][1].by = Current(r).ch
      BY <2>1, <3>1 DEF Answered
    <3> DEFINE w == row'[r][1]
               c == Current(r)
    <3>10. w = [by |-> c.ch, model |-> c.model, error |-> "none"]
      BY <3>3, Zenon
    <3> HIDE DEF w, c
    <3>7. w.by = c.ch /\ w.model = c.model
      BY <3>10
    <3>9. w.error = "none"
      BY <3>10
    <3> USE DEF w, c
    <3>8. row'[r][1].error \notin GatewayErrors \union {"upstream_error"}
      BY <3>1, <3>9 DEF GatewayErrors
    <3>5. Settled(r)'
      BY <3>3, <3>4, <3>6, <3>7, <3>8 DEF Settled
    <3> QED
      BY <2>1, <3>1, <3>5 DEF Life
  <2>3. Forward(r)'
    BY <1>a, <1>c, <1>d, <1>8, <2>1 DEF LogNonStream, Past, Forward
  <2>4. Session(r)'
    BY <1>a, <1>8, <2>1 DEF LogNonStream, Session, TypeOK
  <2> QED
    BY <2>2, <2>3, <2>4
<1>9. CASE LogStream(r)
  <2>1. /\ want'[r] = want[r] /\ phase'[r] = "done" /\ listed'[r] = listed[r]
        /\ cands'[r] = cands[r] /\ k'[r] = k[r] /\ err'[r] = err[r]
        /\ sent'[r] = sent[r] /\ reply'[r] = reply[r] /\ row'[r] = Append(row[r], [by |-> Current(r).ch, model |-> Current(r).model, error |-> err[r]])
        /\ gone'[r] = gone[r]
    BY <1>9, <1>a DEF LogStream, Goto, tableVars, finishAttempt, finish, TypeOK
  <2>2. Life(r)'
    <3>1. Answered(r) /\ err[r] \in {"none", "stream_cut", "stream_left"}
      BY <1>a, <1>9 DEF LogStream, Life
    <3>2. Asked(r) /\ row[r] = << >>
      BY <3>1 DEF Answered
    <3>3. /\ Len(row'[r]) = 1
          /\ row'[r][1] = [by |-> Current(r).ch, model |-> Current(r).model, error |-> err[r]]
      BY <1>b, <2>1, <3>2
    <3>4. Asked(r)' /\ Current(r)' = Current(r) /\ Current(r).ch # NoOne
      BY <1>f, <2>1, <3>2
    <3>6. /\ Len(reply'[r]) = 1
          /\ reply'[r][1].status = "ok" /\ reply'[r][1].by = Current(r).ch
      BY <2>1, <3>1 DEF Answered
    <3>7. row'[r][1].by = Current(r).ch /\ row'[r][1].model = Current(r).model
      BY <3>3
    <3>9. row'[r][1].error = err[r]
      BY <3>3
    <3>8. row'[r][1].error \notin GatewayErrors \union {"upstream_error"}
      BY <3>1, <3>9 DEF GatewayErrors
    <3>5. Settled(r)'
      BY <3>3, <3>4, <3>6, <3>7, <3>8 DEF Settled
    <3> QED
      BY <2>1, <3>1, <3>5 DEF Life
  <2>3. Forward(r)'
    BY <1>a, <1>c, <1>d, <1>9, <2>1 DEF LogStream, Past, Forward
  <2>4. Session(r)'
    BY <1>a, <1>9, <2>1 DEF LogStream, Session, TypeOK
  <2> QED
    BY <2>2, <2>3, <2>4
<1>10. CASE Exhausted(r)
  <2>1. /\ want'[r] = want[r] /\ phase'[r] = "refuse" /\ listed'[r] = listed[r]
        /\ cands'[r] = cands[r] /\ k'[r] = k[r] /\ err'[r] = err[r]
        /\ sent'[r] = sent[r] /\ reply'[r] = reply[r] /\ row'[r] = Append(row[r], [by |-> Current(r).ch, model |-> Current(r).model, error |-> err[r]])
        /\ gone'[r] = gone[r]
    BY <1>10, <1>a DEF Exhausted, Goto, tableVars, finishAttempt, finish, TypeOK
  <2>2. Life(r)'
    <3>1. Silent(r) /\ err[r] \in {"all_failed", "gone"}
      BY <1>a, <1>10 DEF Exhausted, Life
    <3>3. /\ Len(row'[r]) = 1
          /\ row'[r][1] = [by |-> Current(r).ch, model |-> Current(r).model, error |-> err[r]]
      BY <1>b, <2>1, <3>1 DEF Silent
    <3>5. Blamed(r)'
      BY <2>1, <3>1, <3>3 DEF Blamed, Silent, GatewayErrors
    <3> QED
      BY <1>a, <2>1, <3>5 DEF Life
  <2>3. Forward(r)'
    BY <1>a, <1>c, <1>d, <1>10, <2>1 DEF Exhausted, Past, Forward
  <2>4. Session(r)'
    BY <1>a, <1>10, <2>1 DEF Exhausted, Session, TypeOK
  <2> QED
    BY <2>2, <2>3, <2>4
<1>11. CASE Refuse(r)
  <2>0. phase[r] = "refuse" /\ Blamed(r)
    BY <1>a, <1>11 DEF Refuse, Life
  <2>1. /\ cands'[r] = cands[r] /\ sent'[r] = sent[r] /\ row'[r] = row[r]
        /\ k'[r] = k[r] /\ phase'[r] = "done" /\ err'[r] = err[r]
    BY <1>a, <1>11 DEF Refuse, Goto, TypeOK
  <2>2. Life(r)'
    <3>1. CASE err[r] = "upstream_error"
      <4>1. Asked(r)' /\ Current(r)' = Current(r) /\ Current(r).ch # NoOne
        BY <1>f, <2>0, <2>1, <3>1 DEF Blamed
      <4>2. reply'[r] = Append(reply[r], [status |-> "upstream_error", by |-> Current(r).ch])
        BY <1>a, <1>11, <3>1 DEF Refuse, Write, TypeOK
      <4>3. Len(reply'[r]) = 1 /\ reply'[r][1] = [status |-> "upstream_error", by |-> Current(r).ch]
        BY <1>b, <2>0, <4>2 DEF Blamed
      <4>4. Settled(r)'
        BY <2>0, <2>1, <3>1, <4>1, <4>3 DEF Settled, Blamed, GatewayErrors
      <4> QED
        BY <1>a, <2>1, <3>1, <4>4 DEF Life
    <3>2. CASE err[r] # "upstream_error"
      <4>1. err[r] \in GatewayErrors
        BY <2>0, <3>2 DEF Blamed
      <4> DEFINE s == IF err[r] = "gone" THEN "all_failed" ELSE err[r]
      <4>2. reply'[r] = Append(reply[r], [status |-> s, by |-> NoOne])
        BY <1>a, <1>11, <3>2 DEF Refuse, Write, TypeOK
      <4>3. Len(reply'[r]) = 1 /\ reply'[r][1] = [status |-> s, by |-> NoOne]
        BY <1>b, <2>0, <4>2 DEF Blamed
      <4>4. s # "ok"
        BY <4>1 DEF GatewayErrors
      <4> HIDE DEF s
      <4>5. Settled(r)'
        BY <2>0, <2>1, <4>1, <4>3, <4>4 DEF Settled, Blamed
      <4> QED
        BY <1>a, <2>1, <4>5 DEF Life
    <3> QED
      BY <3>1, <3>2
  <2>3. Forward(r)'
    <3>0. phase[r] # "try" /\ phase'[r] # "try" /\ k'[r] = k[r]
      BY <2>0, <2>1, Zenon
    <3>1. Past(r)' >= Past(r)
      BY <1>k, <3>0 DEF Past
    <3> QED
      BY <1>d, <2>1, <3>1
  <2>4. Session(r)'
    BY <1>a, <1>11, <2>0, <2>1 DEF Refuse, Session
  <2> QED
    BY <2>2, <2>3, <2>4
<1>12. CASE AttemptFails(r)
  <2>0. phase[r] = "wait" /\ Silent(r) /\ AtCandidate(r) /\ err[r] = "none"
    BY <1>a, <1>12 DEF AttemptFails, Life, Asked
  <2>1. /\ cands'[r] = cands[r] /\ sent'[r] = sent[r] /\ reply'[r] = reply[r] /\ row'[r] = row[r]
        /\ \/ phase'[r] = "exhausted" /\ err'[r] = "gone" /\ k'[r] = k[r]
           \/ phase'[r] = "try" /\ err'[r] = err[r] /\ k'[r] = k[r] + 1 /\ k[r] < Len(cands[r])
           \/ phase'[r] = "exhausted" /\ err'[r] = "all_failed" /\ k'[r] = k[r] /\ k[r] = Len(cands[r])
    BY <1>a, <1>12 DEF AttemptFails, NextCandidate, Goto, TypeOK
  <2>2. Life(r)'
    <3>1. Silent(r)'
      BY <2>0, <2>1 DEF Silent
    <3>2. AtCandidate(r)'
      <4>1. Len(cands'[r]) = Len(cands[r])
        BY <2>1, Zenon
      <4>2. k[r] \in 1 .. Len(cands[r])
        BY <2>0 DEF AtCandidate
      <4>3. k'[r] = k[r] \/ (k'[r] = k[r] + 1 /\ k[r] < Len(cands[r]))
        BY <2>1, Zenon
      <4> QED
        BY <1>k, <4>1, <4>2, <4>3 DEF AtCandidate
    <3> QED
      BY <2>0, <2>1, <3>1, <3>2 DEF Life
  <2>3. Forward(r)'
    <3>0. \/ phase'[r] # "try" /\ k'[r] = k[r]
          \/ phase'[r] = "try" /\ k'[r] = k[r] + 1
      BY <2>1, Zenon
    <3>1. Past(r)' >= Past(r)
      BY <1>k, <3>0 DEF Past
    <3> QED
      BY <1>d, <2>1, <3>1
  <2>4. Session(r)'
    BY <1>a, <1>12, <2>0, <2>1 DEF AttemptFails, NextCandidate, Session
  <2> QED
    BY <2>2, <2>3, <2>4
<1>13. CASE UpstreamRefuses(r)
  <2>1. /\ want'[r] = want[r] /\ phase'[r] = "refuse" /\ listed'[r] = listed[r]
        /\ cands'[r] = cands[r] /\ k'[r] = k[r] /\ err'[r] = "upstream_error"
        /\ sent'[r] = sent[r] /\ reply'[r] = reply[r] /\ row'[r] = Append(row[r], [by |-> Current(r).ch, model |-> Current(r).model, error |-> "upstream_error"])
        /\ gone'[r] = gone[r]
    BY <1>13, <1>a DEF UpstreamRefuses, Goto, tableVars, finishAttempt, finish, TypeOK
  <2>2. Life(r)'
    <3>1. Silent(r) /\ Asked(r)
      BY <1>a, <1>13 DEF UpstreamRefuses, Life
    <3>3. /\ Len(row'[r]) = 1
          /\ row'[r][1] = [by |-> Current(r).ch, model |-> Current(r).model, error |-> "upstream_error"]
      BY <1>b, <2>1, <3>1 DEF Silent
    <3>4. Asked(r)' /\ Current(r)' = Current(r)
      BY <1>f, <2>1, <3>1
    <3>5. Blamed(r)'
      BY <2>1, <3>1, <3>3, <3>4 DEF Blamed, Silent, GatewayErrors
    <3> QED
      BY <2>1, <3>5 DEF Life
  <2>3. Forward(r)'
    BY <1>a, <1>c, <1>d, <1>13, <2>1 DEF UpstreamRefuses, Past, Forward
  <2>4. Session(r)'
    BY <1>a, <1>13, <2>1 DEF UpstreamRefuses, Session, TypeOK
  <2> QED
    BY <2>2, <2>3, <2>4
<1>14. CASE ConvertResponseFails(r)
  <2>1. /\ want'[r] = want[r] /\ phase'[r] = "refuse" /\ listed'[r] = listed[r]
        /\ cands'[r] = cands[r] /\ k'[r] = k[r] /\ err'[r] = "conversion"
        /\ sent'[r] = sent[r] /\ reply'[r] = reply[r] /\ row'[r] = Append(row[r], [by |-> Current(r).ch, model |-> Current(r).model, error |-> "conversion"])
        /\ gone'[r] = gone[r]
    BY <1>14, <1>a DEF ConvertResponseFails, Goto, tableVars, finishAttempt, finish, TypeOK
  <2>2. Life(r)'
    <3>1. Silent(r) /\ Asked(r)
      BY <1>a, <1>14 DEF ConvertResponseFails, Life
    <3>3. /\ Len(row'[r]) = 1
          /\ row'[r][1] = [by |-> Current(r).ch, model |-> Current(r).model, error |-> "conversion"]
      BY <1>b, <2>1, <3>1 DEF Silent
    <3>4. Asked(r)' /\ Current(r)' = Current(r)
      BY <1>f, <2>1, <3>1
    <3>5. Blamed(r)'
      BY <2>1, <3>1, <3>3, <3>4 DEF Blamed, Silent, GatewayErrors
    <3> QED
      BY <2>1, <3>5 DEF Life
  <2>3. Forward(r)'
    BY <1>a, <1>c, <1>d, <1>14, <2>1 DEF ConvertResponseFails, Past, Forward
  <2>4. Session(r)'
    BY <1>a, <1>14, <2>1 DEF ConvertResponseFails, Session, TypeOK
  <2> QED
    BY <2>2, <2>3, <2>4
<1>15. CASE RespondNonStream(r)
  <2>1. /\ want'[r] = want[r] /\ phase'[r] = "log" /\ listed'[r] = listed[r]
        /\ cands'[r] = cands[r] /\ k'[r] = k[r] /\ err'[r] = err[r]
        /\ sent'[r] = sent[r] /\ reply'[r] = Append(reply[r], [status |-> "ok", by |-> Current(r).ch]) /\ row'[r] = row[r]
        /\ gone'[r] = gone[r]
    BY <1>15, <1>a DEF RespondNonStream, Goto, tableVars, Write, TypeOK
  <2>2. Life(r)'
    <3>1. Silent(r) /\ Asked(r) /\ err[r] = "none"
      BY <1>a, <1>15 DEF RespondNonStream, Life
    <3>2. reply'[r] = Append(<< >>, [status |-> "ok", by |-> Current(r).ch]) /\ row'[r] = << >>
      BY <2>1, <3>1 DEF Silent
    <3>3. /\ Len(reply'[r]) = 1
          /\ reply'[r][1].status = "ok" /\ reply'[r][1].by = Current(r).ch
      BY <1>b, <3>2
    <3>4. Asked(r)' /\ Current(r)' = Current(r)
      BY <1>f, <2>1, <3>1
    <3>5. Answered(r)'
      BY <3>2, <3>3, <3>4 DEF Answered
    <3> QED
      BY <2>1, <3>1, <3>5 DEF Life
  <2>3. Forward(r)'
    BY <1>a, <1>c, <1>d, <1>15, <2>1 DEF RespondNonStream, Past, Forward
  <2>4. Session(r)'
    BY <1>a, <1>15, <2>1 DEF RespondNonStream, Session, TypeOK
  <2> QED
    BY <2>2, <2>3, <2>4
<1>16. CASE Commit(r)
  <2>1. /\ want'[r] = want[r] /\ phase'[r] = "stream" /\ listed'[r] = listed[r]
        /\ cands'[r] = cands[r] /\ k'[r] = k[r] /\ err'[r] = err[r]
        /\ sent'[r] = sent[r] /\ reply'[r] = Append(reply[r], [status |-> "ok", by |-> Current(r).ch]) /\ row'[r] = row[r]
        /\ gone'[r] = gone[r]
    BY <1>16, <1>a DEF Commit, Goto, tableVars, Write, TypeOK
  <2>2. Life(r)'
    <3>1. Silent(r) /\ Asked(r) /\ err[r] = "none"
      BY <1>a, <1>16 DEF Commit, Life
    <3>2. reply'[r] = Append(<< >>, [status |-> "ok", by |-> Current(r).ch]) /\ row'[r] = << >>
      BY <2>1, <3>1 DEF Silent
    <3>3. /\ Len(reply'[r]) = 1
          /\ reply'[r][1].status = "ok" /\ reply'[r][1].by = Current(r).ch
      BY <1>b, <3>2
    <3>4. Asked(r)' /\ Current(r)' = Current(r)
      BY <1>f, <2>1, <3>1
    <3>5. Answered(r)'
      BY <3>2, <3>3, <3>4 DEF Answered
    <3> QED
      BY <2>1, <3>1, <3>5 DEF Life
  <2>3. Forward(r)'
    BY <1>a, <1>c, <1>d, <1>16, <2>1 DEF Commit, Past, Forward
  <2>4. Session(r)'
    BY <1>a, <1>16, <2>1 DEF Commit, Session, TypeOK
  <2> QED
    BY <2>2, <2>3, <2>4
<1>17. CASE StreamEnds(r)
  <2>0. phase[r] = "stream" /\ Answered(r)
    BY <1>a, <1>17 DEF StreamEnds, Life
  <2>1. /\ cands'[r] = cands[r] /\ sent'[r] = sent[r] /\ reply'[r] = reply[r] /\ row'[r] = row[r]
        /\ k'[r] = k[r] /\ phase'[r] = "streamed" /\ err'[r] \in {"none", "stream_cut", "stream_left"}
    BY <1>a, <1>17 DEF StreamEnds, Goto, TypeOK
  <2>2. Life(r)'
    <3>1. Asked(r)' /\ Current(r)' = Current(r)
      BY <1>f, <2>0, <2>1 DEF Answered
    <3>2. Answered(r)'
      BY <2>0, <2>1, <3>1 DEF Answered
    <3> QED
      BY <2>1, <3>2 DEF Life
  <2>3. Forward(r)'
    <3>0. phase[r] # "try" /\ phase'[r] # "try" /\ k'[r] = k[r]
      BY <2>0, <2>1, Zenon
    <3>1. Past(r)' >= Past(r)
      BY <1>k, <3>0 DEF Past
    <3> QED
      BY <1>d, <2>1, <3>1
  <2>4. Session(r)'
    BY <1>a, <1>17, <2>0, <2>1 DEF StreamEnds, Session
  <2> QED
    BY <2>2, <2>3, <2>4
<1>18. CASE ClientLeaves(r)
  <2>1. /\ want'[r] = want[r] /\ phase'[r] = phase[r] /\ listed'[r] = listed[r]
        /\ cands'[r] = cands[r] /\ k'[r] = k[r] /\ err'[r] = err[r]
        /\ sent'[r] = sent[r] /\ reply'[r] = reply[r] /\ row'[r] = row[r]
        /\ gone'[r] = TRUE
    BY <1>18, <1>a DEF ClientLeaves, Goto, tableVars, TypeOK
  <2>2. Life(r)'
    <3>1. phase'[r] \notin {"new", "done"} /\ phase'[r] = phase[r]
      BY <1>18, <2>1 DEF ClientLeaves
    <3>2. Silent(r)' <=> Silent(r)
      BY <2>1 DEF Silent
    <3>3. (AtCandidate(r)' <=> AtCandidate(r)) /\ Current(r)' = Current(r) /\ (Asked(r)' <=> Asked(r))
      BY <2>1 DEF AtCandidate, Asked, Current
    <3>4. (Answered(r)' <=> Answered(r)) /\ (Blamed(r)' <=> Blamed(r))
      BY <2>1, <3>3 DEF Answered, Blamed
    <3> QED
      BY <1>a, <2>1, <3>1, <3>2, <3>3, <3>4 DEF Life
  <2>3. Forward(r)'
    BY <1>a, <1>c, <1>d, <1>18, <2>1 DEF ClientLeaves, Past, Forward
  <2>4. Session(r)'
    BY <1>a, <1>18, <2>1 DEF ClientLeaves, Session, TypeOK
  <2> QED
    BY <2>2, <2>3, <2>4
<1> QED
  BY <1>1, <1>2, <1>3, <1>4, <1>5, <1>6, <1>7, <1>8, <1>9, <1>10, <1>11, <1>12, <1>13, <1>14, <1>15, <1>16, <1>17, <1>18 DEF Proceed, Upstream

\* Every step of a request keeps its line of candidates.
LEMMA StepLine ==
    ASSUME IInv, NEW r \in Request, Proceed(r) \/ Upstream(r) \/ ClientLeaves(r)
    PROVE  Line(r)'
<1>a. TypeOK /\ Life(r) /\ Line(r)
  BY DEF IInv
<1>b. /\ cands[r] \in Seq(Candidate) /\ tried[r] \in Seq(Candidate)
      /\ k[r] \in Nat /\ phase[r] \in Phases
  BY <1>a DEF TypeOK
<1>c. ASSUME cands'[r] = cands[r], tried'[r] = tried[r], Past(r)' = Past(r),
             phase'[r] \in {"new", "list", "lookup", "empty"} => k'[r] = 0
      PROVE  Line(r)'
  BY <1>a, <1>c, Zenon DEF Line
<1>1. CASE Select(r)
  <2>1. PICK s \in Seq(Candidate) :
            /\ cands' = [cands EXCEPT ![r] = s]
            /\ IF s = << >>
               THEN /\ Goto(r, "empty") /\ UNCHANGED k
               ELSE /\ Goto(r, "try") /\ k' = [k EXCEPT ![r] = 1]
    BY <1>a, <1>1, SelectParts, Zenon
  <2>2. phase[r] = "lookup" /\ tried'[r] = tried[r]
    BY <1>1 DEF Select
  <2>3. k[r] = 0 /\ Past(r) = 0 /\ Len(tried[r]) = 0
    BY <1>a, <2>2 DEF Line, Past
  <2>4. \/ phase'[r] = "empty" /\ k'[r] = 0
        \/ phase'[r] = "try" /\ k'[r] = 1
    BY <1>a, <2>1, <2>3 DEF Goto, TypeOK
  <2>5. Past(r)' = 0
    BY <2>4 DEF Past
  <2> QED
    BY <2>2, <2>3, <2>4, <2>5 DEF Line
<1>2. CASE Send(r) \/ SendFails(r)
  <2>1. /\ phase[r] = "try" /\ cands'[r] = cands[r]
        /\ tried'[r] = Append(tried[r], Current(r))
        /\ \/ phase'[r] \in {"wait", "exhausted"} /\ k'[r] = k[r]
           \/ phase'[r] = "try" /\ k'[r] = k[r] + 1
    BY <1>a, <1>2 DEF Send, SendFails, Try, NextCandidate, Goto, TypeOK
  <2>2. Past(r) = k[r] - 1 /\ Past(r)' = k[r]
    BY <1>b, <2>1 DEF Past
  <2>3. /\ k[r] \in 1 .. Len(cands[r]) /\ DOMAIN cands[r] = 1 .. Len(cands[r])
        /\ Current(r) = cands[r][k[r]] /\ Current(r) \in Candidate
    BY <1>a, <1>b, <2>1, CurrentTyped DEF Life, AtCandidate, Current
  <2>4. /\ Len(tried'[r]) = k[r]
        /\ tried'[r][k[r]] = cands[r][k[r]]
        /\ \A i \in 1 .. k[r] - 1 : tried'[r][i] = tried[r][i]
    <3>1. Len(tried[r]) = k[r] - 1
      BY <1>a, <2>2 DEF Line
    <3> QED
      BY <1>b, <2>1, <2>3, <3>1
  <2>5. \A i \in 1 .. k[r] - 1 : i \in DOMAIN cands[r] /\ tried[r][i] = cands[r][i]
    BY <1>a, <2>2 DEF Line
  <2>6. \A i \in 1 .. k[r] : i \in DOMAIN cands[r] /\ tried'[r][i] = cands'[r][i]
    <3> TAKE i \in 1 .. k[r]
    <3>1. CASE i = k[r]
      BY <2>1, <2>3, <2>4, <3>1
    <3>2. CASE i # k[r]
      <4>1. i \in 1 .. k[r] - 1
        BY <2>3, <3>2
      <4> QED
        BY <2>1, <2>4, <2>5, <4>1
    <3> QED
      BY <3>1, <3>2
  <2> QED
    BY <2>1, <2>2, <2>4, <2>6 DEF Line
<1>3. CASE AttemptFails(r)
  <2>1. /\ phase[r] = "wait" /\ cands'[r] = cands[r] /\ tried'[r] = tried[r]
        /\ \/ phase'[r] = "exhausted" /\ k'[r] = k[r]
           \/ phase'[r] = "try" /\ k'[r] = k[r] + 1
    BY <1>a, <1>3 DEF AttemptFails, NextCandidate, Goto, TypeOK
  <2>2. Past(r)' = Past(r)
    BY <1>b, <2>1 DEF Past
  <2> QED
    BY <1>c, <2>1, <2>2
<1>4. CASE ClientLeaves(r)
  <2>1. cands' = cands /\ tried' = tried /\ k' = k /\ phase' = phase
    BY <1>4 DEF ClientLeaves
  <2> QED
    BY <1>a, <1>c, <2>1 DEF Past, Line
<1>5. CASE \/ Accept(r) \/ ListEnabled(r) \/ QueryError(r) \/ NoCandidate(r) \/ LogNonStream(r)
           \/ LogStream(r) \/ Exhausted(r) \/ Refuse(r) \/ UpstreamRefuses(r)
           \/ ConvertResponseFails(r) \/ RespondNonStream(r) \/ Commit(r) \/ StreamEnds(r)
  <2>1. /\ cands' = cands /\ tried' = tried /\ k' = k
        /\ \E p \in Phases \ {"new", "try", "empty"} : phase' = [phase EXCEPT ![r] = p]
        /\ phase[r] # "try"
    BY <1>5 DEF Accept, ListEnabled, QueryError, NoCandidate, LogNonStream, LogStream, Exhausted,
         Refuse, UpstreamRefuses, ConvertResponseFails, RespondNonStream, Commit, StreamEnds,
         Goto, Phases
  <2>2. phase'[r] # "try"
    BY <1>a, <2>1 DEF TypeOK
  <2>3. Past(r)' = Past(r)
    BY <2>1, <2>2 DEF Past
  <2>4. phase'[r] \in {"new", "list", "lookup", "empty"} => phase[r] \in {"new", "list", "lookup", "empty"}
    BY <1>a, <1>5 DEF Accept, ListEnabled, QueryError, NoCandidate, LogNonStream, LogStream, Exhausted,
         Refuse, UpstreamRefuses, ConvertResponseFails, RespondNonStream, Commit, StreamEnds,
         Goto, TypeOK
  <2> QED
    BY <1>a, <1>c, <2>1, <2>3, <2>4 DEF Line
<1> QED
  BY <1>1, <1>2, <1>3, <1>4, <1>5 DEF Proceed, Upstream

LEMMA NextIInv == IInv /\ [Next]_vars => IInv'
<1> SUFFICES ASSUME IInv, [Next]_vars PROVE IInv'
  OBVIOUS
<1>0. TypeOK /\ \A q \in Request : Life(q) /\ Forward(q) /\ Line(q) /\ Session(q)
  BY SessionsPointwise DEF IInv, TypeOK
<1>1. ASSUME TypeOK', \A q \in Request : Life(q)' /\ Forward(q)' /\ Line(q)' /\ Session(q)'
      PROVE  IInv'
  <2>1. (open \subseteq Request)'
    BY <1>1 DEF TypeOK
  <2>2. SessionsAreStreams'
    BY <1>1, <2>1 DEF SessionsAreStreams, Session
  <2> QED
    BY <1>1, <2>2 DEF IInv
<1>2. ASSUME NEW q \in Request, Same(q) PROVE Life(q)' /\ Forward(q)' /\ Line(q)' /\ Session(q)'
  <2>1. Life(q)' /\ Forward(q)' /\ Line(q)'
    BY <1>0, <1>2, Frame
  <2>2. Session(q)'
    BY <1>0, <1>2 DEF Same, Session
  <2> QED
    BY <2>1, <2>2
<1>3. ASSUME NEW r \in Request, Proceed(r) \/ Upstream(r) \/ ClientLeaves(r) PROVE IInv'
  <2>1. Shape(r)
    BY <1>3, StepShape
  <2>2. TypeOK'
    BY <1>0, <2>1, ShapeTypes
  <2>3. Life(r)' /\ Forward(r)' /\ Line(r)' /\ Session(r)'
    BY <1>3, <2>2, StepLife, StepLine
  <2>4. ASSUME NEW q \in Request PROVE Life(q)' /\ Forward(q)' /\ Line(q)' /\ Session(q)'
    <3>1. CASE q = r
      BY <2>3, <3>1, Zenon
    <3>2. CASE q # r
      BY <1>0, <1>2, <2>1, <3>2, Elsewhere
    <3> QED
      BY <3>1, <3>2
  <2> QED
    BY <1>1, <2>2, <2>4
<1>4. ASSUME UNCHANGED <<want, phase, listed, cands, k, err, sent, tried, reply, row, gone, open>>,
             channels' \in [Channel -> Configs], groups' \subseteq DOMAIN Group
      PROVE  IInv'
  <2>1. TypeOK'
    BY <1>0, <1>4 DEF TypeOK
  <2>2. \A q \in Request : Same(q)
    BY <1>4 DEF Same
  <2> QED
    BY <1>1, <1>2, <2>1, <2>2
<1>5. CASE EditChannel
  BY <1>0, <1>4, <1>5 DEF EditChannel, TypeOK
<1>6. CASE EditGroups
  BY <1>0, <1>4, <1>6 DEF EditGroups, TypeOK
<1>7. CASE UNCHANGED vars
  BY <1>0, <1>4, <1>7 DEF vars, tableVars, TypeOK
<1> QED
  BY <1>3, <1>5, <1>6, <1>7 DEF Next

\* The invariant holds throughout.
LEMMA Invariant == Spec => []IInv
<1>1. Init => IInv
  BY InitIInv
<1>2. IInv /\ [Next]_vars => IInv'
  BY NextIInv
<1> QED
  BY <1>1, <1>2, PTL DEF Spec

-----------------------------------------------------------------------------
(* The properties *)

\* Every variable of the executor keeps its type, whatever the channels, groups and
\* settings: candidates name existing channels, rows and answers name one or none.
THEOREM TypeCorrect == Spec => []TypeOK
<1>1. IInv => TypeOK
  BY DEF IInv
<1> QED
  BY <1>1, Invariant, PTL

\* Every request ends with one answer and, unless a query failed before there was
\* a candidate, one row; nothing is answered or logged twice (Handle, finish).
THEOREM AnsweredOnceLoggedOnce == Spec => []OneAnswerOneRow
<1>1. IInv => OneAnswerOneRow
  <2> SUFFICES ASSUME IInv, NEW r \in Request
               PROVE  /\ Len(reply[r]) <= 1 /\ Len(row[r]) <= 1
                      /\ phase[r] = "done" =>
                           /\ Len(reply[r]) = 1
                           /\ Len(row[r]) = 0 => reply[r][1].status = "internal"
    BY DEF OneAnswerOneRow
  <2>1. Life(r) /\ phase[r] \in Phases /\ reply[r] \in Seq(Reply) /\ row[r] \in Seq(Row)
    BY DEF IInv, TypeOK
  <2>2. /\ Len(<< >>) = 0 /\ Len(reply[r]) \in Nat /\ Len(row[r]) \in Nat
    BY <2>1
  <2>3. \/ Silent(r) \/ Answered(r) \/ Blamed(r) \/ Settled(r)
    BY <2>1 DEF Life, Phases
  <2>4. Len(reply[r]) \in {0, 1} /\ Len(row[r]) \in {0, 1}
    BY <2>2, <2>3, Zenon DEF Silent, Answered, Blamed, Settled
  <2>5. phase[r] = "done" => /\ Len(reply[r]) = 1
                             /\ Len(row[r]) = 0 => reply[r][1].status = "internal"
    <3>1. 0 # 1
      OBVIOUS
    <3> QED
      BY <2>1, <3>1, Zenon DEF Life, Settled
  <2>6. Len(reply[r]) <= 1 /\ Len(row[r]) <= 1
    <3>1. \A n \in {0, 1} : n <= 1
      OBVIOUS
    <3> QED
      BY <2>4, <3>1, Zenon
  <2> QED
    BY <2>5, <2>6, Zenon
<1> QED
  BY <1>1, Invariant, PTL

\* What the log says of a request agrees with what its client got: the channel, the
\* model, and whether there was an error (finish and the answers of Handle).
THEOREM LogTellsTheTruth == Spec => []RowMatchesAnswer
<1>1. IInv => RowMatchesAnswer
  <2> SUFFICES ASSUME IInv, NEW r \in Request, row[r] # << >>, reply[r] # << >>
               PROVE  LET w == row[r][1]
                          a == reply[r][1]
                      IN /\ a.by # NoOne => /\ w.by = a.by
                                            /\ sent[r] # << >>
                                            /\ LET last == sent[r][Len(sent[r])]
                                               IN last.ch = w.by /\ last.model = w.model
                         /\ w.error = "none" => a.status = "ok"
                         /\ a.status = "ok" => w.error \in {"none", "stream_cut", "stream_left"}
    BY DEF RowMatchesAnswer
  <2>1. Life(r) /\ phase[r] \in Phases /\ reply[r] \in Seq(Reply) /\ row[r] \in Seq(Row)
    BY DEF IInv, TypeOK
  <2>2. Settled(r)
    BY <2>1 DEF Life, Phases, Silent, Answered, Blamed
  <2>3. Len(row[r]) = 1
    BY <2>2 DEF Settled
  <2>4. row[r][1] \in Row
    BY <2>1, <2>3
  <2>5. row[r][1].error \in RowError
    BY <2>4 DEF Row
  <2>6. CASE reply[r][1].by = NoOne
    <3>1. row[r][1].error \in GatewayErrors /\ reply[r][1].status # "ok"
      BY <2>2, <2>6 DEF Settled
    <3> QED
      BY <2>6, <3>1 DEF GatewayErrors
  <2>7. CASE reply[r][1].by # NoOne
    <3>1. /\ Asked(r)
          /\ row[r][1].by = reply[r][1].by
          /\ row[r][1].by = Current(r).ch
          /\ row[r][1].model = Current(r).model
          /\ row[r][1].error \notin GatewayErrors
          /\ reply[r][1].status = "ok" <=> row[r][1].error # "upstream_error"
      BY <2>2, <2>7 DEF Settled
    <3>2. sent[r] # << >> /\ sent[r][Len(sent[r])] = Current(r)
      BY <3>1 DEF Asked
    <3> QED
      BY <2>5, <2>7, <3>1, <3>2 DEF RowError, GatewayErrors
  <2> QED
    BY <2>6, <2>7
<1> QED
  BY <1>1, Invariant, PTL

\* The candidates are tried in their order, none skipped and none twice, and a
\* request is refused with "all channels failed" only when all were (the loop of
\* Handle), however many channels and groups there are.
THEOREM EveryCandidateTried == Spec => []NoStoneUnturned
<1>1. IInv => NoStoneUnturned
  <2> SUFFICES ASSUME IInv, NEW r \in Request
               PROVE  /\ IsPrefix(tried[r], cands[r])
                      /\ err[r] = "all_failed" => tried[r] = cands[r]
    BY DEF NoStoneUnturned
  <2>1. /\ TypeOK /\ Life(r) /\ Line(r)
        /\ cands[r] \in Seq(Candidate) /\ tried[r] \in Seq(Candidate) /\ k[r] \in Nat
    BY DEF IInv, TypeOK
  <2>2. DOMAIN cands[r] = 1 .. Len(cands[r]) /\ Len(cands[r]) \in Nat /\ Len(tried[r]) \in Nat
    BY <2>1
  <2>3. \A i \in 1 .. Len(tried[r]) : i \in 1 .. Len(cands[r]) /\ tried[r][i] = cands[r][i]
    BY <2>1, <2>2 DEF Line
  <2>4. Len(tried[r]) <= Len(cands[r])
    <3>1. CASE Len(tried[r]) = 0
      BY <2>2, <3>1
    <3>2. CASE Len(tried[r]) # 0
      <4>1. Len(tried[r]) \in 1 .. Len(tried[r])
        BY <2>2, <3>2
      <4> QED
        BY <2>2, <2>3, <4>1
    <3> QED
      BY <3>1, <3>2
  <2>5. SubSeq(tried[r], 1, Len(tried[r])) = SubSeq(cands[r], 1, Len(tried[r]))
    BY <2>1, <2>2, <2>3, <2>4
  <2>6. ASSUME err[r] = "all_failed" PROVE tried[r] = cands[r]
    <3>1. k[r] = Len(cands[r]) /\ phase[r] # "try"
      BY <2>1, <2>6 DEF Life
    <3>2. Len(tried[r]) = Len(cands[r])
      BY <2>1, <3>1 DEF Line, Past
    <3> QED
      BY <2>1, <2>2, <2>3, <3>2, SeqEqual
  <2> QED
    BY <2>4, <2>5, <2>6 DEF IsPrefix
<1> QED
  BY <1>1, Invariant, PTL

\* No upstream is asked twice for one request, by whatever order SelectCandidates
\* puts them in.
THEOREM NeverTheSameUpstream == Spec => []NoUpstreamTwice
<1>1. IInv => NoUpstreamTwice
  BY DEF IInv, NoUpstreamTwice, Forward
<1> QED
  BY <1>1, Invariant, PTL

\* Throughput sessions are opened and closed in pairs, one for each stream.
THEOREM SessionsPaired == Spec => []SessionsAreStreams
<1>1. IInv => SessionsAreStreams
  BY DEF IInv
<1> QED
  BY <1>1, Invariant, PTL

\* A written answer is never followed by another upstream call or another answer.
THEOREM QuietAfterAnswer == Spec => NothingAfterAnswer
<1>1. ASSUME IInv, [Next]_vars, NEW r \in Request, reply[r] # << >>
      PROVE  UNCHANGED <<sent[r], reply[r], cands[r], k[r]>>
  <2>1. Life(r) /\ phase[r] \in Phases /\ TypeOK
    BY <1>1 DEF IInv, TypeOK
  <2>2. phase[r] \in {"log", "stream", "streamed", "done"}
    <3>1. phase[r] \notin {"new", "list", "lookup", "empty", "try", "wait", "exhausted"}
      BY <1>1, <2>1, Zenon DEF Life, Silent
    <3>2. phase[r] # "refuse"
      BY <1>1, <2>1, Zenon DEF Life, Blamed
    <3> QED
      BY <2>1, <3>1, <3>2 DEF Phases
  <2>3. CASE Proceed(r) \/ Upstream(r) \/ ClientLeaves(r)
    <3>1. LogNonStream(r) \/ LogStream(r) \/ StreamEnds(r) \/ ClientLeaves(r)
      BY <2>2, <2>3 DEF Proceed, Upstream, Accept, ListEnabled, QueryError, Select, NoCandidate,
           Send, SendFails, Exhausted, Refuse, AttemptFails, UpstreamRefuses,
           ConvertResponseFails, RespondNonStream, Commit
    <3>2. sent' = sent /\ reply' = reply /\ cands' = cands /\ k' = k
      BY <3>1, Zenon DEF LogNonStream, LogStream, StreamEnds, ClientLeaves
    <3> QED
      BY <3>2
  <2>4. ASSUME NEW q \in Request, q # r, Proceed(q) \/ Upstream(q) \/ ClientLeaves(q)
        PROVE  UNCHANGED <<sent[r], reply[r], cands[r], k[r]>>
    BY <1>1, <2>1, <2>4, StepShape, Elsewhere DEF Same
  <2>5. CASE EditChannel \/ EditGroups \/ UNCHANGED vars
    BY <2>5 DEF EditChannel, EditGroups, vars
  <2> QED
    BY <1>1, <2>3, <2>4, <2>5 DEF Next
<1>2. IInv /\ [Next]_vars =>
        [\A r \in Request : reply[r] # << >> => UNCHANGED <<sent[r], reply[r], cands[r], k[r]>>]_vars
  BY <1>1
<1> QED
  BY <1>2, Invariant, PTL DEF Spec, NothingAfterAnswer

\* When an attempt fails after the client has left, the next candidate is not tried.
THEOREM NothingForTheGone == Spec => NoWorkForTheGone
<1>1. ASSUME IInv, [Next]_vars, NEW r \in Request, gone[r], phase[r] = "wait"
      PROVE  phase'[r] # "try"
  <2>1. TypeOK /\ phase \in [Request -> Phases]
    BY <1>1 DEF IInv, TypeOK
  <2>2. CASE Proceed(r) \/ Upstream(r) \/ ClientLeaves(r)
    <3>1. \/ AttemptFails(r) \/ UpstreamRefuses(r) \/ ConvertResponseFails(r)
          \/ RespondNonStream(r) \/ Commit(r) \/ ClientLeaves(r)
      BY <1>1, <2>2 DEF Proceed, Upstream, Accept, ListEnabled, QueryError, Select, NoCandidate,
           Send, SendFails, LogNonStream, LogStream, Exhausted, Refuse, StreamEnds
    <3> QED
      BY <1>1, <2>1, <3>1 DEF AttemptFails, NextCandidate, UpstreamRefuses,
           ConvertResponseFails, RespondNonStream, Commit, ClientLeaves, Goto
  <2>3. ASSUME NEW q \in Request, q # r, Proceed(q) \/ Upstream(q) \/ ClientLeaves(q)
        PROVE  phase'[r] # "try"
    BY <1>1, <2>1, <2>3, StepShape, Elsewhere DEF Same
  <2>4. CASE EditChannel \/ EditGroups \/ UNCHANGED vars
    BY <1>1, <2>4 DEF EditChannel, EditGroups, vars
  <2> QED
    BY <1>1, <2>2, <2>3, <2>4 DEF Next
<1>2. IInv /\ [Next]_vars =>
        [\A r \in Request : gone[r] /\ phase[r] = "wait" => phase'[r] # "try"]_vars
  BY <1>1
<1> QED
  BY <1>2, Invariant, PTL DEF Spec, NoWorkForTheGone

-----------------------------------------------------------------------------
(* The executor implements its contract *)

LEMMA AnswerStep ==
    ASSUME TypeOK, NEW r \in Request, NEW p \in Phases, NEW a \in Reply,
           phase[r] # "new", p # "new", phase' = [phase EXCEPT ![r] = p],
           reply[r] = << >>, reply' = [reply EXCEPT ![r] = Append(reply[r], a)], row' = row,
           AccountOf(row[r]) \in {"pending", AnswerOf(<<a>>)}
    PROVE  Contract!Answer(r)
<1> DEFINE w == AnswerOf(<<a>>)
<1>1. w \in Channel \union {"refused"}
  <2>1. << a >> # << >> /\ << a >>[1] = a /\ a.by \in Channel \union {NoOne}
    BY DEF Reply
  <2> QED
    BY <2>1 DEF AnswerOf
<1>2. {q \in Request : phase[q] # "new"}' = {q \in Request : phase[q] # "new"}
  BY DEF TypeOK
<1>3. reply'[r] = << a >>
  BY DEF TypeOK
<1>4. [q \in Request |-> AnswerOf(reply[q])]' = [[q \in Request |-> AnswerOf(reply[q])] EXCEPT ![r] = w]
  BY <1>3, Zenon DEF TypeOK
<1>5. AnswerOf(reply[r]) = "pending"
  BY DEF AnswerOf
<1> HIDE DEF w
<1>6. /\ r \in {q \in Request : phase[q] # "new"}
      /\ [q \in Request |-> AnswerOf(reply[q])][r] = "pending"
      /\ [q \in Request |-> AccountOf(row[q])][r] \in {"pending", w}
  BY <1>5 DEF w
<1>7. [q \in Request |-> AccountOf(row[q])]' = [q \in Request |-> AccountOf(row[q])]
  OBVIOUS
<1> QED
  BY <1>1, <1>2, <1>4, <1>6, <1>7, Zenon
  DEF Contract!Answer, Contract!Responsible, Contract!Refused, Contract!Pending

LEMMA AccountStep ==
    ASSUME TypeOK, NEW r \in Request, NEW p \in Phases, NEW x \in Row,
           phase[r] # "new", p # "new", phase' = [phase EXCEPT ![r] = p],
           row[r] = << >>, row' = [row EXCEPT ![r] = Append(row[r], x)], reply' = reply,
           AccountOf(<<x>>) \in Channel \union {"refused"},
           AnswerOf(reply[r]) \in {"pending", AccountOf(<<x>>)}
    PROVE  Contract!Account(r)
<1> DEFINE w == AccountOf(<<x>>)
<1>2. {q \in Request : phase[q] # "new"}' = {q \in Request : phase[q] # "new"}
  BY DEF TypeOK
<1>3. row'[r] = << x >>
  BY DEF TypeOK
<1>4. [q \in Request |-> AccountOf(row[q])]' = [[q \in Request |-> AccountOf(row[q])] EXCEPT ![r] = w]
  BY <1>3, Zenon DEF TypeOK
<1>5. AccountOf(row[r]) = "pending"
  BY DEF AccountOf
<1>1. w \in Channel \union {"refused"}
  OBVIOUS
<1> HIDE DEF w
<1>6. /\ r \in {q \in Request : phase[q] # "new"}
      /\ [q \in Request |-> AccountOf(row[q])][r] = "pending"
      /\ [q \in Request |-> AnswerOf(reply[q])][r] \in {"pending", w}
  BY <1>5 DEF w
<1>7. [q \in Request |-> AnswerOf(reply[q])]' = [q \in Request |-> AnswerOf(reply[q])]
  OBVIOUS
<1> QED
  BY <1>1, <1>2, <1>4, <1>6, <1>7, Zenon
  DEF Contract!Account, Contract!Responsible, Contract!Refused, Contract!Pending

LEMMA AskStep ==
    ASSUME TypeOK, NEW r \in Request, Accept(r)
    PROVE  Contract!Ask(r)
<1>1. /\ phase[r] = "new" /\ phase' = [phase EXCEPT ![r] = "list"]
      /\ reply' = reply /\ row' = row
  BY DEF Accept, Goto
<1>2. r \notin {q \in Request : phase[q] # "new"}
  BY <1>1
<1>3. {q \in Request : phase[q] # "new"}' = {q \in Request : phase[q] # "new"} \union {r}
  BY <1>1 DEF TypeOK
<1> QED
  BY <1>1, <1>2, <1>3, Zenon DEF Contract!Ask

\* What is not answered, logged or accepted is a stutter.
LEMMA QuietStep ==
    ASSUME TypeOK, reply' = reply, row' = row,
           phase' = phase
           \/ \E r \in Request, p \in Phases :
                 phase[r] # "new" /\ p # "new" /\ phase' = [phase EXCEPT ![r] = p]
    PROVE  UNCHANGED Contract!vars
<1>1. {q \in Request : phase[q] # "new"}' = {q \in Request : phase[q] # "new"}
  BY DEF TypeOK
<1> QED
  BY <1>1, Zenon DEF Contract!vars

\* Every step of the executor is a step of the contract or changes nothing it sees.
LEMMA ContractStep == IInv /\ [Next]_vars => [Contract!Next]_(Contract!vars)
<1> SUFFICES ASSUME IInv, [Next]_vars
             PROVE  UNCHANGED Contract!vars
                    \/ \E r \in Request : Contract!Ask(r) \/ Contract!Answer(r) \/ Contract!Account(r)
  BY Zenon DEF Contract!Next
<1>t. TypeOK /\ phase \in [Request -> Phases] /\ NoOne \notin Channel
  BY ExecutorAssumption DEF IInv, TypeOK
<1>n. AnswerOf(<< >>) = "pending" /\ AccountOf(<< >>) = "pending"
  BY DEF AnswerOf, AccountOf
<1>a. \A a \in Reply : AnswerOf(<<a>>) = IF a.by = NoOne THEN "refused" ELSE a.by
  BY DEF AnswerOf
<1>b. \A w \in Row : AccountOf(<<w>>) = IF w.error \in GatewayErrors THEN "refused" ELSE w.by
  BY DEF AccountOf
<1>1. ASSUME NEW r \in Request, Proceed(r) \/ Upstream(r) \/ ClientLeaves(r)
      PROVE  UNCHANGED Contract!vars \/ Contract!Ask(r) \/ Contract!Answer(r) \/ Contract!Account(r)
  <2>l. Life(r)
    BY DEF IInv
  <2>m. want[r].model \in Model
    BY <1>t, ExecutorAssumption DEF TypeOK
  <2>c. ASSUME AtCandidate(r) PROVE Current(r).ch \in Channel /\ Current(r).model \in Model /\ Current(r).ch # NoOne
    BY <1>t, <2>c, CurrentTyped
  <2>1. CASE Accept(r)
    BY <1>t, <2>1, AskStep
  <2>2. CASE ListEnabled(r)
    <3>1. reply' = reply /\ row' = row /\ phase[r] # "new" /\ phase' = [phase EXCEPT ![r] = "lookup"]
      BY <2>2 DEF ListEnabled, Goto
    <3> QED
      BY <1>t, <3>1, QuietStep DEF Phases
  <2>3. CASE Send(r)
    <3>1. reply' = reply /\ row' = row /\ phase[r] # "new" /\ phase' = [phase EXCEPT ![r] = "wait"]
      BY <2>3 DEF Send, Goto
    <3> QED
      BY <1>t, <3>1, QuietStep DEF Phases
  <2>4. CASE Select(r)
    <3>1. reply' = reply /\ row' = row /\ phase[r] # "new"
      BY <2>4 DEF Select
    <3>2. phase' = [phase EXCEPT ![r] = "empty"] \/ phase' = [phase EXCEPT ![r] = "try"]
      BY <2>4, Zenon DEF Select, Goto
    <3> QED
      BY <1>t, <3>1, <3>2, QuietStep DEF Phases
  <2>5. CASE SendFails(r)
    <3>1. reply' = reply /\ row' = row /\ phase[r] # "new"
      BY <2>5 DEF SendFails, NextCandidate
    <3>2. phase' = [phase EXCEPT ![r] = "exhausted"] \/ phase' = [phase EXCEPT ![r] = "try"]
      BY <2>5, Zenon DEF SendFails, NextCandidate, Goto
    <3> QED
      BY <1>t, <3>1, <3>2, QuietStep DEF Phases
  <2>6. CASE AttemptFails(r)
    <3>1. reply' = reply /\ row' = row /\ phase[r] # "new"
      BY <2>6 DEF AttemptFails, NextCandidate
    <3>2. phase' = [phase EXCEPT ![r] = "exhausted"] \/ phase' = [phase EXCEPT ![r] = "try"]
      BY <2>6, Zenon DEF AttemptFails, NextCandidate, Goto
    <3> QED
      BY <1>t, <3>1, <3>2, QuietStep DEF Phases
  <2>7. CASE StreamEnds(r)
    <3>1. reply' = reply /\ row' = row /\ phase[r] # "new" /\ phase' = [phase EXCEPT ![r] = "streamed"]
      BY <2>7 DEF StreamEnds, Goto
    <3> QED
      BY <1>t, <3>1, QuietStep DEF Phases
  <2>8. CASE ClientLeaves(r)
    <3>1. reply' = reply /\ row' = row /\ phase' = phase
      BY <2>8 DEF ClientLeaves
    <3> QED
      BY <1>t, <3>1, QuietStep
  <2>9. CASE QueryError(r)
    <3> DEFINE a == [status |-> "internal", by |-> NoOne]
    <3>1. a \in Reply
      BY DEF Reply, Status
    <3>2. /\ phase[r] # "new" /\ phase' = [phase EXCEPT ![r] = "done"]
          /\ reply[r] = << >> /\ row[r] = << >> /\ row' = row
          /\ reply' = [reply EXCEPT ![r] = Append(reply[r], a)]
      BY <2>l, <2>9 DEF QueryError, Goto, Write, Life, Silent
    <3> QED
      BY <1>t, <1>n, <3>1, <3>2, AnswerStep DEF Phases
  <2>10. CASE RespondNonStream(r)
    <3> DEFINE a == [status |-> "ok", by |-> Current(r).ch]
    <3>0. phase[r] = "wait" /\ Asked(r) /\ Silent(r)
      BY <2>l, <2>10 DEF RespondNonStream, Life
    <3>1. a \in Reply
      BY <2>c, <3>0 DEF Reply, Status, Asked
    <3>2. /\ phase[r] # "new" /\ phase' = [phase EXCEPT ![r] = "log"]
          /\ reply[r] = << >> /\ row[r] = << >> /\ row' = row
          /\ reply' = [reply EXCEPT ![r] = Append(reply[r], a)]
      BY <3>0, <2>10 DEF RespondNonStream, Goto, Write, Silent
    <3> QED
      BY <1>t, <1>n, <3>1, <3>2, AnswerStep DEF Phases
  <2>11. CASE Commit(r)
    <3> DEFINE a == [status |-> "ok", by |-> Current(r).ch]
    <3>0. phase[r] = "wait" /\ Asked(r) /\ Silent(r)
      BY <2>l, <2>11 DEF Commit, Life
    <3>1. a \in Reply
      BY <2>c, <3>0 DEF Reply, Status, Asked
    <3>2. /\ phase[r] # "new" /\ phase' = [phase EXCEPT ![r] = "stream"]
          /\ reply[r] = << >> /\ row[r] = << >> /\ row' = row
          /\ reply' = [reply EXCEPT ![r] = Append(reply[r], a)]
      BY <3>0, <2>11 DEF Commit, Goto, Write, Silent
    <3> QED
      BY <1>t, <1>n, <3>1, <3>2, AnswerStep DEF Phases
  <2>12. CASE Refuse(r)
    <3>0. phase[r] = "refuse" /\ Blamed(r) /\ phase' = [phase EXCEPT ![r] = "done"] /\ row' = row
      BY <2>l, <2>12 DEF Refuse, Life, Goto
    <3>1. reply[r] = << >> /\ row[r] # << >> /\ row[r][1].error = err[r]
      BY <3>0 DEF Blamed
    <3>2. AccountOf(row[r]) = IF err[r] \in GatewayErrors THEN "refused" ELSE row[r][1].by
      BY <3>1 DEF AccountOf
    <3>3. CASE err[r] = "upstream_error"
      <4> DEFINE a == [status |-> "upstream_error", by |-> Current(r).ch]
      <4>1. AtCandidate(r) /\ row[r][1].by = Current(r).ch
        BY <3>0, <3>3 DEF Blamed, Asked
      <4>2. a \in Reply
        BY <2>c, <4>1 DEF Reply, Status
      <4>3. reply' = [reply EXCEPT ![r] = Append(reply[r], a)]
        BY <2>12, <3>3 DEF Refuse, Write
      <4>4. AccountOf(row[r]) = a.by
        BY <3>2, <3>3, <4>1 DEF GatewayErrors
      <4>5. AnswerOf(<<a>>) = a.by
        BY <1>a, <2>c, <4>1, <4>2
      <4> HIDE DEF a
      <4> QED
        BY <1>t, <3>0, <3>1, <4>2, <4>3, <4>4, <4>5, AnswerStep DEF Phases
    <3>4. CASE err[r] # "upstream_error"
      <4> DEFINE s == IF err[r] = "gone" THEN "all_failed" ELSE err[r]
                 a == [status |-> s, by |-> NoOne]
      <4>1. err[r] \in GatewayErrors
        BY <3>0, <3>4 DEF Blamed
      <4>2. s \in Status
        BY <4>1 DEF GatewayErrors, Status
      <4>3. reply' = [reply EXCEPT ![r] = Append(reply[r], a)]
        BY <2>12, <3>4 DEF Refuse, Write
      <4> HIDE DEF s
      <4>4. a \in Reply /\ a.by = NoOne
        BY <4>2 DEF Reply
      <4> HIDE DEF a
      <4>5. AccountOf(row[r]) = AnswerOf(<<a>>)
        BY <1>a, <3>2, <4>1, <4>4
      <4> QED
        BY <1>t, <3>0, <3>1, <4>3, <4>4, <4>5, AnswerStep DEF Phases
    <3> QED
      BY <3>3, <3>4
  <2>13. CASE NoCandidate(r)
    <3> DEFINE w == [by |-> NoOne, model |-> want[r].model, error |-> "no_channel"]
    <3>1. w \in Row /\ w.error \in GatewayErrors
      BY <2>m DEF Row, RowError, GatewayErrors
    <3>2. /\ phase[r] # "new" /\ phase' = [phase EXCEPT ![r] = "refuse"]
          /\ reply[r] = << >> /\ row[r] = << >> /\ reply' = reply
          /\ row' = [row EXCEPT ![r] = Append(row[r], w)]
      BY <2>l, <2>13 DEF NoCandidate, Goto, finish, Life, Silent
    <3> HIDE DEF w
    <3>3. AccountOf(<<w>>) \in Channel \union {"refused"} /\ AnswerOf(reply[r]) \in {"pending", AccountOf(<<w>>)}
      BY <1>b, <1>n, <3>1, <3>2
    <3> QED
      BY <1>t, <3>1, <3>2, <3>3, AccountStep DEF Phases
  <2>14. CASE UpstreamRefuses(r)
    <3> DEFINE w == [by |-> Current(r).ch, model |-> Current(r).model, error |-> "upstream_error"]
    <3>0. AtCandidate(r) /\ Silent(r)
      BY <2>l, <2>14 DEF UpstreamRefuses, Life, Asked
    <3>1. w \in Row /\ w.by \in Channel
      BY <2>c, <3>0 DEF Row, RowError
    <3>2. /\ phase[r] # "new" /\ phase' = [phase EXCEPT ![r] = "refuse"]
          /\ reply[r] = << >> /\ row[r] = << >> /\ reply' = reply
          /\ row' = [row EXCEPT ![r] = Append(row[r], w)]
      BY <3>0, <2>14 DEF UpstreamRefuses, Goto, finishAttempt, finish, Silent
    <3> HIDE DEF w
    <3>3. AccountOf(<<w>>) \in Channel \union {"refused"} /\ AnswerOf(reply[r]) \in {"pending", AccountOf(<<w>>)}
      BY <1>b, <1>n, <3>1, <3>2
    <3> QED
      BY <1>t, <3>1, <3>2, <3>3, AccountStep DEF Phases
  <2>15. CASE ConvertResponseFails(r)
    <3> DEFINE w == [by |-> Current(r).ch, model |-> Current(r).model, error |-> "conversion"]
    <3>0. AtCandidate(r) /\ Silent(r)
      BY <2>l, <2>15 DEF ConvertResponseFails, Life, Asked
    <3>1. w \in Row /\ w.by \in Channel
      BY <2>c, <3>0 DEF Row, RowError
    <3>2. /\ phase[r] # "new" /\ phase' = [phase EXCEPT ![r] = "refuse"]
          /\ reply[r] = << >> /\ row[r] = << >> /\ reply' = reply
          /\ row' = [row EXCEPT ![r] = Append(row[r], w)]
      BY <3>0, <2>15 DEF ConvertResponseFails, Goto, finishAttempt, finish, Silent
    <3> HIDE DEF w
    <3>3. AccountOf(<<w>>) \in Channel \union {"refused"} /\ AnswerOf(reply[r]) \in {"pending", AccountOf(<<w>>)}
      BY <1>b, <1>n, <3>1, <3>2
    <3> QED
      BY <1>t, <3>1, <3>2, <3>3, AccountStep DEF Phases
  <2>16. CASE Exhausted(r)
    <3> DEFINE w == [by |-> Current(r).ch, model |-> Current(r).model, error |-> err[r]]
    <3>0. AtCandidate(r) /\ Silent(r) /\ err[r] \in {"all_failed", "gone"}
      BY <2>l, <2>16 DEF Exhausted, Life, Asked
    <3>1. w \in Row /\ w.by \in Channel
      BY <2>c, <3>0 DEF Row, RowError
    <3>2. /\ phase[r] # "new" /\ phase' = [phase EXCEPT ![r] = "refuse"]
          /\ reply[r] = << >> /\ row[r] = << >> /\ reply' = reply
          /\ row' = [row EXCEPT ![r] = Append(row[r], w)]
      BY <3>0, <2>16 DEF Exhausted, Goto, finishAttempt, finish, Silent
    <3> HIDE DEF w
    <3>3. AccountOf(<<w>>) \in Channel \union {"refused"} /\ AnswerOf(reply[r]) \in {"pending", AccountOf(<<w>>)}
      BY <1>b, <1>n, <3>1, <3>2
    <3> QED
      BY <1>t, <3>1, <3>2, <3>3, AccountStep DEF Phases
  <2>17. CASE LogNonStream(r)
    <3> DEFINE w == [by |-> Current(r).ch, model |-> Current(r).model, error |-> "none"]
    <3>0. Answered(r) /\ Asked(r) /\ err[r] \in {"none", "stream_cut", "stream_left"}
      BY <2>l, <2>17 DEF LogNonStream, Life, Answered
    <3>4. row[r] = << >> /\ reply[r] # << >> /\ reply[r][1].by = Current(r).ch
      BY <3>0 DEF Answered
    <3>c. Current(r).ch \in Channel /\ Current(r).model \in Model /\ Current(r).ch # NoOne
      BY <2>c, <3>0 DEF Asked
    <3>1. w \in Row
      BY <3>0, <3>c DEF Row, RowError
    <3>5. w.by = Current(r).ch /\ w.error \notin GatewayErrors
      BY <3>0 DEF GatewayErrors
    <3>2. /\ phase[r] # "new" /\ phase' = [phase EXCEPT ![r] = "done"] /\ reply' = reply
          /\ row' = [row EXCEPT ![r] = Append(row[r], w)]
      BY <2>17 DEF LogNonStream, Goto, finishAttempt, finish
    <3> HIDE DEF w
    <3>6. AccountOf(<<w>>) = Current(r).ch
      BY <1>b, <3>1, <3>5
    <3>3. AnswerOf(reply[r]) = Current(r).ch
      BY <3>4, <3>c, Zenon DEF AnswerOf
    <3> QED
      BY <1>t, <3>1, <3>2, <3>3, <3>4, <3>6, <3>c, AccountStep DEF Phases
  <2>18. CASE LogStream(r)
    <3> DEFINE w == [by |-> Current(r).ch, model |-> Current(r).model, error |-> err[r]]
    <3>0. Answered(r) /\ Asked(r) /\ err[r] \in {"none", "stream_cut", "stream_left"}
      BY <2>l, <2>18 DEF LogStream, Life, Answered
    <3>4. row[r] = << >> /\ reply[r] # << >> /\ reply[r][1].by = Current(r).ch
      BY <3>0 DEF Answered
    <3>c. Current(r).ch \in Channel /\ Current(r).model \in Model /\ Current(r).ch # NoOne
      BY <2>c, <3>0 DEF Asked
    <3>1. w \in Row
      BY <3>0, <3>c DEF Row, RowError
    <3>5. w.by = Current(r).ch /\ w.error \notin GatewayErrors
      BY <3>0 DEF GatewayErrors
    <3>2. /\ phase[r] # "new" /\ phase' = [phase EXCEPT ![r] = "done"] /\ reply' = reply
          /\ row' = [row EXCEPT ![r] = Append(row[r], w)]
      BY <2>18 DEF LogStream, Goto, finishAttempt, finish
    <3> HIDE DEF w
    <3>6. AccountOf(<<w>>) = Current(r).ch
      BY <1>b, <3>1, <3>5
    <3>3. AnswerOf(reply[r]) = Current(r).ch
      BY <3>4, <3>c, Zenon DEF AnswerOf
    <3> QED
      BY <1>t, <3>1, <3>2, <3>3, <3>4, <3>6, <3>c, AccountStep DEF Phases
  <2> QED
    BY <1>1, <2>1, <2>2, <2>3, <2>4, <2>5, <2>6, <2>7, <2>8, <2>9, <2>10, <2>11, <2>12, <2>13, <2>14, <2>15, <2>16, <2>17, <2>18 DEF Proceed, Upstream
<1>2. CASE EditChannel \/ EditGroups \/ UNCHANGED vars
  <2>1. reply' = reply /\ row' = row /\ phase' = phase
    BY <1>2 DEF EditChannel, EditGroups, vars
  <2> QED
    BY <1>t, <2>1, QuietStep
<1> QED
  BY <1>1, <1>2, Zenon DEF Next

LEMMA ContractInit == Init => Contract!Init
<1> SUFFICES ASSUME Init PROVE Contract!Init
  OBVIOUS
<1>1. AnswerOf(<< >>) = "pending" /\ AccountOf(<< >>) = "pending"
  BY DEF AnswerOf, AccountOf
<1>2. /\ {r \in Request : phase[r] # "new"} = {}
      /\ [r \in Request |-> AnswerOf(reply[r])] = [r \in Request |-> "pending"]
      /\ [r \in Request |-> AccountOf(row[r])] = [r \in Request |-> "pending"]
  BY <1>1 DEF Init
<1> QED
  BY <1>2 DEF Contract!Init, Contract!Pending

\* The executor implements GatewayContract: a client hears from one channel or is
\* refused, once, the log names one responsible, once, and they are the same.
THEOREM ContractKept == Spec => KeepsContract
<1>1. Init => Contract!Init
  BY ContractInit
<1>2. IInv /\ [Next]_vars => [Contract!Next]_(Contract!vars)
  BY ContractStep
<1> QED
  BY <1>1, <1>2, Invariant, PTL DEF Spec, KeepsContract, Contract!Spec
=============================================================================
