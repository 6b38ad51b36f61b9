------------------------------ MODULE Executor ------------------------------
(***************************************************************************)
(* Executor.Handle of internal/gateway/executor.go with handleNonStream,    *)
(* handleStream and finish: the life of a gateway request, from the         *)
(* published start over the candidates it is tried on to the answer of the  *)
(* client and the row of the request log.  Requests run concurrently with   *)
(* each other and with an administrator who edits channels and groups.      *)
(*                                                                          *)
(* Bodies, token counts and the text of errors are left out; an error text  *)
(* is one of the tokens of RowError, "none" for the empty one.              *)
(***************************************************************************)
EXTENDS Selector, SequencesExt

CONSTANTS
    Request,  \* the requests that may be made
    Wants,    \* the requests' contents: [in, model, stream]
    Configs,  \* the settings an administrator may give a channel
    Group,    \* the members of each custom model group, by the group's name
    NoOne     \* the channel of a row that has none

ASSUME ExecutorAssumption ==
    /\ Wants \subseteq [in : Protocol, model : Model, stream : BOOLEAN]
    /\ Wants # {}
    /\ Configs \subseteq ChannelRec
    /\ Configs # {}
    /\ DOMAIN Group \subseteq Model
    /\ \A g \in DOMAIN Group : IsGroup(Group[g])
    /\ NoOne \notin Channel
    /\ IsFiniteSet(Channel)

VARIABLES
    channels,  \* the channel table
    groups,    \* the names of the enabled custom model groups
    want,      \* Request: what each request asks for
    phase,     \* where each request is in Handle
    listed,    \* the snapshot of the channel table it selects from
    cands,     \* its candidates, in order
    k,         \* the one being tried
    err,       \* log.Error of the attempt in progress
    sent,      \* history: the candidates whose upstream was sent the request
    tried,     \* history: the candidates attempted, asked or not
    reply,     \* history: what was written to the client, a header at a time
    row,       \* history: the rows handed to logs.Create and published as completed
    gone,      \* the client has disconnected (ctx is cancelled)
    open       \* the throughput sessions in progress

tableVars == <<channels, groups>>
vars == <<channels, groups, want, phase, listed, cands, k, err, sent, tried, reply, row, gone, open>>

Phases == {"new", "list", "lookup", "empty", "try", "wait", "log", "stream",
           "streamed", "exhausted", "refuse", "done"}

RowError == {"none", "no_channel", "all_failed", "gone", "upstream_error", "conversion",
             "stream_cut", "stream_left"}

Status == {"ok", "upstream_error", "conversion", "no_channel", "all_failed", "internal"}

Reply == [status : Status, by : Channel \union {NoOne}]
Row == [by : Channel \union {NoOne}, model : Model, error : RowError]

\* No snapshot: not listed yet, or not needed any more.
NoTable == << >>

\* The group a request is routed by: the enabled one of its model's name.
lookupGroup(m) == IF m \in groups THEN Group[m] ELSE NoGroup

Current(r) == cands[r][k[r]]

\* ConvertRequest refuses to convert a protocol to itself, WriteUpstreamRequest
\* to write responses.
RequestBuilds(r) ==
    Current(r).native \/ Current(r).up \notin {want[r].in, "responses"}

-----------------------------------------------------------------------------

TypeOK ==
    /\ channels \in [Channel -> Configs]
    /\ groups \subseteq DOMAIN Group
    /\ want \in [Request -> Wants]
    /\ phase \in [Request -> Phases]
    /\ listed \in [Request -> [Channel -> Configs] \union {NoTable}]
    /\ cands \in [Request -> Seq(Candidate)]
    /\ k \in [Request -> Nat]
    /\ err \in [Request -> RowError]
    /\ sent \in [Request -> Seq(Candidate)]
    /\ tried \in [Request -> Seq(Candidate)]
    /\ reply \in [Request -> Seq(Reply)]
    /\ row \in [Request -> Seq(Row)]
    /\ gone \in [Request -> BOOLEAN]
    /\ open \subseteq Request

Init ==
    /\ channels \in [Channel -> Configs]
    /\ groups \in SUBSET DOMAIN Group
    /\ want \in [Request -> Wants]
    /\ phase = [r \in Request |-> "new"]
    /\ listed = [r \in Request |-> NoTable]
    /\ cands = [r \in Request |-> << >>]
    /\ k = [r \in Request |-> 0]
    /\ err = [r \in Request |-> "none"]
    /\ sent = [r \in Request |-> << >>]
    /\ tried = [r \in Request |-> << >>]
    /\ reply = [r \in Request |-> << >>]
    /\ row = [r \in Request |-> << >>]
    /\ gone = [r \in Request |-> FALSE]
    /\ open = {}

Goto(r, p) == phase' = [phase EXCEPT ![r] = p]
Write(r, status, by) == reply' = [reply EXCEPT ![r] = Append(@, [status |-> status, by |-> by])]

\* finish: one row, one completed event.
finish(r, by, m, e) == row' = [row EXCEPT ![r] = Append(@, [by |-> by, model |-> m, error |-> e])]

\* finish for the attempt in progress.
finishAttempt(r, e) == finish(r, Current(r).ch, Current(r).model, e)

-----------------------------------------------------------------------------
(* Up to the candidates *)

\* Handle begins; request.started is published.
Accept(r) ==
    /\ phase[r] = "new"
    /\ Goto(r, "list")
    /\ UNCHANGED <<tableVars, want, listed, cands, k, err, sent, tried, reply, row, gone, open>>

\* channels.ListEnabled: a snapshot (the rows that are not enabled are left out by
\* Usable).
ListEnabled(r) ==
    /\ phase[r] = "list"
    /\ listed' = [listed EXCEPT ![r] = channels]
    /\ Goto(r, "lookup")
    /\ UNCHANGED <<tableVars, want, cands, k, err, sent, tried, reply, row, gone, open>>

\* Either query fails: the client gets a 500, and that is all.
QueryError(r) ==
    /\ phase[r] \in {"list", "lookup"}
    /\ Write(r, "internal", NoOne)
    /\ Goto(r, "done")
    /\ listed' = [listed EXCEPT ![r] = NoTable]
    /\ UNCHANGED <<tableVars, want, cands, k, err, sent, tried, row, gone, open>>

\* lookupGroup and SelectCandidates.
Select(r) ==
    /\ phase[r] = "lookup"
    /\ \E s \in SelectCandidates(listed[r], want[r].in, want[r].model, lookupGroup(want[r].model)) :
          /\ cands' = [cands EXCEPT ![r] = s]
          /\ IF s = << >>
             THEN /\ Goto(r, "empty") /\ UNCHANGED k
             ELSE /\ Goto(r, "try") /\ k' = [k EXCEPT ![r] = 1]
    /\ listed' = [listed EXCEPT ![r] = NoTable]
    /\ UNCHANGED <<tableVars, want, err, sent, tried, reply, row, gone, open>>

NoCandidate(r) ==
    /\ phase[r] = "empty"
    /\ finish(r, NoOne, want[r].model, "no_channel")
    /\ err' = [err EXCEPT ![r] = "no_channel"]
    /\ Goto(r, "refuse")
    /\ UNCHANGED <<tableVars, want, listed, cands, k, sent, tried, reply, gone, open>>

-----------------------------------------------------------------------------
(* The candidate loop *)

\* An attempt on the current candidate.
Try(r) == tried' = [tried EXCEPT ![r] = Append(@, Current(r))]

\* The upstream is sent the request of the current candidate.
Send(r) ==
    /\ phase[r] = "try" /\ RequestBuilds(r)
    /\ sent' = [sent EXCEPT ![r] = Append(@, Current(r))]
    /\ Try(r)
    /\ Goto(r, "wait")
    /\ UNCHANGED <<tableVars, want, listed, cands, k, err, reply, row, gone, open>>

\* Mutant: the loop does not look at ctx.Err().
NextCandidateBlind(r) ==
    /\ IF k[r] < Len(cands[r])
       THEN /\ k' = [k EXCEPT ![r] = @ + 1] /\ Goto(r, "try") /\ UNCHANGED err
       ELSE /\ Goto(r, "exhausted") /\ err' = [err EXCEPT ![r] = "all_failed"] /\ UNCHANGED k
    /\ UNCHANGED <<tableVars, want, listed, cands, sent, reply, row, gone, open>>

\* Mutant: the last candidate is never tried.
NextCandidateButLast(r) ==
    /\ \/ /\ gone[r]
          /\ err' = [err EXCEPT ![r] = "gone"]
          /\ Goto(r, "exhausted") /\ UNCHANGED k
       \/ /\ ~gone[r] /\ k[r] + 1 < Len(cands[r])
          /\ k' = [k EXCEPT ![r] = @ + 1]
          /\ Goto(r, "try") /\ UNCHANGED err
       \/ /\ ~gone[r] /\ k[r] + 1 >= Len(cands[r])
          /\ err' = [err EXCEPT ![r] = "all_failed"]
          /\ Goto(r, "exhausted") /\ UNCHANGED k
    /\ UNCHANGED <<tableVars, want, listed, cands, sent, reply, row, gone, open>>

\* Mutant: a failed candidate is tried once more.
NextCandidateSame(r) ==
    /\ IF gone[r]
       THEN Goto(r, "exhausted") /\ err' = [err EXCEPT ![r] = "gone"]
       ELSE Goto(r, "try") /\ UNCHANGED err
    /\ UNCHANGED <<tableVars, want, listed, cands, k, sent, reply, row, gone, open>>

\* The attempt failed before anything was written: give up when the client has
\* left, else try the next candidate.
NextCandidate(r) ==
    /\ \/ /\ gone[r]
          /\ err' = [err EXCEPT ![r] = "gone"]
          /\ Goto(r, "exhausted") /\ UNCHANGED k
       \/ /\ ~gone[r] /\ k[r] < Len(cands[r])
          /\ k' = [k EXCEPT ![r] = @ + 1]
          /\ Goto(r, "try") /\ UNCHANGED err
       \/ /\ ~gone[r] /\ k[r] = Len(cands[r])
          /\ err' = [err EXCEPT ![r] = "all_failed"]
          /\ Goto(r, "exhausted") /\ UNCHANGED k
    /\ UNCHANGED <<tableVars, want, listed, cands, sent, reply, row, gone, open>>

\* The request cannot be built (conversion, bad base URL) or the connection fails.
SendFails(r) == phase[r] = "try" /\ Try(r) /\ NextCandidate(r)

\* A network error, a cut body, the timeout of the non-stream client, a cancelled
\* context or a status worth retrying.
AttemptFails(r) == phase[r] = "wait" /\ UNCHANGED tried /\ NextCandidate(r)

\* A status that is not worth retrying is the client's answer.
UpstreamRefuses(r) ==
    /\ phase[r] = "wait"
    /\ finishAttempt(r, "upstream_error")
    /\ err' = [err EXCEPT ![r] = "upstream_error"]
    /\ Goto(r, "refuse")
    /\ UNCHANGED <<tableVars, want, listed, cands, k, sent, tried, reply, gone, open>>

\* Non-stream, converted: the upstream's answer cannot be converted back.
ConvertResponseFails(r) ==
    /\ phase[r] = "wait" /\ ~want[r].stream /\ ~Current(r).native
    /\ finishAttempt(r, "conversion")
    /\ err' = [err EXCEPT ![r] = "conversion"]
    /\ Goto(r, "refuse")
    /\ UNCHANGED <<tableVars, want, listed, cands, k, sent, tried, reply, gone, open>>

\* Non-stream: the answer is written first, then logged.
RespondNonStream(r) ==
    /\ phase[r] = "wait" /\ ~want[r].stream
    /\ Write(r, "ok", Current(r).ch)
    /\ Goto(r, "log")
    /\ UNCHANGED <<tableVars, want, listed, cands, k, err, sent, tried, row, gone, open>>

\* Mutant: no return after a complete answer.
LogNonStreamFallsThrough(r) ==
    /\ phase[r] = "log"
    /\ finishAttempt(r, "none")
    /\ Goto(r, "exhausted")
    /\ UNCHANGED <<tableVars, want, listed, cands, k, err, sent, tried, reply, gone, open>>

\* Mutant: the row is made from the first candidate.
LogNonStreamNamesFirst(r) ==
    /\ phase[r] = "log"
    /\ finish(r, cands[r][1].ch, cands[r][1].model, "none")
    /\ Goto(r, "done")
    /\ UNCHANGED <<tableVars, want, listed, cands, k, err, sent, tried, reply, gone, open>>

LogNonStream(r) ==
    /\ phase[r] = "log"
    /\ finishAttempt(r, "none")
    /\ Goto(r, "done")
    /\ UNCHANGED <<tableVars, want, listed, cands, k, err, sent, tried, reply, gone, open>>

-----------------------------------------------------------------------------
(* Streaming *)

\* The header is written and a throughput session opened; from here on no other
\* candidate is tried.
Commit(r) ==
    /\ phase[r] = "wait" /\ want[r].stream
    /\ Write(r, "ok", Current(r).ch)
    /\ open' = open \union {r}
    /\ Goto(r, "stream")
    /\ UNCHANGED <<tableVars, want, listed, cands, k, err, sent, tried, row, gone>>

\* Mutant: a broken stream is booked like a request whose client never got anything.
StreamEndsAsGone(r) ==
    /\ phase[r] = "stream"
    /\ err' = [err EXCEPT ![r] = IF gone[r] THEN "gone" ELSE "none"]
    /\ Goto(r, "streamed")
    /\ UNCHANGED <<tableVars, want, listed, cands, k, sent, tried, reply, row, gone, open>>

\* The relay loop ends: at the upstream's end of stream, on a read error with the
\* client still there, or because the client is not there any more.
StreamEnds(r) ==
    /\ phase[r] = "stream"
    /\ \E e \in {"none", "stream_cut", "stream_left"} :
          /\ e = "stream_cut" => ~gone[r]
          /\ e = "stream_left" => gone[r]
          /\ err' = [err EXCEPT ![r] = e]
    /\ Goto(r, "streamed")
    /\ UNCHANGED <<tableVars, want, listed, cands, k, sent, tried, reply, row, gone, open>>

\* The row is written; the deferred StreamFinish closes the session.
LogStream(r) ==
    /\ phase[r] = "streamed"
    /\ finishAttempt(r, err[r])
    /\ open' = open \ {r}
    /\ Goto(r, "done")
    /\ UNCHANGED <<tableVars, want, listed, cands, k, err, sent, tried, reply, gone>>

-----------------------------------------------------------------------------
(* Refusals: logged first, then written *)

\* Every candidate failed, or the client left: the last attempt is logged.
Exhausted(r) ==
    /\ phase[r] = "exhausted"
    /\ finishAttempt(r, err[r])
    /\ Goto(r, "refuse")
    /\ UNCHANGED <<tableVars, want, listed, cands, k, err, sent, tried, reply, gone, open>>

\* writeJSONError or forwardErrorResponse.
Refuse(r) ==
    /\ phase[r] = "refuse"
    /\ IF err[r] = "upstream_error"
       THEN Write(r, "upstream_error", Current(r).ch)
       ELSE Write(r, IF err[r] = "gone" THEN "all_failed" ELSE err[r], NoOne)
    /\ Goto(r, "done")
    /\ UNCHANGED <<tableVars, want, listed, cands, k, err, sent, tried, row, gone, open>>

-----------------------------------------------------------------------------
(* The environment *)

ClientLeaves(r) ==
    /\ phase[r] \notin {"new", "done"} /\ ~gone[r]
    /\ gone' = [gone EXCEPT ![r] = TRUE]
    /\ UNCHANGED <<tableVars, want, phase, listed, cands, k, err, sent, tried, reply, row, open>>

\* ChannelService.Update, Delete (as disabled) and Probe.
EditChannel ==
    /\ \E c \in Channel, cfg \in Configs : channels' = [channels EXCEPT ![c] = cfg]
    /\ UNCHANGED <<groups, want, phase, listed, cands, k, err, sent, tried, reply, row, gone, open>>

\* CustomModelService.Create, Update and Delete, as far as a group is enabled.
EditGroups ==
    /\ groups' \in SUBSET DOMAIN Group
    /\ UNCHANGED <<channels, want, phase, listed, cands, k, err, sent, tried, reply, row, gone, open>>

\* What the goroutine of a request does by itself.
Proceed(r) ==
    \/ Accept(r) \/ ListEnabled(r) \/ QueryError(r) \/ Select(r) \/ NoCandidate(r)
    \/ Send(r) \/ SendFails(r) \/ LogNonStream(r) \/ LogStream(r)
    \/ Exhausted(r) \/ Refuse(r)

\* What it waits for the upstream to do.
Upstream(r) ==
    \/ AttemptFails(r) \/ UpstreamRefuses(r) \/ ConvertResponseFails(r)
    \/ RespondNonStream(r) \/ Commit(r) \/ StreamEnds(r)

Next ==
    \/ \E r \in Request : Proceed(r) \/ Upstream(r) \/ ClientLeaves(r)
    \/ EditChannel \/ EditGroups

Spec == Init /\ [][Next]_vars

-----------------------------------------------------------------------------
(* Fairness: goroutines are scheduled; the client of a non-stream request has *)
(* an overall timeout; a cancelled context ends what waits for the upstream.  *)
(* Nothing says that an upstream ever ends a stream, or answers the request   *)
(* for one.                                                                   *)

\* Mutants: the upstream request does not carry the client's context; a client
\* without a timeout.
NotCancelled(r) == FALSE /\ r = r
Cancelled(r) == gone[r] /\ (AttemptFails(r) \/ StreamEnds(r))
TimesOut(r) == ~want[r].stream /\ AttemptFails(r)

Fairness ==
    \A r \in Request :
        /\ WF_vars(phase[r] # "new" /\ Proceed(r))
        /\ WF_vars(TimesOut(r))
        /\ WF_vars(Cancelled(r))

FairSpec == Spec /\ Fairness

-----------------------------------------------------------------------------
(* Properties *)

\* A request whose handling is over has one answer and, unless a query failed
\* before there was a candidate, one row; nothing is ever answered or logged twice
\* (Handle's returns; finish is called from six places).
OneAnswerOneRow ==
    \A r \in Request :
        /\ Len(reply[r]) <= 1 /\ Len(row[r]) <= 1
        /\ phase[r] = "done" =>
              /\ Len(reply[r]) = 1
              /\ Len(row[r]) = 0 => reply[r][1].status = "internal"

\* Once the client has been written to, no further upstream is asked and nothing
\* more is written as an answer (the contract of Handle, committed).
NothingAfterAnswer ==
    [][\A r \in Request :
          reply[r] # << >> => UNCHANGED <<sent[r], reply[r], cands[r], k[r]>>]_vars

\* The row tells the truth about the answer: the channel the bytes came from and
\* the model it was asked for; no error only where an answer was begun, and an error
\* beside a begun answer only where its stream broke off.  (That the last bytes fail
\* to reach the client is no error in the code.)
RowMatchesAnswer ==
    \A r \in Request :
        row[r] # << >> /\ reply[r] # << >> =>
            LET w == row[r][1]
                a == reply[r][1]
            IN /\ a.by # NoOne => /\ w.by = a.by
                                  /\ sent[r] # << >>
                                  /\ LET last == sent[r][Len(sent[r])]
                                     IN last.ch = w.by /\ last.model = w.model
               /\ w.error = "none" => a.status = "ok"
               /\ a.status = "ok" => w.error \in {"none", "stream_cut", "stream_left"}

\* The candidates are attempted in their order, none skipped and none twice, and
\* "all channels failed" is said when the last one was (the loop of Handle).  An
\* attempt at which no request could be built or sent counts: it is not in sent.
NoStoneUnturned ==
    \A r \in Request :
        /\ IsPrefix(tried[r], cands[r])
        /\ err[r] = "all_failed" => tried[r] = cands[r]

\* No upstream is asked twice for one request.
NoUpstreamTwice ==
    \A r \in Request : \A i, j \in DOMAIN sent[r] : i # j => sent[r][i] # sent[r][j]

\* A client that has left costs no further upstream call: when an attempt fails
\* after the disconnection, the next candidate is not asked.
NoWorkForTheGone ==
    [][\A r \in Request : gone[r] /\ phase[r] = "wait" => phase'[r] # "try"]_vars

\* The number of open throughput sessions is that of the streams being relayed:
\* every StreamBegin is followed by its StreamFinish, whatever ends the stream.
SessionsAreStreams ==
    open = {r \in Request : phase[r] \in {"stream", "streamed"}}

\* A request ends and is logged: one that is not a stream whatever its upstreams
\* do, any other when its client leaves, even if the upstream hangs (Handle).
RequestsEnd ==
    \A r \in Request :
        /\ phase[r] # "new" /\ ~want[r].stream ~> phase[r] = "done"
        /\ gone[r] ~> phase[r] = "done"

GatewayErrors == {"no_channel", "all_failed", "gone", "conversion"}

\* Who the client hears from, and who the log holds responsible.
AnswerOf(replies) ==
    IF replies = << >> THEN "pending"
    ELSE IF replies[1].by = NoOne THEN "refused" ELSE replies[1].by
AccountOf(rows) ==
    IF rows = << >> THEN "pending"
    ELSE IF rows[1].error \in GatewayErrors THEN "refused" ELSE rows[1].by

Contract == INSTANCE GatewayContract WITH
    asked <- {r \in Request : phase[r] # "new"},
    answer <- [r \in Request |-> AnswerOf(reply[r])],
    account <- [r \in Request |-> AccountOf(row[r])]

\* The gateway keeps its promise to clients and to the books: Handle implements
\* GatewayContract.
KeepsContract == Contract!Spec

-----------------------------------------------------------------------------
(* What comments say and the code does not do *)

\* executor.go:137-138 (a failure before any byte was written to the client means
\* the next candidate is tried): the gateway's own failures end a request only when
\* no candidate is left.
FailsOverBeforeBytes ==
    \A r \in Request :
        err[r] = "conversion" => k[r] = Len(cands[r])

\* selector.go:22-23 (channels that only fail at run time are excluded): a request
\* can be built for every candidate.
CandidatesBuild ==
    \A r \in Request : phase[r] = "try" => RequestBuilds(r)
=============================================================================
