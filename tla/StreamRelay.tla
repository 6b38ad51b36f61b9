---------------------------- MODULE StreamRelay ----------------------------
(***************************************************************************)
(* handleStream of internal/gateway/executor.go from the moment the         *)
(* upstream has answered 200: reads of any size go through the splitter to  *)
(* the converter, whose events go to the client, and to the throughput      *)
(* tracker, while its ticker and other requests run.  The upstream may stop *)
(* or break anywhere, and the client may leave at any moment.               *)
(***************************************************************************)
EXTENDS SSESplitter, Throughput

CONSTANTS
    Jobs,     \* Stream: what may be relayed on it
    ReadSize, \* Stream: how many bytes a read may return
    Adds      \* the tokens of the non-stream requests that complete, one after another

ASSUME StreamRelayAssumption ==
    /\ \A s \in Stream : \A job \in Jobs[s] :
        /\ job.client \in {"chat", "messages", "responses", "native"} \ {job.up}
        /\ job.up \in {"chat", "messages", "responses"}
        /\ job.script \in Seq(Range(job.script))
        /\ \A i \in DOMAIN job.script : IsPayload(job.script[i])
    /\ \A s \in Stream : ReadSize[s] \subseteq Nat
    /\ Adds \in Seq(Nat \ {0})

VARIABLES
    job,      \* Stream: what is relayed
    phase,    \* where handleStream is
    pos,      \* the bytes read so far
    buf,      \* those of the last read that Write has not gone through
    splitter, conv,
    end,      \* how the upstream's stream ended
    gone,     \* the client has left, and ctx is cancelled
    recorded, \* log.CompletionTokens of the row saved
    added     \* how many non-stream requests have completed

relayVars == <<job, phase, pos, buf, splitter, conv, end, gone, recorded, added>>
vars == <<relayVars, throughputVars>>

\* The bytes of event i of a stream; messages and responses name the event, and
\* a job may break its JSON into two data lines.
EventBytes(j, i) ==
    (IF j.up = "chat" THEN << >> ELSE <<Field, Newline>>)
    \o <<Data, <<i, 1>> >> \o (IF j.twoLines THEN <<Newline, Data>> ELSE << >>)
    \o << <<i, 2>>, Newline, Newline>>

Wire(j) ==
    FlattenSeq([i \in DOMAIN j.script |-> EventBytes(j, i)])
    \o (IF j.up = "chat" THEN <<Data, Done, Newline, Newline>> ELSE << >>)

TypeOK ==
    /\ ThroughputTypeOK
    /\ \A s \in Stream : job[s] \in Jobs[s]
    /\ phase \in [Stream -> {"new", "relay", "closing", "saved", "done"}]
    /\ \A s \in Stream : pos[s] \in 0..Len(Wire(job[s]))
    /\ end \in [Stream -> {"none", "eof", "cut", "left"}]
    /\ gone \in [Stream -> BOOLEAN]
    /\ recorded \in [Stream -> Int]
    /\ added \in 0..Len(Adds)

Init ==
    /\ job \in {j \in [Stream -> UNION Range(Jobs)] : \A s \in Stream : j[s] \in Jobs[s]}
    /\ phase = [s \in Stream |-> "new"]
    /\ pos = [s \in Stream |-> 0]
    /\ buf = [s \in Stream |-> << >>]
    /\ splitter = [s \in Stream |-> NewSplitter]
    /\ conv = [s \in Stream |-> NewConverter(job[s].client, job[s].up)]
    /\ end = [s \in Stream |-> "none"]
    /\ gone = [s \in Stream |-> FALSE]
    /\ recorded = [s \in Stream |-> None]
    /\ added = 0
    /\ ThroughputInit
-----------------------------------------------------------------------------
Native(s) == job[s].client = "native"
Reading(s) == phase[s] = "relay" /\ buf[s] = << >> /\ end[s] = "none"

\* The header is written and the session opened.
Begin(s) ==
    /\ phase[s] = "new"
    /\ phase' = [phase EXCEPT ![s] = "relay"]
    /\ StreamBegin(s)
    /\ UNCHANGED <<job, pos, buf, splitter, conv, end, gone, recorded, added>>

\* resp.Body.Read returns bytes, which a passthrough forwards at once.
Read(s) ==
    /\ Reading(s)
    /\ \E n \in ReadSize[s] :
        /\ pos[s] + n <= Len(Wire(job[s]))
        /\ pos' = [pos EXCEPT ![s] = @ + n]
        /\ buf' = [buf EXCEPT ![s] = SubSeq(Wire(job[s]), pos[s] + 1, pos[s] + n)]
    /\ UNCHANGED <<job, phase, splitter, conv, end, gone, recorded, added, throughputVars>>

\* A passthrough whose write fails gives up what it has read.
WriteFails(s) ==
    /\ Reading(s) /\ Native(s) /\ gone[s]
    /\ pos[s] < Len(Wire(job[s]))
    /\ end' = [end EXCEPT ![s] = "left"]
    /\ UNCHANGED <<job, phase, pos, buf, splitter, conv, gone, recorded, added, throughputVars>>

\* resp.Body.Read returns io.EOF, or another error: the client's when it has left.
ReadEnds(s) ==
    /\ Reading(s)
    /\ \E how \in {"eof", IF gone[s] THEN "left" ELSE "cut"} : end' = [end EXCEPT ![s] = how]
    /\ UNCHANGED <<job, phase, pos, buf, splitter, conv, gone, recorded, added, throughputVars>>

\* The splitter's callback: the converter is fed, its events are written, and
\* the tokens so far are reported.
Callback(s, payloads) ==
    IF payloads = << >> THEN UNCHANGED <<conv, throughputVars>>
    ELSE LET fed == Feed(conv[s], payloads[1]) IN
         /\ conv' = [conv EXCEPT ![s] = fed]
         /\ StreamUpdate(s, EstimateTokens(fed.text \o fed.args))

\* One round of SSESplitter.Write.
WriteLine(s) ==
    /\ phase[s] = "relay" /\ buf[s] # << >>
    /\ LET n == newlineIn(buf[s])
           line == [splitter[s] EXCEPT !.line = @ \o (IF n = 0 THEN buf[s] ELSE SubSeq(buf[s], 1, n - 1))]
       IN  IF n = 0
           THEN /\ splitter' = [splitter EXCEPT ![s] = line]
                /\ buf' = [buf EXCEPT ![s] = << >>]
                /\ UNCHANGED <<conv, throughputVars>>
           ELSE /\ splitter' = [splitter EXCEPT ![s] = handleLine(line)]
                /\ buf' = [buf EXCEPT ![s] = SubSeq(@, n + 1, Len(@))]
                /\ Callback(s, lineYields(line, job[s].script))
    /\ UNCHANGED <<job, phase, pos, end, gone, recorded, added>>

Flush(s) ==
    /\ phase[s] = "relay" /\ buf[s] = << >> /\ end[s] # "none"
    /\ phase' = [phase EXCEPT ![s] = "closing"]
    /\ splitter' = [splitter EXCEPT ![s] = flush(@)]
    /\ Callback(s, flushYields(splitter[s], job[s].script))
    /\ UNCHANGED <<job, pos, buf, end, gone, recorded, added>>

\* The closing events are written unless the client broke the stream off, and
\* the row is saved.
Close(s) ==
    /\ phase[s] = "closing"
    /\ phase' = [phase EXCEPT ![s] = "saved"]
    /\ conv' = IF end[s] = "left" THEN conv ELSE [conv EXCEPT ![s] = Finalize(@)]
    /\ recorded' = [recorded EXCEPT ![s] = Completion(conv[s])]
    /\ UNCHANGED <<job, pos, buf, splitter, end, gone, added, throughputVars>>

\* The deferred StreamFinish.
FinishSession(s) ==
    /\ phase[s] = "saved"
    /\ phase' = [phase EXCEPT ![s] = "done"]
    /\ StreamFinish(s, recorded[s])
    /\ UNCHANGED <<job, pos, buf, splitter, conv, end, gone, recorded, added>>

ClientLeaves(s) ==
    /\ phase[s] = "relay" /\ ~gone[s]
    /\ gone' = [gone EXCEPT ![s] = TRUE]
    /\ UNCHANGED <<job, phase, pos, buf, splitter, conv, end, recorded, added, throughputVars>>

\* A non-stream request completes.
Add ==
    /\ added < Len(Adds)
    /\ added' = added + 1
    /\ AddTokens(Adds[added + 1])
    /\ UNCHANGED <<job, phase, pos, buf, splitter, conv, end, gone, recorded>>

Tick == rotate /\ UNCHANGED relayVars

Next ==
    \/ \E s \in Stream : Begin(s) \/ Read(s) \/ WriteFails(s) \/ ReadEnds(s) \/ ClientLeaves(s)
    \/ \E s \in Stream : WriteLine(s) \/ Flush(s) \/ Close(s) \/ FinishSession(s)
    \/ Add
    \/ Tick

Spec == Init /\ [][Next]_vars

\* The ticker ticks.  Nothing makes an upstream send, or end its stream.
FairSpec == Spec /\ WF_vars(Tick)
-----------------------------------------------------------------------------
(* What the client and the records are owed *)

Ended(s) == phase[s] \in {"saved", "done"} /\ end[s] # "left"

\* The payloads the splitter has had all bytes of: with the blank line that ends
\* the event, or without it once the stream is flushed.
Heard(s) ==
    LET bytes(i) == Len(FlattenSeq([k \in 1..i |-> EventBytes(job[s], k)]))
        slack == IF phase[s] \in {"new", "relay"} THEN 0 ELSE 2
        whole == {i \in DOMAIN job[s].script : bytes(i) - slack <= pos[s] - Len(buf[s])}
    IN  SubSeq(job[s].script, 1, Cardinality(whole))

\* What the events of a kind say of one call, block or item.
SaidIn(out, ev, at) ==
    FlattenSeq([i \in DOMAIN out |-> IF out[i].ev = ev /\ out[i].at = at THEN out[i].say ELSE << >>])

Saying(s, ev, at) == SaidIn(conv[s].out, ev, at)

\* The tool events of the payloads, and the calls they announce.
ToolEvents(payloads) == FlattenSeq([i \in DOMAIN payloads |-> extractToolEvents(payloads[i])])
StartsIn(said, i, key) == said[i].kind = "start" /\ said[i].key = key
Calls(said) == {said[i].key : i \in {k \in DOMAIN said : said[k].kind = "start"}}

\* The text of the payloads, which messages puts into deltas of blocks only; a
\* messages client is owed none after the first tool call.
TextOf(p, up) == IF p = Torn \/ (up = "messages" /\ p.type # "content_block_delta") THEN << >> ELSE p.text

OwedText(payloads, client, up) ==
    FlattenSeq([i \in DOMAIN payloads |->
        IF client = "messages" /\ Calls(ToolEvents(SubSeq(payloads, 1, i))) # {} THEN << >>
        ELSE TextOf(payloads[i], up)])

\* The arguments of a call once it has been announced.
OwedArgs(said, key) ==
    FlattenSeq([i \in DOMAIN said |->
        IF said[i].kind = "args" /\ said[i].key = key /\ \E k \in 1..(i - 1) : StartsIn(said, k, key)
        THEN said[i].args ELSE << >>])

\* However reads cut the bytes and whatever the upstream sends, a converted
\* stream carries exactly the text and, call by call, the arguments of the
\* events read whole: nothing is lost, repeated, reordered or mixed up between
\* calls.
Faithful ==
    \A s \in Stream : ~Native(s) =>
        LET said == ToolEvents(Heard(s)) IN
        /\ Saying(s, "text", IF conv[s].client = "responses" THEN conv[s].msgOut ELSE 0)
             = OwedText(Heard(s), job[s].client, job[s].up)
        /\ DOMAIN conv[s].tools = Calls(said)
        /\ \A key \in DOMAIN conv[s].tools : Saying(s, "args", conv[s].tools[key]) = OwedArgs(said, key)

\* How many of the events before the i-th are of a kind, and of all written.
Before(out, i, ev) == Cardinality({k \in 1..(i - 1) : out[k].ev = ev})
Times(out, ev) == Before(out, Len(out) + 1, ev)

\* What the i-th event is about has been opened and not been closed since.
InsideOf(out, i, at, open, close) ==
    \E k \in 1..(i - 1) :
        /\ out[k].ev = open /\ out[k].at = at
        /\ \A l \in (k + 1)..(i - 1) : out[l].ev = close => out[l].at # at

\* Things opened are numbered from 0 in order, and what is said of one lies
\* between its opening and its closing.
Bracketed(out, open, inside, close) ==
    \A i \in DOMAIN out :
        /\ out[i].ev = open => out[i].at = Before(out, i, open)
        /\ out[i].ev \in inside \union {close} => InsideOf(out, i, out[i].at, open, close)

\* A chat client sees each call announced before its arguments, and at the end a
\* reason, the usage and [DONE], once each and in that order.
ChatFramed ==
    \A s \in Stream : job[s].client = "chat" =>
        LET out == conv[s].out IN
        /\ Bracketed(out, "call", {"args"}, "none")
        /\ IF Ended(s)
           THEN /\ [i \in 1..3 |-> out[Len(out) - 3 + i].ev] = <<"finish", "usage", "done">>
                /\ Times(out, "finish") = 1 /\ Times(out, "usage") = 1 /\ Times(out, "done") = 1
           ELSE Times(out, "finish") = 0

\* A messages client that got anything sees message_start first, one content
\* block at a time, text inside its block, the arguments of a call inside its
\* block (after its start, when another block has been started since: to those
\* that come late for a call the converter does not look), and all blocks closed
\* before the message is, also when the upstream broke off in the middle of one.
MessagesFramed ==
    \A s \in Stream : job[s].client = "messages" /\ conv[s].started =>
        LET out == conv[s].out IN
        /\ out[1].ev = "message_start" /\ Times(out, "message_start") = 1
        /\ Bracketed(out, "block_start", {"text"}, "block_stop")
        /\ \A i \in DOMAIN out :
             /\ out[i].ev = "block_start" => Before(out, i, "block_start") = Before(out, i, "block_stop")
             /\ out[i].ev = "args" => InsideOf(out, i, out[i].at, "block_start", "none")
             /\ out[i].ev = "args" /\ Before(out, i, "block_start") = out[i].at + 1
                  => InsideOf(out, i, out[i].at, "block_start", "block_stop")
        /\ Ended(s) =>
             /\ Times(out, "block_start") = Times(out, "block_stop")
             /\ [i \in 1..2 |-> out[Len(out) - 2 + i].ev] = <<"finish", "done">>

\* A responses client sees items announced in order, what is said of one inside
\* it, items closed in the order they were announced with all that was said of
\* them, and one terminal event, the last.
ResponsesFramed ==
    \A s \in Stream : job[s].client = "responses" /\ conv[s].started =>
        LET out == conv[s].out IN
        /\ out[1].ev = "created" /\ out[2].ev = "in_progress"
        /\ Bracketed(out, "item_added", {"part_added", "text", "text_done", "part_done", "args", "args_done"}, "item_done")
        /\ \A i \in DOMAIN out :
             /\ out[i].ev = "text" => Before(out, i, "part_added") = 1
             /\ out[i].ev = "item_done" => out[i].at = Before(out, i, "item_done")
             /\ out[i].ev = "text_done" => out[i].say = Saying(s, "text", out[i].at)
             /\ out[i].ev = "args_done" => out[i].say = Saying(s, "args", out[i].at)
        /\ IF Ended(s)
           THEN /\ out[Len(out)].ev = "finish" /\ Times(out, "finish") = 1
                /\ Times(out, "item_done") = Times(out, "item_added")
           ELSE Times(out, "finish") = 0

\* What every client SDK insists on.
Framed == ChatFramed /\ MessagesFramed /\ ResponsesFramed

\* The last reason the upstream gave for its end.
LastFinish(payloads, up) ==
    LET given == {i \in DOMAIN payloads :
            /\ payloads[i] # Torn /\ payloads[i].finish # ""
            /\ up = "messages" => payloads[i].type = "message_delta"}
    IN  IF given = {} THEN "" ELSE payloads[Max(given)].finish

\* A client is told of a truncation exactly when that is what the upstream said
\* last, and otherwise of a tool call exactly when there was one or the upstream
\* stopped for one.
ReasonKept ==
    \A s \in Stream : ~Native(s) =>
        LET last == LastFinish(Heard(s), job[s].up)
            cut == last \in {"length", "max_tokens"}
            called == Calls(ToolEvents(Heard(s))) # {} \/ last \in {"tool_calls", "tool_use"}
        IN  \A e \in Range(conv[s].out) : e.ev = "finish" =>
                /\ cut <=> e.say \in {"length", "max_tokens", "incomplete"}
                /\ job[s].client # "responses" => ((called /\ ~cut) <=> e.say \in {"tool_calls", "tool_use"})

\* Output that reached the gateway is never recorded as no tokens at all.
OutputRecorded ==
    \A s \in Stream : ~Native(s) /\ recorded[s] # None =>
        (conv[s].text \o conv[s].args # << >> => recorded[s] > 0)

\* README.zh-CN.md: usage the upstream did not report is estimated.  Of a
\* passthrough too.
UnreportedEstimated ==
    \A s \in Stream : recorded[s] # None =>
        (conv[s].text \o conv[s].args # << >> /\ (\A p \in Range(Heard(s)) : p.usage <= 0) => recorded[s] > 0)

\* convert_stream_test.go: sequence numbers increase without a gap.
SequenceIncreasing ==
    \A s \in Stream : job[s].client = "responses" /\ Ended(s) =>
        \A i \in DOMAIN conv[s].out : conv[s].out[i].seq = i - 1

\* When all streams have ended, the rate shown returns to zero, whatever was
\* corrected after its estimate had left the window.
RateSettles ==
    (\A s \in Stream : phase[s] = "done") /\ added = Len(Adds) ~> rate = 0
=============================================================================
