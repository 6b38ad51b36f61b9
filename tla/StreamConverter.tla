-------------------------- MODULE StreamConverter --------------------------
(***************************************************************************)
(* The converters and usage parsers of a stream: convert_stream.go and      *)
(* usage.go of internal/provider.  A converter is fed the data payloads of  *)
(* the upstream's protocol one by one and yields the events of the          *)
(* client's protocol, then the closing ones.  All of it is functions of the *)
(* converter's record; StreamRelay holds one for each stream.               *)
(*                                                                          *)
(* A text is the sequence of its pieces, a piece being one token.  Ids,     *)
(* names, models and the constant fields of the events are left out.        *)
(***************************************************************************)
EXTENDS Integers, SequencesExt

CONSTANTS Piece, Key, Torn

None == -1   \* no usage, no block open, no message item

Finish == {"", "stop", "length", "tool_calls", "end_turn", "max_tokens", "tool_use"}

\* An upstream payload.  calls: the tool calls of a chat chunk, in order; key:
\* the call an event of the other protocols is about; usage: the completion
\* tokens it reports.
Blank == [type |-> "chat", calls |-> << >>, key |-> "", text |-> << >>, args |-> << >>,
          finish |-> "", usage |-> None]

IsPayload(p) ==
    p = Torn \/
    /\ DOMAIN p = DOMAIN Blank
    /\ p.type \in {"chat", "message_start", "content_block_start", "content_block_delta",
                   "message_delta", "response.output_item.added", "response.output_text.delta",
                   "response.function_call_arguments.delta", "response.completed"}
    /\ p.calls \in Seq([key : Key, named : BOOLEAN, args : Seq(Piece)])
    /\ p.key \in Key \union {""} /\ p.text \in Seq(Piece) /\ p.args \in Seq(Piece)
    /\ p.finish \in Finish /\ p.usage \in Nat \union {None}

EstimateTokens(text) == IF text = << >> THEN 0 ELSE Len(text) + 2
-----------------------------------------------------------------------------
(* What the upstream has said: the parser, and the tool events of a payload *)

ToolEvent(kind, key, args) == [kind |-> kind, key |-> key, args |-> args]

extractToolEvents(p) ==
    IF p = Torn THEN << >>
    ELSE IF p.type = "chat" THEN
        FlattenSeq([i \in DOMAIN p.calls |->
            LET tc == p.calls[i] IN
            (IF tc.named THEN <<ToolEvent("start", tc.key, << >>)>> ELSE << >>)
            \o (IF tc.args # << >> THEN <<ToolEvent("args", tc.key, tc.args)>> ELSE << >>)])
    ELSE IF p.type \in {"content_block_start", "response.output_item.added"} /\ p.key # "" THEN
        <<ToolEvent("start", p.key, << >>)>>
    ELSE IF p.type \in {"content_block_delta", "response.function_call_arguments.delta"} /\ p.args # << >> THEN
        <<ToolEvent("args", p.key, p.args)>>
    ELSE << >>

\* chat: the tool events carry the arguments a payload adds to ArgsText.
ArgsOf(p) == FlattenSeq([i \in DOMAIN p.calls |-> p.calls[i].args]) \o p.args

openaiFeed(c, p) ==
    [c EXCEPT !.text = @ \o p.text,
              !.args = @ \o ArgsOf(p),
              !.finish = IF p.finish # "" THEN p.finish ELSE @,
              !.usage = IF p.usage # None THEN p.usage ELSE @]

\* message_start reports the prompt's tokens only, message_delta the output's.
anthropicFeed(c, p) ==
    CASE p.type = "content_block_delta" -> [c EXCEPT !.text = @ \o p.text, !.args = @ \o p.args]
      [] p.type = "message_start" /\ p.usage # None -> [c EXCEPT !.usage = IF @ = None THEN 0 ELSE @]
      [] p.type = "message_delta" -> [c EXCEPT !.finish = IF p.finish # "" THEN p.finish ELSE @,
                                               !.usage = IF p.usage # None THEN p.usage ELSE @]
      [] OTHER -> c

\* StreamUsageParser.Feed: a payload that is not JSON is skipped.
parse(c, p) ==
    IF p = Torn THEN c ELSE IF c.up = "messages" THEN anthropicFeed(c, p) ELSE openaiFeed(c, p)

upstreamFinish(c) ==
    CASE c.finish \in {"max_tokens", "length"} -> "length"
      [] c.finish \in {"tool_use", "tool_calls"} -> "tool_calls"
      [] c.finish \in {"end_turn", "stop", ""} -> "stop"

\* Mutant: a zero is taken for a report.
finalizeUsageZero(c) == IF c.usage # None THEN c.usage ELSE EstimateTokens(c.text \o c.args)

\* A completion the upstream reported as zero, or not at all, is estimated.
finalizeUsage(c) ==
    IF c.usage \notin {None, 0} THEN c.usage ELSE EstimateTokens(c.text \o c.args)

\* A completion it did not report at all is: what a passthrough records.
parserUsage(c) ==
    IF c.usage # None THEN c.usage ELSE EstimateTokens(c.text \o c.args)

mapStop(reason) ==
    CASE reason = "length" -> "max_tokens" [] reason = "tool_calls" -> "tool_use" [] OTHER -> "end_turn"
-----------------------------------------------------------------------------
(* The converter's record, and how it writes *)

\* NewStreamConverter, and for a passthrough NewStreamParser: out: the events
\* written so far; emitted: the pieces of text among them; tools: the index
\* given to each call, next: the next one; textOpen, openTool: the blocks of
\* messages that are open (openTool has Go's zero value until the first
\* payload); msgOut, part: the message item of responses; callArgs: the
\* arguments of its calls; seq: its sequence number.
NewConverter(client, up) ==
    [client |-> client, up |-> up, started |-> FALSE, out |-> << >>,
     text |-> << >>, args |-> << >>, emitted |-> 0, finish |-> "", usage |-> None,
     tools |-> << >>, next |-> 0, textOpen |-> FALSE, openTool |-> 0,
     msgOut |-> None, part |-> FALSE, callArgs |-> << >>, seq |-> 0]

AnyTool(c) == DOMAIN c.tools # {}

\* An event: its kind, the index of the call, block or item it is about, what
\* it says (pieces, or a reason), and for responses its sequence number.
Event(ev, at, say) == [ev |-> ev, at |-> at, say |-> say, seq |-> None]

Emit(c, events) == [c EXCEPT !.out = @ \o events]

\* Events of responses are numbered when they are built.
Numbered(c, events) == [i \in DOMAIN events |-> [events[i] EXCEPT !.seq = c.seq + i - 1]]
EmitNumbered(c, events) ==
    [Emit(c, Numbered(c, events)) EXCEPT !.seq = @ + Len(events)]

\* pending: the text parsed and not yet written.
Suffix(c) == SubSeq(c.text, c.emitted + 1, Len(c.text))
Taken(c) == [c EXCEPT !.emitted = Len(c.text)]

\* A map with one more entry.
With(map, key, v) == [k \in DOMAIN map \union {key} |-> IF k = key THEN v ELSE map[k]]

Announce(c, key) == [c EXCEPT !.tools = With(c.tools, key, c.next), !.next = @ + 1]
-----------------------------------------------------------------------------
(* Client: chat/completions *)

chatTool(c, e) ==
    IF e.kind = "start" THEN
        IF e.key \in DOMAIN c.tools THEN c
        ELSE Emit(Announce(c, e.key), <<Event("call", c.next, << >>)>>)
    ELSE IF e.key \in DOMAIN c.tools THEN Emit(c, <<Event("args", c.tools[e.key], e.args)>>)
    ELSE c

chatText(c) ==
    IF Suffix(c) = << >> THEN c ELSE Taken(Emit(c, <<Event("text", 0, Suffix(c))>>))

chatHead(c) == [c EXCEPT !.started = TRUE]

chatReason(c) ==
    IF upstreamFinish(c) = "stop" /\ AnyTool(c) THEN "tool_calls" ELSE upstreamFinish(c)

chatFinalize(c) ==
    Emit(chatText(c), <<Event("finish", 0, chatReason(c)), Event("usage", 0, finalizeUsage(c)),
                        Event("done", 0, << >>)>>)
-----------------------------------------------------------------------------
(* Client: messages *)

messagesHead(c) ==
    IF c.started THEN c
    ELSE [Emit(c, <<Event("message_start", 0, << >>), Event("block_start", 0, "text")>>)
            EXCEPT !.started = TRUE, !.textOpen = TRUE, !.openTool = None, !.next = 1]

\* Mutant: the block of the call before is left open.
messagesToolNested(c, e) ==
    IF e.kind = "start" THEN
        IF e.key \in DOMAIN c.tools THEN c
        ELSE Emit([Announce(c, e.key) EXCEPT !.textOpen = FALSE, !.openTool = c.next],
                  (IF c.textOpen THEN <<Event("block_stop", 0, << >>)>> ELSE << >>)
                  \o <<Event("block_start", c.next, "tool")>>)
    ELSE IF e.key \in DOMAIN c.tools THEN Emit(c, <<Event("args", c.tools[e.key], e.args)>>)
    ELSE c

\* Blocks are open one at a time.
messagesTool(c, e) ==
    IF e.kind = "start" THEN
        IF e.key \in DOMAIN c.tools THEN c
        ELSE Emit([Announce(c, e.key) EXCEPT !.textOpen = FALSE, !.openTool = c.next],
                  (IF c.textOpen THEN <<Event("block_stop", 0, << >>)>> ELSE << >>)
                  \o (IF c.openTool >= 0 THEN <<Event("block_stop", c.openTool, << >>)>> ELSE << >>)
                  \o <<Event("block_start", c.next, "tool")>>)
    ELSE IF e.key \in DOMAIN c.tools THEN Emit(c, <<Event("args", c.tools[e.key], e.args)>>)
    ELSE c

\* Text that follows a tool call is dropped.
messagesText(c) ==
    IF Suffix(c) # << >> /\ ~AnyTool(c) THEN Taken(Emit(c, <<Event("text", 0, Suffix(c))>>)) ELSE Taken(c)

\* Mutant: a call hides that the output was truncated.
messagesReasonCall(c) == IF AnyTool(c) THEN "tool_use" ELSE mapStop(upstreamFinish(c))

messagesReason(c) ==
    IF AnyTool(c) /\ mapStop(upstreamFinish(c)) # "max_tokens" THEN "tool_use" ELSE mapStop(upstreamFinish(c))

messagesFinalize(c) ==
    LET t == messagesText(c) IN
    Emit([t EXCEPT !.openTool = None, !.textOpen = FALSE],
         (IF t.openTool >= 0 THEN <<Event("block_stop", t.openTool, << >>)>>
          ELSE IF t.textOpen \/ ~AnyTool(t) THEN <<Event("block_stop", 0, << >>)>>
          ELSE << >>)
         \o <<Event("finish", finalizeUsage(t), messagesReason(t)), Event("done", 0, << >>)>>)
-----------------------------------------------------------------------------
(* Client: responses *)

responsesHead(c) ==
    IF c.started THEN c
    ELSE [EmitNumbered(c, <<Event("created", 0, << >>), Event("in_progress", 0, << >>)>>)
            EXCEPT !.started = TRUE]

responsesTool(c, e) ==
    IF e.kind = "start" THEN
        IF e.key \in DOMAIN c.tools THEN c
        ELSE EmitNumbered([Announce(c, e.key) EXCEPT !.callArgs = With(c.callArgs, e.key, << >>)],
                          <<Event("item_added", c.next, "call")>>)
    ELSE IF e.key \in DOMAIN c.tools THEN
        EmitNumbered([c EXCEPT !.callArgs[e.key] = @ \o e.args], <<Event("args", c.tools[e.key], e.args)>>)
    ELSE c

\* The message item is announced with the first text.
ensureMsg(c) ==
    IF c.msgOut # None THEN c
    ELSE EmitNumbered([c EXCEPT !.msgOut = c.next, !.next = @ + 1], <<Event("item_added", c.next, "message")>>)

ensurePart(c) ==
    IF c.part THEN c
    ELSE EmitNumbered([c EXCEPT !.part = TRUE], <<Event("part_added", c.msgOut, << >>)>>)

responsesText(c) ==
    IF Suffix(c) = << >> THEN c
    ELSE LET t == ensurePart(ensureMsg(c))
         IN  Taken(EmitNumbered(t, <<Event("text", t.msgOut, Suffix(t))>>))

messageCloser(c) ==
    IF c.msgOut = None THEN << >>
    ELSE (IF c.part THEN <<Event("text_done", c.msgOut, c.text), Event("part_done", c.msgOut, c.text)>> ELSE << >>)
         \o <<Event("item_done", c.msgOut, IF upstreamFinish(c) = "length" THEN "incomplete" ELSE "completed")>>

\* Events are numbered when they are built: the message's first, then the calls'
\* in their order.
callCloser(c, key) ==
    LET at == c.tools[key]
        earlier == Cardinality({k \in DOMAIN c.tools : c.tools[k] < at})
    IN  Numbered([c EXCEPT !.seq = @ + Len(messageCloser(c)) + 2 * earlier],
                 <<Event("args_done", at, c.callArgs[key]), Event("item_done", at, "completed")>>)

itemCloser(c, i) ==
    IF i = c.msgOut THEN Numbered(c, messageCloser(c))
    ELSE callCloser(c, CHOOSE key \in DOMAIN c.tools : c.tools[key] = i)

\* What is written to close the items, in this order.
EmitClosing(c, events) ==
    [Emit(c, events) EXCEPT !.seq = @ + Len(messageCloser(c)) + 2 * Cardinality(DOMAIN c.tools)]

\* All items are closed in the order they were announced in.
responsesClose(c) == EmitClosing(c, FlattenSeq([i \in 1..c.next |-> itemCloser(c, i - 1)]))

\* Text still pending, for which no part is announced.
responsesTail(c) ==
    IF Suffix(c) = << >> THEN c
    ELSE LET t == ensureMsg(c) IN Taken(EmitNumbered(t, <<Event("text", t.msgOut, Suffix(t))>>))

responsesFinalize(c) ==
    LET p == responsesTail(c)
        t == IF p.msgOut = None /\ ~AnyTool(p) THEN ensureMsg(p) ELSE p
    IN  EmitNumbered(responsesClose(t),
            <<Event("finish", finalizeUsage(t), IF upstreamFinish(t) = "length" THEN "incomplete" ELSE "completed")>>)
-----------------------------------------------------------------------------
\* What each client's converter does: the head of the stream, once; each tool
\* event of a payload; the text that is new; the closing events.
Open(c) ==
    CASE c.client = "chat" -> chatHead(c)
      [] c.client = "messages" -> messagesHead(c)
      [] c.client = "responses" -> responsesHead(c)

Tool(c, e) ==
    CASE c.client = "chat" -> chatTool(c, e)
      [] c.client = "messages" -> messagesTool(c, e)
      [] c.client = "responses" -> responsesTool(c, e)

Text(c) ==
    CASE c.client = "chat" -> chatText(c)
      [] c.client = "messages" -> messagesText(c)
      [] c.client = "responses" -> responsesText(c)

Feed(c, p) ==
    IF c.client = "native" THEN parse(c, p)
    ELSE Text(FoldLeft(Tool, Open(parse(c, p)), extractToolEvents(p)))

Finalize(c) ==
    CASE c.client = "chat" -> chatFinalize(c)
      [] c.client = "messages" -> messagesFinalize(c)
      [] c.client = "responses" -> responsesFinalize(c)
      [] c.client = "native" -> c

\* The completion tokens recorded for the stream.
Completion(c) == IF c.client = "native" THEN parserUsage(c) ELSE finalizeUsage(c)
=============================================================================
