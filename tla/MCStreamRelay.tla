--------------------------- MODULE MCStreamRelay ---------------------------
(* One stream through every converter, over short scripts cut anywhere, beside *)
(* a request that is not streamed.                                             *)
EXTENDS StreamRelay

CONSTANTS a, b, s0

Chat(text, calls, finish, usage) ==
    [Blank EXCEPT !.text = text, !.calls = calls, !.finish = finish, !.usage = usage]
Call(key, named, args) == [key |-> key, named |-> named, args |-> args]
Says(type, key, text, args, finish, usage) ==
    [Blank EXCEPT !.type = type, !.key = key, !.text = text, !.args = args, !.finish = finish, !.usage = usage]

ChatScripts == {
    << >>,
    <<Chat(<<a>>, << >>, "", None), Chat(<<b, a>>, << >>, "length", None)>>,
    \* two calls, the first announced again, then text
    <<Chat(<<a>>, <<Call("0", TRUE, <<a>>)>>, "", None),
      Chat(<< >>, <<Call("0", TRUE, <<b>>), Call("1", TRUE, <<a>>)>>, "length", None),
      Chat(<<b>>, << >>, "", 1)>>,
    \* two calls whose arguments alternate, some before the announcement
    <<Chat(<< >>, <<Call("1", FALSE, <<a>>), Call("0", TRUE, <<a>>), Call("1", TRUE, <<b>>)>>, "length", None),
      Chat(<< >>, <<Call("0", FALSE, <<b>>)>>, "stop", None)>>}

MessagesScripts == {
    <<Says("message_start", "", << >>, << >>, "", 0), Says("content_block_delta", "", <<a>>, << >>, "", None),
      Says("message_delta", "", << >>, << >>, "max_tokens", 5)>>,
    <<Says("content_block_start", "1", << >>, << >>, "", None), Says("content_block_delta", "1", << >>, <<b>>, "", None),
      Says("content_block_delta", "", <<a>>, << >>, "", None)>>}

ResponsesScripts == {
    <<Says("response.output_item.added", "fc", << >>, << >>, "", None),
      Says("response.function_call_arguments.delta", "fc", << >>, <<a>>, "", None),
      Torn, Says("response.completed", "", << >>, << >>, "", 2)>>}

ScriptsOf(up) ==
    CASE up = "chat" -> ChatScripts [] up = "messages" -> MessagesScripts [] up = "responses" -> ResponsesScripts

Job(client, up, script, twoLines) == [client |-> client, up |-> up, script |-> script, twoLines |-> twoLines]

\* Responses is converted to, never from.
Pairs == {<<"messages", "chat">>, <<"responses", "chat">>, <<"chat", "messages">>, <<"responses", "messages">>,
          <<"native", "chat">>, <<"native", "messages">>, <<"native", "responses">>}

MCJobs == [s \in Stream |->
    UNION {{Job(p[1], p[2], script, two) : script \in ScriptsOf(p[2]), two \in BOOLEAN} : p \in Pairs}]
MCReadSize == [s \in Stream |-> {1, 2, 5}]
MCAdds == <<1>>
=============================================================================
