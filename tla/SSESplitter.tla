---------------------------- MODULE SSESplitter ----------------------------
(***************************************************************************)
(* SSESplitter of internal/gateway/sse.go: the bytes of a stream, cut by    *)
(* the network anywhere, back into the data payloads of its events.         *)
(*                                                                          *)
(* A "byte" is a part of a line that is not cut further: a newline,         *)
(* "data:", the text of another field, [DONE], and the two halves <<i, 1>>  *)
(* and <<i, 2>> of the JSON of payload i.                                       *)
(***************************************************************************)
EXTENDS StreamConverter, FiniteSetsExt

Newline == <<0, 0>>
Data == <<0, 1>>
Field == <<0, 2>>
Done == <<0, 3>>

\* hasData: a data line was seen in the event, of whose lines data is made.
NewSplitter == [line |-> << >>, data |-> << >>, hasData |-> FALSE]

\* The calls of onData a step makes: none, or one with what the event holds.
\* Lines of an event are joined with a newline, which JSON allows between halves.
payload(data, script) ==
    IF \E i \in DOMAIN script : data = << <<i, 1>>, <<i, 2>> >>
    THEN << script[data[1][1]] >>
    ELSE IF data = <<Done>> THEN << >> ELSE <<Torn>>

finishEvent(sp) == [sp EXCEPT !.data = << >>, !.hasData = FALSE]

\* Mutant: a second data line replaces the first.
handleLineOverwrites(sp) ==
    LET rest == [sp EXCEPT !.line = << >>]
    IN  IF sp.line = << >> THEN finishEvent(rest)
        ELSE IF Head(sp.line) = Data THEN [rest EXCEPT !.data = Tail(sp.line), !.hasData = TRUE]
        ELSE rest

\* handleLine of the line gathered, which is then reset.
handleLine(sp) ==
    LET rest == [sp EXCEPT !.line = << >>]
    IN  IF sp.line = << >> THEN finishEvent(rest)
        ELSE IF Head(sp.line) = Data THEN [rest EXCEPT !.data = @ \o Tail(sp.line), !.hasData = TRUE]
        ELSE rest

\* What is called back when the line gathered is handled.
lineYields(sp, script) ==
    IF sp.line = << >> /\ sp.hasData THEN payload(sp.data, script) ELSE << >>

\* Flush: the line left over, then the event left open.
flushYields(sp, script) ==
    LET last == IF sp.line = << >> THEN sp ELSE handleLine(sp)
    IN  IF last.hasData THEN payload(last.data, script) ELSE << >>

flush(sp) == finishEvent(handleLine(sp))

\* Where the first newline is, 0 when there is none.
newlineIn(bytes) ==
    IF Newline \in Range(bytes) THEN Min({i \in DOMAIN bytes : bytes[i] = Newline}) ELSE 0
=============================================================================
