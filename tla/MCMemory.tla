------------------------------ MODULE MCMemory ------------------------------
(* Two concurrent calls and the classifier over two or three memories. *)
EXTENDS Memory

CONSTANTS x, y

MCStored == <<x, y>>
MCAdds == {[text |-> y, ns |-> ""], [text |-> x, ns |-> "ops"]}
MCEdits == {[text |-> y, ns |-> "ops", status |-> ""], [text |-> NoText, ns |-> "keep", status |-> "active"],
            [text |-> NoText, ns |-> "", status |-> "archived"]}
MCSimilar == Content \X Content
=============================================================================
