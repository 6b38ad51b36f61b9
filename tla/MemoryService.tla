--------------------------- MODULE MemoryService ---------------------------
(***************************************************************************)
(* MemoryService of internal/service/memory.go and memory_autolink.go: the  *)
(* calls of agents and of the console.  A call is a series of repository    *)
(* calls with nothing around them: other calls and the classifier run       *)
(* between any two, and any of them can fail, because the database is busy  *)
(* or because the client left and its context is cancelled.                 *)
(*                                                                          *)
(* Inputs that validation rejects are not enumerated.  An Add names at most *)
(* one memory it supersedes and one it links to.                            *)
(***************************************************************************)
EXTENDS MemoryStore

CONSTANTS
    Agent,      \* calls that may be in progress at once
    Adds,       \* what an Add may say: [text, ns]
    Edits,      \* what an Update may ask for: [text, ns, status]
    Similar,    \* the pairs of contents autoLinkRank finds similar
    LinkLimit,  \* autoLinkLimit
    MaxCalls    \* bound: calls and jobs begun

ASSUME MemoryServiceAssumption ==
    /\ Adds \subseteq [text : Content, ns : Name \union {""}]
    /\ Edits \subseteq [text : Content \union {NoText}, ns : Name \union {"", "keep"},
                        status : {"", "active", "archived"}]
    /\ Similar \subseteq Content \X Content
    /\ LinkLimit \in Nat
    /\ MaxCalls \in Nat

VARIABLES
    op,     \* Agent: the call in progress
    calls,  \* calls and jobs begun so far
    torn,   \* history: pairs <<new, old>> whose supersedes edge was not written, or removed
    told    \* history: the edges users asked for and did not remove since

opVars == <<op, calls, torn, told>>

Kind == {"none", "add", "update", "forget", "supersede", "link", "move", "rebuild"}
Step == {"idle", "dup", "ensure", "create", "get", "save", "old", "new", "mark", "edge",
         "link", "recycle", "pool", "known", "auto"}

Blank == [content |-> NoText, ns |-> "", source |-> "none",
          status |-> "active", by |-> 0]

\* id: the row at hand; m: the copy of it the call holds; text, ns, status: what
\* the caller gives (NoText, "keep" and "" leave the row's); old: the row to
\* supersede, was: the copy of that; link: the row to link to (0 for none);
\* todo: what is left of a batch; hits: the rows to link automatically; dirty:
\* the update changes what automatic links depend on.
Idle == [kind |-> "none", pc |-> "idle", id |-> 0, m |-> Blank, was |-> Blank, text |-> NoText, ns |-> "",
         status |-> "", old |-> 0, link |-> 0, todo |-> {}, hits |-> {}, dirty |-> FALSE]

Op == [kind : Kind, pc : Step, id : 0..MaxId, m : Memory \union {Blank}, was : Memory \union {Blank}, text : Content \union {NoText},
       ns : Name \union {"", "keep"}, status : Status \union {""}, old : 0..MaxId,
       link : 0..MaxId, todo : SUBSET ((1..MaxId) \X (Memory \union {Blank})), hits : SUBSET (1..MaxId), dirty : BOOLEAN]

ServiceTypeOK ==
    /\ op \in [Agent -> Op]
    /\ calls \in 0..MaxCalls
    /\ torn \subseteq (1..MaxId) \X (1..MaxId)
    /\ told \subseteq (1..MaxId) \X (1..MaxId)

ServiceInit ==
    /\ op = [a \in Agent |-> Idle]
    /\ calls = 0
    /\ torn = {}
    /\ told = {}

At(a, step) == op[a].pc = step
Become(a, o) == op' = [op EXCEPT ![a] = o]
Goto(a, step) == Become(a, [op[a] EXCEPT !.pc = step])
Return(a) == Become(a, Idle)

Enter(a, o) ==
    /\ At(a, "idle")
    /\ calls < MaxCalls
    /\ calls' = calls + 1
    /\ Become(a, o)
    /\ UNCHANGED <<storeVars, torn, told>>

\* A single repository call, made between the steps of others.
Direct == calls < MaxCalls /\ calls' = calls + 1 /\ UNCHANGED op
-----------------------------------------------------------------------------
(* The calls begin *)

\* Room for one more row, counting those of the Adds that have not created
\* theirs (the bound MaxId).
Room == Len(row) + Cardinality({a \in Agent : op[a].pc \in {"dup", "ensure", "create"} /\ op[a].kind = "add"}) < MaxId

\* Add, after the memories it names were found.
Add(a) ==
    /\ Room
    /\ \E w \in Adds, o, l \in 0..Len(row) :
        Enter(a, [Idle EXCEPT !.kind = "add", !.pc = "dup", !.text = w.text, !.ns = w.ns, !.old = o, !.link = l])

Update(a) ==
    \E i \in DOMAIN row, w \in Edits :
        Enter(a, [Idle EXCEPT !.kind = "update", !.pc = "get", !.id = i, !.text = w.text, !.ns = w.ns,
                              !.status = w.status])

Forget(a) ==
    \E i \in DOMAIN row :
        Enter(a, [Idle EXCEPT !.kind = "forget", !.pc = "get", !.id = i, !.status = "deleted"])

Supersede(a) ==
    \E o, i \in DOMAIN row :
        /\ o # i
        /\ Enter(a, [Idle EXCEPT !.kind = "supersede", !.pc = "old", !.id = i, !.old = o])

AddLink(a) ==
    \E i, j \in DOMAIN row :
        /\ i # j
        /\ Enter(a, [Idle EXCEPT !.kind = "link", !.pc = "link", !.id = i, !.link = j])

\* The rows of a batch are read one by one, in the caller's order: its copies
\* of them are not used.
BatchMoveNamespace(a) ==
    \E i, j \in DOMAIN row, n \in Name \union {""} :
        Enter(a, [Idle EXCEPT !.kind = "move", !.pc = IF n = "" THEN "get" ELSE "ensure",
                              !.id = i, !.ns = n, !.todo = {<<k, Blank>> : k \in {j} \ {i}}])

\* The page of active memories is read once; the automatic links of each are
\* made again from this copy, the memories touched last first: in any order.
RebuildAutoLinks(a) ==
    LET page == {<<i, row[i]>> : i \in {k \in DOMAIN row : Active(k)}}
    IN  \E p \in page :
            Enter(a, [Idle EXCEPT !.kind = "rebuild", !.pc = "recycle", !.id = p[1],
                                  !.m = p[2], !.todo = page \ {p}])
-----------------------------------------------------------------------------
(* Their steps *)

FindDuplicate(a) ==
    /\ At(a, "dup")
    /\ IF HasDuplicate(op[a].text, op[a].ns)
       THEN Return(a)
       ELSE Goto(a, IF op[a].ns = "" THEN "create" ELSE "ensure")
    /\ UNCHANGED <<storeVars, calls, torn, told>>

Ensure(a) ==
    /\ At(a, "ensure")
    /\ EnsureName(op[a].ns)
    /\ Goto(a, CASE op[a].kind = "add" -> "create" [] op[a].kind = "move" -> "get" [] OTHER -> "save")
    /\ UNCHANGED <<row, fts, edges, calls, torn, told>>

\* The step of an Add that follows the creation and the supersession.
AfterEdge(o) == IF o.kind # "add" THEN Idle ELSE [o EXCEPT !.pc = IF o.link # 0 THEN "link" ELSE "pool"]

\* Whether the caller is the console does not matter to what follows.
Create(a) ==
    LET m == [content |-> op[a].text, ns |-> op[a].ns,
              source |-> IF op[a].ns = "" THEN "none" ELSE "explicit", status |-> "active", by |-> 0]
        o == [op[a] EXCEPT !.m = m, !.id = Len(row) + 1]
    IN  /\ At(a, "create")
        /\ CreateRow(m)
        /\ Become(a, IF o.old # 0 THEN [o EXCEPT !.pc = "old"] ELSE AfterEdge(o))
        /\ UNCHANGED <<registry, edges, calls, torn, told>>

\* What a batch does after a row: another one, or the end.
Advance(a, o, step) ==
    \/ o.todo = {} /\ Return(a)
    \/ \E copy \in o.todo :
        Become(a, [o EXCEPT !.pc = step, !.id = copy[1], !.m = copy[2], !.todo = @ \ {copy}, !.hits = {}])

\* Update's changes to the copy m of the row.
Changed(o, m) ==
    [m EXCEPT !.content = IF o.text = NoText THEN @ ELSE o.text,
              !.ns = IF o.ns = "keep" THEN @ ELSE o.ns,
              !.source = IF o.ns \in {"keep", m.ns} THEN @ ELSE IF o.ns = "" THEN "none" ELSE "manual",
              !.status = IF o.status = "" THEN @ ELSE o.status]

GetForUpdate(a) ==
    LET m == row[op[a].id]
        n == Changed(op[a], m)
    IN  /\ At(a, "get")
        /\ op[a].kind = "update"
        /\ Become(a, [op[a] EXCEPT !.m = n, !.dirty = n.content # m.content \/ n.ns # m.ns,
                                   !.pc = IF n.ns \in {"", m.ns} THEN "save" ELSE "ensure"])
        /\ UNCHANGED <<storeVars, calls, torn, told>>

GetForForget(a) ==
    /\ At(a, "get")
    /\ op[a].kind = "forget"
    /\ Become(a, [op[a] EXCEPT !.m = [row[op[a].id] EXCEPT !.status = "deleted"], !.pc = "save"])
    /\ UNCHANGED <<storeVars, calls, torn, told>>

GetForMove(a) ==
    LET m == row[op[a].id]
        n == [m EXCEPT !.ns = op[a].ns, !.source = IF op[a].ns = "" THEN "none" ELSE "manual"]
    IN  /\ At(a, "get")
        /\ op[a].kind = "move"
        /\ IF m.ns = op[a].ns
           THEN Advance(a, op[a], "get")
           ELSE Become(a, [op[a] EXCEPT !.m = n, !.pc = "save"])
        /\ UNCHANGED <<storeVars, calls, torn, told>>

Save(a) ==
    /\ At(a, "save")
    /\ SaveRow(op[a].id, op[a].m)
    /\ CASE op[a].kind = "move" -> Advance(a, op[a], "get")
         [] op[a].kind # "move" /\ op[a].dirty -> Goto(a, "recycle")
         [] OTHER -> Return(a)
    /\ UNCHANGED <<registry, edges, calls, torn, told>>

GetOld(a) ==
    /\ At(a, "old")
    /\ Become(a, [op[a] EXCEPT !.was = row[op[a].old], !.pc = "new"])
    /\ UNCHANGED <<storeVars, calls, torn, told>>

\* A successor that is not active ends the call; a row that was not active is
\* not marked, but gets its edge.
GetNew(a) ==
    /\ At(a, "new")
    /\ IF ~Active(op[a].id)
       THEN Return(a)
       ELSE Goto(a, IF op[a].was.status = "active" THEN "mark" ELSE "edge")
    /\ UNCHANGED <<storeVars, calls, torn, told>>

\* Mutant: the row is marked without its successor.
MarkWithoutSuccessor(a) ==
    /\ At(a, "mark")
    /\ SaveRow(op[a].old, [op[a].was EXCEPT !.status = "superseded"])
    /\ Goto(a, "edge")
    /\ UNCHANGED <<registry, edges, calls, torn, told>>

MarkSuperseded(a) ==
    /\ At(a, "mark")
    /\ SaveRow(op[a].old, [op[a].was EXCEPT !.status = "superseded", !.by = op[a].id])
    /\ Goto(a, "edge")
    /\ UNCHANGED <<registry, edges, calls, torn, told>>

\* Mutant: the edge points the other way.
AddSupersededByEdge(a) ==
    /\ At(a, "edge")
    /\ AddEdge(op[a].old, op[a].id, "supersedes", FALSE)
    /\ Become(a, AfterEdge(op[a]))
    /\ torn' = torn \ {<<op[a].id, op[a].old>>}
    /\ UNCHANGED <<row, fts, registry, calls, told>>

AddSupersedesEdge(a) ==
    /\ At(a, "edge")
    /\ AddEdge(op[a].id, op[a].old, "supersedes", FALSE)
    /\ Become(a, AfterEdge(op[a]))
    /\ torn' = torn \ {<<op[a].id, op[a].old>>}
    /\ UNCHANGED <<row, fts, registry, calls, told>>

\* The relation asked for is `related`, the one the system's edges have.
AddRelatedEdge(a) ==
    /\ At(a, "link")
    /\ AddEdge(op[a].id, op[a].link, "related", FALSE)
    /\ Become(a, IF op[a].kind = "add" THEN [op[a] EXCEPT !.pc = "pool"] ELSE Idle)
    /\ told' = told \union {<<op[a].id, op[a].link>>}
    /\ UNCHANGED <<row, fts, registry, calls, torn>>

\* refreshAutoLinks
Recycle(a) ==
    /\ At(a, "recycle")
    /\ DeleteAuto(op[a].id)
    /\ Goto(a, "pool")
    /\ UNCHANGED <<row, fts, registry, calls, torn, told>>

\* autoLinkPool and autoLinkRank, for the copy of the row the call holds.
Related(o) == {i \in DOMAIN row : /\ Active(i) /\ i # o.id /\ row[i].ns = o.m.ns
                                  /\ <<o.m.content, row[i].content>> \in Similar}

FindRelated(a) ==
    /\ At(a, "pool")
    /\ \E H \in SUBSET Related(op[a]) :
        /\ \/ Cardinality(H) = LinkLimit
           \/ H = Related(op[a]) /\ Cardinality(H) < LinkLimit
        /\ IF H = {}
           THEN Advance(a, op[a], "recycle")
           ELSE Become(a, [op[a] EXCEPT !.hits = H, !.pc = "known"])
    /\ UNCHANGED <<storeVars, calls, torn, told>>

\* The next row to link, or what follows when there is none.
AutoNext(a, H) ==
    IF H = {} THEN Advance(a, op[a], "recycle") ELSE Become(a, [op[a] EXCEPT !.hits = H, !.pc = "auto"])

SkipKnown(a) ==
    /\ At(a, "known")
    /\ AutoNext(a, op[a].hits \ Neighbours(op[a].id))
    /\ UNCHANGED <<storeVars, calls, torn, told>>

AddAutoEdge(a) ==
    /\ At(a, "auto")
    /\ \E j \in op[a].hits :
        /\ AddEdge(op[a].id, j, "related", TRUE)
        /\ AutoNext(a, op[a].hits \ {j})
    /\ UNCHANGED <<row, fts, registry, calls, torn, told>>

\* A failed step of the automatic links costs what it would have done, the
\* failure to read the known edges only their being known.
AutoLinkFails(a) ==
    /\ \/ op[a].pc \in {"recycle", "pool"} /\ Advance(a, op[a], "recycle")
       \/ At(a, "known") /\ Goto(a, "auto")
       \/ At(a, "auto") /\ \E j \in op[a].hits : AutoNext(a, op[a].hits \ {j})
    /\ UNCHANGED <<storeVars, calls, torn, told>>

\* The pair a call that ends here leaves without its edge.
TornBy(o) == IF o.pc = "edge" THEN {<<o.id, o.old>>} ELSE {}

\* Any other step fails, or the client is gone: the call returns an error and
\* leaves what it did.
CallFails(a) ==
    /\ ~At(a, "idle")
    /\ Return(a)
    /\ torn' = torn \union TornBy(op[a])
    /\ UNCHANGED <<storeVars, calls, told>>
-----------------------------------------------------------------------------
(* The calls of one repository call *)

CreateNamespace ==
    /\ Direct
    /\ \E n \in Name : EnsureName(n)
    /\ UNCHANGED <<row, fts, edges, torn, told>>

RenameNamespace ==
    /\ Direct
    /\ \E n, t \in Name : RenameName(n, t)
    /\ UNCHANGED <<fts, edges, torn, told>>

MergeNamespaces ==
    /\ Direct
    /\ \E n, t \in Name : MergeName(n, t)
    /\ UNCHANGED <<fts, edges, torn, told>>

DeleteNamespace ==
    /\ Direct
    /\ \E n \in Name : DeleteName(n)
    /\ UNCHANGED <<fts, edges, torn, told>>

RemoveLink ==
    /\ Direct
    /\ \E e \in edges :
        /\ edges' = edges \ {e}
        /\ told' = told \ {<<e.from, e.to>>}
        /\ torn' = IF e.rel = "supersedes" THEN torn \union {<<e.from, e.to>>} ELSE torn
    /\ UNCHANGED <<row, fts, registry>>

Begin(a) ==
    \/ Add(a)       \/ Update(a)             \/ Forget(a)  \/ Supersede(a)
    \/ AddLink(a)   \/ BatchMoveNamespace(a) \/ RebuildAutoLinks(a)

Proceed(a) ==
    \/ FindDuplicate(a) \/ Ensure(a)         \/ Create(a)
    \/ GetForUpdate(a)  \/ GetForForget(a)   \/ GetForMove(a)     \/ Save(a)
    \/ GetOld(a)        \/ GetNew(a)         \/ MarkSuperseded(a) \/ AddSupersedesEdge(a)
    \/ AddRelatedEdge(a) \/ Recycle(a)       \/ FindRelated(a)    \/ SkipKnown(a) \/ AddAutoEdge(a)

Manage ==
    \/ CreateNamespace \/ RenameNamespace \/ MergeNamespaces \/ DeleteNamespace
    \/ RemoveLink
=============================================================================
