---------------------------- MODULE MemoryProofs ----------------------------
(***************************************************************************)
(* Proofs about Memory.  What a row must satisfy, every copy of a row must  *)
(* satisfy that a call or the job holds and may still save: that is the     *)
(* inductive invariant.                                                     *)
(***************************************************************************)
EXTENDS Memory, SequenceTheorems, TLAPS

(* The inductive invariant *)

\* A row, without the bound on ids.
Space == Name \union {""}
Row == [content : Content, ns : Space, source : Source, status : Status, by : Nat]

\* The trace of a supersession: it stays, once it is there.
Linked(n, i) ==
    \/ \E e \in edges : SameEnds(e, n, i, "supersedes")
    \/ <<n, i>> \in torn
    \/ \E a \in Agent : At(a, "edge") /\ op[a].old = i /\ op[a].id = n

\* Row i may be as m says.
Good(i, m) ==
    /\ i \in DOMAIN row
    /\ m \in Row
    /\ m.status = "superseded" => m.by \in DOMAIN row \ {i} /\ Linked(m.by, i)

Rows ==
    /\ row \in Seq(Row)
    /\ fts \in Seq(Content)
    /\ Len(fts) = Len(row)
    /\ \A i \in DOMAIN row : fts[i] = row[i].content /\ Good(i, row[i])

Fields == {"kind", "pc", "id", "m", "was", "text", "ns", "status", "old", "link", "todo", "hits", "dirty"}
JobFields == {"pc", "todo", "answer", "now", "asked"}

\* What the rest of a call relies on.
OpSound(o) ==
    /\ DOMAIN o = Fields
    /\ o.pc \in {"dup", "create"} => o.kind = "add"
    /\ o.pc = "ensure" => o.kind \in {"add", "update", "move"}
    /\ o.kind = "add" /\ o.pc \in {"dup", "ensure", "create"} =>
         o.text \in Content /\ o.ns \in Space /\ o.old \in DOMAIN row \union {0}
    /\ o.pc = "get" => o.kind \in {"update", "forget", "move"} /\ o.id \in DOMAIN row
    /\ o.kind = "update" /\ o.pc = "get" =>
         /\ o.text \in Content \union {NoText}
         /\ o.ns \in Space \union {"keep"}
         /\ o.status \in {"", "active", "archived"}
    /\ o.kind = "move" =>
         /\ o.pc \in {"ensure", "get", "save"}
         /\ o.id \in DOMAIN row
         /\ o.ns \in Space
         /\ \A copy \in o.todo : copy[1] \in DOMAIN row
    /\ o.pc = "save" \/ (o.pc = "ensure" /\ o.kind = "update") => Good(o.id, o.m)
    /\ o.pc \in {"old", "new", "mark", "edge"} =>
         o.id \in DOMAIN row /\ o.old \in DOMAIN row /\ o.id # o.old
    /\ o.pc \in {"new", "mark"} => o.was \in Row

\* The copies of the job were of active rows.
Sane(copy) == copy[1] \in DOMAIN row /\ copy[2] \in Row /\ copy[2].status = "active"

JobSound ==
    /\ DOMAIN job = JobFields
    /\ \A copy \in job.todo \union job.answer : Sane(copy)
    /\ JobAt("write") => Sane(job.now)

\* Only the supersessions make edges that are not `related`, and never automatic ones.
EdgesSound == \A e \in edges : e.auto => e.rel = "related"

IInv ==
    /\ Rows
    /\ DOMAIN op = Agent
    /\ \A a \in Agent : OpSound(op[a])
    /\ JobSound
    /\ EdgesSound
-----------------------------------------------------------------------------
(* What stays and what grows *)

Stays ==
    /\ \A n, i : Linked(n, i) => Linked(n, i)'
    /\ DOMAIN row \subseteq DOMAIN row'

LEMMA InitSound == Init => IInv
<1> SUFFICES ASSUME Init PROVE IInv
    OBVIOUS
<1> USE DEF Init, StoreInit, ServiceInit, ClassifierInit, MemoryStoreAssumption
<1>1. /\ row \in Seq(Row)
      /\ Len(row) = Len(Stored)
      /\ DOMAIN row = 1..Len(Stored)
      /\ \A i \in DOMAIN row : row[i] \in Row /\ row[i].content = Stored[i] /\ row[i].status = "active"
  <2>a. Stored \in Seq(Content)
    BY MemoryStoreAssumption
  <2>0. Stored \in Seq(Content) /\ Len(Stored) \in Nat /\ DOMAIN Stored = 1..Len(Stored)
    BY ONLY <2>a
  <2>1. \A c \in Content : Plain(c) \in Row
    BY DEF Plain, Row, Space, Source, Status
  <2>2. row = [i \in 1..Len(Stored) |-> Plain(Stored[i])]
    BY <2>0
  <2>3. row \in Seq(Row) /\ Len(row) = Len(Stored)
    BY <2>0, <2>1, <2>2
  <2>4. \A i \in 1..Len(Stored) : row[i] = Plain(Stored[i]) /\ row[i] \in Row
    BY <2>0, <2>1, <2>2
  <2> QED
    <3>0. \A c : Plain(c).content = c /\ Plain(c).status = "active"
      BY ONLY DEF Plain
    <3>1. \A i \in 1..Len(Stored) : row[i].content = Stored[i] /\ row[i].status = "active"
      BY ONLY <3>0, <2>4
    <3> QED
      BY <2>0, <2>2, <2>3, <2>4, <3>1
<1>2. Rows
  BY <1>1, MemoryStoreAssumption DEF Rows, Good
<1>3. DOMAIN op = Agent /\ \A a \in Agent : OpSound(op[a])
  BY DEF OpSound, Idle, Fields
<1>4. JobSound
  BY DEF JobSound, NoJob, JobFields, JobAt
<1>5. EdgesSound
  BY DEF EdgesSound
<1> QED
  BY <1>2, <1>3, <1>4, <1>5 DEF IInv

\* One call goes on, and no trace of a supersession gets lost.
LEMMA CallKeepsLinks ==
    ASSUME DOMAIN op = Agent, NEW a \in Agent, NEW o, op' = [op EXCEPT ![a] = o],
           \A e \in edges : e.rel = "supersedes" => e \in edges',
           \A n, i : <<n, i>> \in torn =>
               <<n, i>> \in torn' \/ \E e \in edges' : SameEnds(e, n, i, "supersedes"),
           \/ op[a].pc # "edge"
           \/ <<op[a].id, op[a].old>> \in torn'
           \/ \E e \in edges' : SameEnds(e, op[a].id, op[a].old, "supersedes")
    PROVE  \A n, i : Linked(n, i) => Linked(n, i)'
<1> SUFFICES ASSUME NEW n, NEW i, Linked(n, i) PROVE Linked(n, i)'
    OBVIOUS
<1>1. CASE \E e \in edges : SameEnds(e, n, i, "supersedes")
  BY <1>1 DEF Linked, SameEnds
<1>2. CASE <<n, i>> \in torn
  BY <1>2 DEF Linked
<1>3. CASE \E b \in Agent : At(b, "edge") /\ op[b].old = i /\ op[b].id = n
  <2>1. PICK b \in Agent : At(b, "edge") /\ op[b].old = i /\ op[b].id = n
    BY <1>3
  <2>2. CASE b = a
    BY <2>1, <2>2 DEF Linked, At
  <2>3. CASE b # a
    BY <2>1, <2>3 DEF Linked, At
  <2> QED
    BY <2>2, <2>3
<1> QED
  BY <1>1, <1>2, <1>3 DEF Linked

\* A step of a call replaces what the call holds.
LEMMA CallShape ==
    ASSUME NEW a \in Agent, Begin(a) \/ Proceed(a) \/ AutoLinkFails(a) \/ CallFails(a)
    PROVE  \E o : op' = [op EXCEPT ![a] = o]
<1> USE DEF Become, Goto, Return, Enter
<1>1. CASE Begin(a)
  BY <1>1 DEF Begin, Add, Update, Forget, Supersede, AddLink, BatchMoveNamespace, RebuildAutoLinks
<1>2. ASSUME NEW o, NEW step, Advance(a, o, step) PROVE \E p : op' = [op EXCEPT ![a] = p]
  BY <1>2 DEF Advance
<1>3. ASSUME NEW H, AutoNext(a, H) PROVE \E p : op' = [op EXCEPT ![a] = p]
  BY <1>2, <1>3 DEF AutoNext
<1>4. CASE FindDuplicate(a) \/ Ensure(a) \/ Create(a) \/ GetForUpdate(a) \/ GetForForget(a)
  BY <1>4 DEF FindDuplicate, Ensure, Create, GetForUpdate, GetForForget
<1>5. CASE GetForMove(a)
  BY <1>2, <1>5 DEF GetForMove
<1>6. CASE Save(a)
  BY <1>2, <1>6 DEF Save
<1>7. CASE GetOld(a) \/ GetNew(a) \/ MarkSuperseded(a) \/ AddSupersedesEdge(a) \/ AddRelatedEdge(a) \/ Recycle(a)
  BY <1>7 DEF GetOld, GetNew, MarkSuperseded, AddSupersedesEdge, AddRelatedEdge, Recycle
<1>8. CASE FindRelated(a)
  BY <1>2, <1>8 DEF FindRelated
<1>9. CASE SkipKnown(a) \/ AddAutoEdge(a)
  BY <1>3, <1>9 DEF SkipKnown, AddAutoEdge
<1>10. CASE AutoLinkFails(a)
  BY <1>2, <1>3, <1>10 DEF AutoLinkFails
<1>11. CASE CallFails(a)
  BY <1>11 DEF CallFails
<1> QED
  BY <1>1, <1>4, <1>5, <1>6, <1>7, <1>8, <1>9, <1>10, <1>11 DEF Proceed

\* What is in the tables of edges and torn pairs after a step of a call.
LEMMA CallEdges ==
    ASSUME IInv, NEW a \in Agent, Begin(a) \/ Proceed(a) \/ AutoLinkFails(a) \/ CallFails(a)
    PROVE  /\ \A e \in edges : e.rel = "supersedes" => e \in edges'
           /\ \A n, i : <<n, i>> \in torn =>
                  <<n, i>> \in torn' \/ \E e \in edges' : SameEnds(e, n, i, "supersedes")
           /\ \/ op[a].pc # "edge"
              \/ <<op[a].id, op[a].old>> \in torn'
              \/ \E e \in edges' : SameEnds(e, op[a].id, op[a].old, "supersedes")
           /\ EdgesSound'
<1> USE DEF At, EdgesSound, storeVars
<1>0. EdgesSound
  BY DEF IInv
<1>1. CASE Begin(a)
  BY <1>0, <1>1 DEF Begin, Add, Update, Forget, Supersede, AddLink, BatchMoveNamespace, RebuildAutoLinks, Enter
<1>2. CASE \/ FindDuplicate(a) \/ Ensure(a) \/ Create(a) \/ GetForUpdate(a) \/ GetForForget(a) \/ GetForMove(a)
           \/ Save(a) \/ GetOld(a) \/ GetNew(a) \/ MarkSuperseded(a) \/ FindRelated(a) \/ SkipKnown(a)
           \/ AutoLinkFails(a)
  BY <1>0, <1>2 DEF FindDuplicate, Ensure, Create, GetForUpdate, GetForForget, GetForMove, Save, GetOld, GetNew,
     MarkSuperseded, FindRelated, SkipKnown, AutoLinkFails
<1>3. CASE AddSupersedesEdge(a)
  <2> DEFINE n0 == op[a].id
             i0 == op[a].old
             new == [from |-> n0, to |-> i0, rel |-> "supersedes", auto |-> FALSE]
  <2>1. /\ edges' = IF \E e \in edges : SameEnds(e, n0, i0, "supersedes") THEN edges ELSE edges \union {new}
        /\ torn' = torn \ {<<n0, i0>>}
    BY <1>3 DEF AddSupersedesEdge, AddEdge
  <2>2. SameEnds(new, n0, i0, "supersedes") /\ new.rel = "supersedes" /\ ~new.auto
    BY DEF SameEnds
  <2> HIDE DEF n0, i0, new
  <2>3. \E e \in edges' : SameEnds(e, n0, i0, "supersedes")
    BY <2>1, <2>2
  <2>4. ASSUME NEW n, NEW i, <<n, i>> \in torn, <<n, i>> \notin torn'
        PROVE  \E e \in edges' : SameEnds(e, n, i, "supersedes")
    <3>1. n = n0 /\ i = i0
      BY <2>1, <2>4
    <3> QED
      BY <3>1, <2>3
  <2>5. \A e \in edges' : e \in edges \/ e = new
    BY <2>1
  <2>6. EdgesSound'
    BY <1>0, <2>2, <2>5
  <2> QED
    BY <2>1, <2>3, <2>4, <2>6 DEF n0, i0
<1>4. CASE AddRelatedEdge(a)
  BY <1>0, <1>4 DEF AddRelatedEdge, AddEdge
<1>5. CASE AddAutoEdge(a)
  BY <1>0, <1>5 DEF AddAutoEdge, AddEdge
<1>6. CASE Recycle(a)
  BY <1>0, <1>6 DEF Recycle, DeleteAuto
<1>7. CASE CallFails(a)
  BY <1>0, <1>7 DEF CallFails, TornBy
<1> QED
  BY <1>1, <1>2, <1>3, <1>4, <1>5, <1>6, <1>7 DEF Proceed
-----------------------------------------------------------------------------
(* The tables *)

LEMMA GoodStays ==
    ASSUME Stays, NEW i, NEW m, Good(i, m)
    PROVE  Good(i, m)'
BY DEF Stays, Good

LEMMA SoundStays ==
    ASSUME Stays, NEW o, OpSound(o)
    PROVE  OpSound(o)'
<1>1. Good(o.id, o.m) => Good(o.id, o.m)'
  BY GoodStays
<1>2. DOMAIN row \subseteq DOMAIN row'
  BY DEF Stays
<1> QED
  BY <1>1, <1>2 DEF OpSound

LEMMA SaneStays ==
    ASSUME Stays, NEW copy, Sane(copy)
    PROVE  Sane(copy)'
BY DEF Stays, Sane

\* The tables are left alone.
LEMMA RowsStay ==
    ASSUME Rows, Stays, UNCHANGED <<row, fts>>
    PROVE  Rows'
<1>1. \A i, m : Good(i, m) => Good(i, m)'
  BY GoodStays
<1> QED
  BY <1>1 DEF Rows

\* A row is saved.
LEMMA SaveKeepsRows ==
    ASSUME Rows, NEW i, NEW m, SaveRow(i, m), i \in DOMAIN row, m \in Row,
           \A n, j : Linked(n, j) => Linked(n, j)',
           m.status = "superseded" => m.by \in DOMAIN row \ {i} /\ Linked(m.by, i)'
    PROVE  Rows' /\ DOMAIN row' = DOMAIN row
<1>1. /\ row \in Seq(Row) /\ fts \in Seq(Content) /\ Len(fts) = Len(row)
      /\ DOMAIN row = 1..Len(row) /\ i \in 1..Len(row) /\ i \in 1..Len(fts)
  BY DEF Rows
<1>2. m.content \in Content
  BY DEF Row
<1>3. row' = [row EXCEPT ![i] = m] /\ fts' = [fts EXCEPT ![i] = m.content]
  BY DEF SaveRow, syncFTS
<1>4. /\ row' \in Seq(Row) /\ Len(row') = Len(row)
      /\ \A j \in 1..Len(row) : row'[j] = IF j = i THEN m ELSE row[j]
  BY ONLY <1>1, <1>3, ExceptSeq, m \in Row
<1>5. /\ fts' \in Seq(Content) /\ Len(fts') = Len(fts)
      /\ \A j \in 1..Len(fts) : fts'[j] = IF j = i THEN m.content ELSE fts[j]
  BY ONLY <1>1, <1>2, <1>3, ExceptSeq
<1>6. DOMAIN row' = DOMAIN row
  BY <1>1, <1>4
<1>7. ASSUME NEW j \in DOMAIN row
      PROVE  fts'[j] = row'[j].content /\ Good(j, row[j])'
  <2>1. CASE j = i
    BY <1>1, <1>4, <1>5, <1>6, <2>1 DEF Good
  <2>2. CASE j # i
    BY <1>1, <1>4, <1>5, <1>6, <2>2 DEF Good, Rows
  <2> QED
    BY <2>1, <2>2
<1> QED
  BY <1>1, <1>4, <1>5, <1>6, <1>7 DEF Rows

\* A row is added; it is not superseded.
LEMMA CreateKeepsRows ==
    ASSUME Rows, NEW m \in Row, m.status # "superseded", CreateRow(m),
           \A n, j : Linked(n, j) => Linked(n, j)'
    PROVE  Rows' /\ DOMAIN row' = DOMAIN row \union {Len(row) + 1}
<1>1. /\ row \in Seq(Row) /\ fts \in Seq(Content) /\ Len(fts) = Len(row)
      /\ DOMAIN row = 1..Len(row) /\ Len(row) \in Nat
  BY DEF Rows
<1>2. m.content \in Content
  BY DEF Row
<1>3. row' = Append(row, m) /\ fts' = Append(fts, m.content)
  BY DEF CreateRow
<1>4. /\ row' \in Seq(Row) /\ Len(row') = Len(row) + 1
      /\ \A j \in 1..Len(row) : row'[j] = row[j]
      /\ row'[Len(row) + 1] = m
  BY ONLY <1>1, <1>3, AppendProperties, m \in Row
<1>5. /\ fts' \in Seq(Content) /\ Len(fts') = Len(row) + 1
      /\ \A j \in 1..Len(row) : fts'[j] = fts[j]
      /\ fts'[Len(row) + 1] = m.content
  BY ONLY <1>1, <1>2, <1>3, AppendProperties
<1>6. DOMAIN row' = DOMAIN row \union {Len(row) + 1}
  BY <1>1, <1>4
<1>7. ASSUME NEW j \in DOMAIN row'
      PROVE  fts'[j] = row'[j].content /\ Good(j, row[j])'
  <2>1. CASE j = Len(row) + 1
    BY <1>4, <1>5, <1>6, <2>1 DEF Good
  <2>2. CASE j \in DOMAIN row
    BY <1>1, <1>4, <1>5, <1>6, <2>2 DEF Good, Rows
  <2> QED
    BY <1>6, <2>1, <2>2
<1> QED
  BY <1>4, <1>5, <1>6, <1>7 DEF Rows

\* Rows change their namespace only.
LEMMA MoveKeepsRows ==
    ASSUME Rows, NEW f, row' = [j \in DOMAIN row |-> f[j]], fts' = fts,
           \A j \in DOMAIN row :
               /\ f[j] \in Row
               /\ f[j].content = row[j].content /\ f[j].status = row[j].status /\ f[j].by = row[j].by,
           \A n, j : Linked(n, j) => Linked(n, j)'
    PROVE  Rows' /\ DOMAIN row' = DOMAIN row
<1>1. /\ row \in Seq(Row) /\ fts \in Seq(Content) /\ Len(fts) = Len(row)
      /\ DOMAIN row = 1..Len(row) /\ Len(row) \in Nat
  BY DEF Rows
<1>2. /\ row' \in Seq(Row) /\ Len(row') = Len(row) /\ DOMAIN row' = DOMAIN row
      /\ \A j \in DOMAIN row : row'[j] = f[j]
  <2>1. \A j \in 1..Len(row) : f[j] \in Row
    BY <1>1
  <2> QED
    BY ONLY <1>1, <2>1, row' = [j \in DOMAIN row |-> f[j]]
<1>3. ASSUME NEW j \in DOMAIN row
      PROVE  fts'[j] = row'[j].content /\ Good(j, row[j])'
  BY <1>2 DEF Rows, Good
<1> QED
  BY <1>1, <1>2, <1>3 DEF Rows
-----------------------------------------------------------------------------
(* The calls *)

LEMMA CallGrows ==
    ASSUME IInv, NEW a \in Agent, Begin(a) \/ Proceed(a) \/ AutoLinkFails(a) \/ CallFails(a)
    PROVE  DOMAIN row \subseteq DOMAIN row'
<1> USE DEF storeVars
<1>0. row \in Seq(Row)
  BY DEF IInv, Rows
<1>1. CASE Save(a) \/ MarkSuperseded(a)
  BY <1>0, <1>1 DEF Save, MarkSuperseded, SaveRow
<1>2. CASE Create(a)
  <2>1. PICK m : row' = Append(row, m)
    BY <1>2 DEF Create, CreateRow
  <2> QED
    BY <1>0, <2>1
<1>3. CASE UNCHANGED row
  BY <1>3
<1>4. Begin(a) => UNCHANGED row
  BY DEF Begin, Add, Update, Forget, Supersede, AddLink, BatchMoveNamespace, RebuildAutoLinks, Enter
<1>5. Proceed(a) /\ ~Save(a) /\ ~MarkSuperseded(a) /\ ~Create(a) => UNCHANGED row
  BY DEF Proceed, FindDuplicate, Ensure, GetForUpdate, GetForForget, GetForMove, GetOld, GetNew,
     AddSupersedesEdge, AddRelatedEdge, Recycle, FindRelated, SkipKnown, AddAutoEdge
<1>6. AutoLinkFails(a) \/ CallFails(a) => UNCHANGED row
  BY DEF AutoLinkFails, CallFails
<1> QED
  BY <1>1, <1>2, <1>3, <1>4, <1>5, <1>6

LEMMA CallStays ==
    ASSUME IInv, NEW a \in Agent, Begin(a) \/ Proceed(a) \/ AutoLinkFails(a) \/ CallFails(a)
    PROVE  Stays /\ EdgesSound'
<1>1. PICK o : op' = [op EXCEPT ![a] = o]
  BY CallShape
<1>2. \A n, i : Linked(n, i) => Linked(n, i)'
  BY <1>1, CallEdges, CallKeepsLinks DEF IInv
<1> QED
  BY <1>2, CallEdges, CallGrows DEF Stays

\* What a call holds after its step is sound.
Sound(a) == \E o : OpSound(o)' /\ op' = [op EXCEPT ![a] = o]

LEMMA OneCall ==
    ASSUME DOMAIN op = Agent, \A b \in Agent : OpSound(op[b]), Stays, NEW a \in Agent, Sound(a)
    PROVE  DOMAIN op' = Agent /\ \A b \in Agent : OpSound(op[b])'
<1>1. PICK o : OpSound(o)' /\ op' = [op EXCEPT ![a] = o]
  BY DEF Sound
<1>2. DOMAIN op' = Agent
  BY <1>1
<1>3. ASSUME NEW b \in Agent PROVE OpSound(op[b])'
  <2>1. CASE b = a
    BY <1>1, <2>1
  <2>2. CASE b # a
    <3>1. OpSound(op[b])
      OBVIOUS
    <3>2. op'[b] = op[b]
      BY <1>1, <2>2
    <3>3. \A o2 : OpSound(o2) => OpSound(o2)'
      BY SoundStays
    <3> QED
      BY <3>1, <3>2, <3>3
  <2> QED
    BY <2>1, <2>2
<1> QED
  BY <1>2, <1>3

LEMMA IdleSound ==
    ASSUME NEW a, Return(a)
    PROVE  Sound(a)
<1>1. OpSound(Idle)'
  BY DEF OpSound, Idle, Fields
<1> QED
  BY <1>1 DEF Sound, Return, Become

LEMMA BeginSound ==
    ASSUME IInv, NEW a \in Agent, Begin(a)
    PROVE  Sound(a)
<1>0. DOMAIN row = 1..Len(row) /\ Len(row) \in Nat
  BY DEF IInv, Rows
<1>1. UNCHANGED row
  BY DEF Begin, Add, Update, Forget, Supersede, AddLink, BatchMoveNamespace, RebuildAutoLinks, Enter, storeVars
<1> USE DEF Enter, Become, Idle, Fields, OpSound, Sound
<1>2. CASE Add(a)
  <2>1. PICK w \in Adds, o \in 0..Len(row), l \in 0..Len(row) :
          op' = [op EXCEPT ![a] = [Idle EXCEPT !.kind = "add", !.pc = "dup", !.text = w.text, !.ns = w.ns,
                                               !.old = o, !.link = l]]
    BY <1>2 DEF Add
  <2>2. w.text \in Content /\ w.ns \in Space
    BY MemoryServiceAssumption DEF MemoryServiceAssumption, Space
  <2>3. o \in DOMAIN row \union {0}
    BY ONLY <1>0, o \in 0..Len(row)
  <2> QED
    BY <1>1, <2>1, <2>2, <2>3
<1>3. CASE Update(a)
  <2>1. PICK i \in DOMAIN row, w \in Edits :
          op' = [op EXCEPT ![a] = [Idle EXCEPT !.kind = "update", !.pc = "get", !.id = i, !.text = w.text,
                                               !.ns = w.ns, !.status = w.status]]
    BY <1>3 DEF Update
  <2> DEFINE Given == Name \union {"", "keep"}
  <2>a. w \in [text : Content \union {NoText}, ns : Given, status : {"", "active", "archived"}]
    BY MemoryServiceAssumption DEF MemoryServiceAssumption
  <2>b. w.ns \in Given => w.ns \in Name \union {"", "keep"}
    OBVIOUS
  <2> HIDE DEF Given
  <2>2. /\ w.text \in Content \union {NoText} /\ w.ns \in Name \union {"", "keep"}
        /\ w.status \in {"", "active", "archived"}
    BY <2>a, <2>b
  <2>3. w.ns \in Space \union {"keep"}
    BY <2>2 DEF Space
  <2> QED
    BY <1>1, <2>1, <2>2, <2>3
<1>4. CASE Forget(a) \/ Supersede(a) \/ AddLink(a)
  BY <1>1, <1>4 DEF Forget, Supersede, AddLink
<1>5. CASE BatchMoveNamespace(a)
  <2>1. PICK i \in DOMAIN row, j \in DOMAIN row, n \in Space :
          op' = [op EXCEPT ![a] = [Idle EXCEPT !.kind = "move", !.pc = IF n = "" THEN "get" ELSE "ensure",
                                               !.id = i, !.ns = n, !.todo = {<<k, Blank>> : k \in {j} \ {i}}]]
    BY <1>5 DEF BatchMoveNamespace, Space
  <2> DEFINE rest == {<<k, Blank>> : k \in {j} \ {i}}
             step == IF n = "" THEN "get" ELSE "ensure"
  <2>2. \A copy \in rest : copy[1] \in DOMAIN row
    OBVIOUS
  <2>3. step \in {"get", "ensure"}
    OBVIOUS
  <2> HIDE DEF rest, step
  <2>4. OpSound([Idle EXCEPT !.kind = "move", !.pc = step, !.id = i, !.ns = n, !.todo = rest])'
    BY <1>1, <2>2, <2>3
  <2> QED
    BY <2>1, <2>4 DEF rest, step
<1>6. CASE RebuildAutoLinks(a)
  BY <1>1, <1>6 DEF RebuildAutoLinks
<1> QED
  BY <1>2, <1>3, <1>4, <1>5, <1>6 DEF Begin

LEMMA AdvanceSound ==
    ASSUME NEW a, NEW o, NEW step, Advance(a, o, step), DOMAIN o = Fields,
           \/ o.kind # "move" /\ step = "recycle"
           \/ /\ o.kind = "move" /\ step = "get" /\ o.ns \in Space
              /\ \A copy \in o.todo : copy[1] \in DOMAIN row'
    PROVE  Sound(a)
<1>1. CASE o.todo = {} /\ Return(a)
  BY <1>1, IdleSound
<1>2. ASSUME NEW copy \in o.todo,
             Become(a, [o EXCEPT !.pc = step, !.id = copy[1], !.m = copy[2], !.todo = @ \ {copy}, !.hits = {}])
      PROVE  Sound(a)
  <2> DEFINE new == [o EXCEPT !.pc = step, !.id = copy[1], !.m = copy[2], !.todo = o.todo \ {copy}, !.hits = {}]
  <2>1. /\ DOMAIN new = Fields /\ new.pc = step /\ new.id = copy[1] /\ new.kind = o.kind /\ new.ns = o.ns
        /\ new.todo = o.todo \ {copy}
    BY DEF Fields
  <2>2. op' = [op EXCEPT ![a] = new]
    BY <1>2 DEF Become
  <2> HIDE DEF new
  <2>3. OpSound(new)'
    BY <2>1 DEF OpSound
  <2> QED
    BY <2>2, <2>3 DEF Sound
<1> QED
  BY <1>1, <1>2 DEF Advance

LEMMA AutoNextSound ==
    ASSUME NEW a, NEW H, AutoNext(a, H), DOMAIN op[a] = Fields, op[a].kind # "move"
    PROVE  Sound(a)
<1>1. CASE H = {}
  BY <1>1, AdvanceSound DEF AutoNext
<1>2. CASE H # {}
  BY <1>2 DEF AutoNext, Become, Sound, OpSound, Fields
<1> QED
  BY <1>1, <1>2

\* The steps that read, decide, and write edges or names.
LEMMA LightStepSound ==
    ASSUME IInv, NEW a \in Agent,
           \/ FindDuplicate(a) \/ Ensure(a) \/ GetOld(a) \/ GetNew(a) \/ AddSupersedesEdge(a) \/ AddRelatedEdge(a)
           \/ Recycle(a) \/ FindRelated(a) \/ SkipKnown(a) \/ AddAutoEdge(a) \/ AutoLinkFails(a) \/ CallFails(a)
    PROVE  Rows' /\ Sound(a)
<1>1. UNCHANGED <<row, fts>>
  BY DEF FindDuplicate, Ensure, GetOld, GetNew, AddSupersedesEdge, AddRelatedEdge, Recycle, FindRelated,
     SkipKnown, AddAutoEdge, AutoLinkFails, CallFails, storeVars
<1>2. Stays
  BY CallStays DEF Proceed
<1>3. Rows'
  BY <1>1, <1>2, RowsStay DEF IInv
<1> SUFFICES Sound(a)
  BY <1>3
<1>4. PICK o : o = op[a]
  OBVIOUS
<1>5. OpSound(o) /\ OpSound(o)'
  BY <1>2, <1>4, SoundStays DEF IInv
<1> USE DEF At, Become, Goto
<1>6. CASE FindDuplicate(a)
  <2>1. CASE Return(a)
    BY <2>1, IdleSound
  <2>2. CASE Goto(a, IF o.ns = "" THEN "create" ELSE "ensure")
    <3> DEFINE new == [o EXCEPT !.pc = IF o.ns = "" THEN "create" ELSE "ensure"]
    <3>1. OpSound(new)'
      BY <1>4, <1>5, <1>6 DEF FindDuplicate, OpSound, Fields
    <3> QED
      BY <1>4, <2>2, <3>1 DEF Sound
  <2> QED
    BY <1>4, <1>6, <2>1, <2>2 DEF FindDuplicate
<1>7. CASE Ensure(a)
  <2> DEFINE step == CASE o.kind = "add" -> "create" [] o.kind = "move" -> "get" [] OTHER -> "save"
             new == [o EXCEPT !.pc = step]
  <2>1. \/ o.kind = "add" /\ step = "create"
        \/ o.kind = "move" /\ step = "get"
        \/ o.kind = "update" /\ step = "save"
    BY <1>4, <1>5, <1>7 DEF Ensure, OpSound
  <2>5. op' = [op EXCEPT ![a] = new]
    BY <1>4, <1>7 DEF Ensure
  <2> HIDE DEF step
  <2>2. /\ DOMAIN o = Fields /\ o.pc = "ensure"
        /\ o.kind = "update" => Good(o.id, o.m)'
    BY <1>4, <1>5, <1>7 DEF Ensure, OpSound
  <2>3. /\ DOMAIN new = Fields /\ new.pc = step /\ new.kind = o.kind /\ new.id = o.id /\ new.m = o.m
        /\ new.text = o.text /\ new.ns = o.ns /\ new.old = o.old /\ new.todo = o.todo /\ new.status = o.status
    BY <2>2 DEF Fields
  <2> HIDE DEF new
  <2>4. OpSound(new)'
    BY <1>5, <2>1, <2>2, <2>3 DEF OpSound
  <2> QED
    BY <2>4, <2>5 DEF Sound
<1>8. CASE GetOld(a)
  <2>0. o.old \in DOMAIN row
    BY <1>4, <1>5, <1>8 DEF GetOld, OpSound
  <2>1. PICK w \in Row : w = row[o.old]
    BY <2>0 DEF IInv, Rows
  <2>2. OpSound([o EXCEPT !.was = w, !.pc = "new"])'
    BY <1>4, <1>5, <1>8, <2>1 DEF GetOld, OpSound, Fields
  <2> QED
    BY <1>4, <1>8, <2>1, <2>2 DEF GetOld, Sound
<1>9. CASE GetNew(a)
  <2>1. OpSound([o EXCEPT !.pc = "mark"])' /\ OpSound([o EXCEPT !.pc = "edge"])'
    BY <1>4, <1>5, <1>9 DEF GetNew, OpSound, Fields
  <2> QED
    BY <1>4, <1>9, <2>1, IdleSound DEF GetNew, Sound
<1>10. CASE AddSupersedesEdge(a)
  <2>1. OpSound([o EXCEPT !.pc = "link"])' /\ OpSound([o EXCEPT !.pc = "pool"])'
    BY <1>4, <1>5, <1>10 DEF AddSupersedesEdge, OpSound, Fields
  <2>2. CASE o.kind = "add"
    BY <1>4, <1>10, <2>1, <2>2 DEF AddSupersedesEdge, AfterEdge, Sound
  <2>3. CASE o.kind # "add"
    BY <1>4, <1>10, <2>3, IdleSound DEF AddSupersedesEdge, AfterEdge, Return
  <2> QED
    BY <2>2, <2>3
<1>11. CASE AddRelatedEdge(a)
  <2>1. OpSound([o EXCEPT !.pc = "pool"])'
    BY <1>4, <1>5, <1>11 DEF AddRelatedEdge, OpSound, Fields
  <2>2. CASE o.kind = "add"
    BY <1>4, <1>11, <2>1, <2>2 DEF AddRelatedEdge, Sound
  <2>3. CASE o.kind # "add"
    BY <1>4, <1>11, <2>3, IdleSound DEF AddRelatedEdge, Return
  <2> QED
    BY <2>2, <2>3
<1>12. CASE Recycle(a)
  <2>1. OpSound([o EXCEPT !.pc = "pool"])'
    BY <1>4, <1>5, <1>12 DEF Recycle, OpSound, Fields
  <2> QED
    BY <1>4, <1>12, <2>1 DEF Recycle, Sound
<1>13. CASE FindRelated(a)
  <2>1. PICK H : IF H = {} THEN Advance(a, o, "recycle") ELSE op' = [op EXCEPT ![a] = [o EXCEPT !.hits = H, !.pc = "known"]]
    BY <1>4, <1>13 DEF FindRelated
  <2>2. o.kind # "move" /\ DOMAIN o = Fields
    BY <1>4, <1>5, <1>13 DEF FindRelated, OpSound
  <2>3. OpSound([o EXCEPT !.hits = H, !.pc = "known"])'
    BY <2>2 DEF OpSound, Fields
  <2> QED
    BY <2>1, <2>2, <2>3, AdvanceSound DEF Sound
<1>14. CASE SkipKnown(a) \/ AddAutoEdge(a)
  <2>1. o.kind # "move" /\ DOMAIN o = Fields
    BY <1>4, <1>5, <1>14 DEF SkipKnown, AddAutoEdge, OpSound
  <2>2. \E H : AutoNext(a, H)
    BY <1>14 DEF SkipKnown, AddAutoEdge
  <2> QED
    BY <1>4, <2>1, <2>2, AutoNextSound
<1>15. CASE AutoLinkFails(a)
  <2>1. o.pc \in {"recycle", "pool", "known", "auto"}
    BY <1>4, <1>15 DEF AutoLinkFails
  <2>2. o.kind # "move" /\ DOMAIN o = Fields
    BY <1>5, <2>1 DEF OpSound
  <2>3. OpSound([o EXCEPT !.pc = "auto"])'
    BY <2>2 DEF OpSound, Fields
  <2>4. \/ Advance(a, o, "recycle") \/ op' = [op EXCEPT ![a] = [o EXCEPT !.pc = "auto"]] \/ \E H : AutoNext(a, H)
    BY <1>4, <1>15 DEF AutoLinkFails
  <2> QED
    BY <1>4, <2>2, <2>3, <2>4, AdvanceSound, AutoNextSound DEF Sound
<1>16. CASE CallFails(a)
  BY <1>16, IdleSound DEF CallFails
<1> QED
  BY <1>6, <1>7, <1>8, <1>9, <1>10, <1>11, <1>12, <1>13, <1>14, <1>15, <1>16

\* A row is created as the caller says.
LEMMA CreateSound ==
    ASSUME IInv, NEW a \in Agent, Create(a)
    PROVE  Rows' /\ Sound(a)
<1>1. Stays
  BY CallStays DEF Proceed
<1>2. PICK o : o = op[a]
  OBVIOUS
<1>3. /\ DOMAIN o = Fields /\ o.kind = "add" /\ o.pc = "create"
      /\ o.text \in Content /\ o.ns \in Space /\ o.old \in DOMAIN row \union {0}
  BY <1>2 DEF IInv, OpSound, Create, At
<1> DEFINE m == [content |-> o.text, ns |-> o.ns, source |-> IF o.ns = "" THEN "none" ELSE "explicit",
                 status |-> "active", by |-> 0]
           new == [o EXCEPT !.m = m, !.id = Len(row) + 1]
<1>4. m \in Row /\ m.status = "active"
  BY <1>3 DEF Row, Source, Status
<1>5. /\ CreateRow(m)
      /\ op' = [op EXCEPT ![a] = IF new.old # 0 THEN [new EXCEPT !.pc = "old"] ELSE AfterEdge(new)]
  BY <1>2 DEF Create, Become
<1>6. Rows' /\ DOMAIN row' = DOMAIN row \union {Len(row) + 1}
  BY <1>1, <1>4, <1>5, CreateKeepsRows DEF IInv, Stays
<1>7. PICK i : i = Len(row) + 1 /\ i \notin DOMAIN row /\ i \in DOMAIN row'
  BY <1>6 DEF IInv, Rows
<1> HIDE DEF m
<1>8. ASSUME NEW step \in {"link", "pool"} PROVE OpSound([[o EXCEPT !.m = m, !.id = i] EXCEPT !.pc = step])'
  BY <1>3 DEF OpSound, Fields
<1>9. CASE o.old # 0
  <2>1. o.old \in DOMAIN row' /\ o.old # i
    BY <1>1, <1>3, <1>7, <1>9 DEF Stays
  <2>2. OpSound([[o EXCEPT !.m = m, !.id = i] EXCEPT !.pc = "old"])'
    BY <1>3, <1>7, <2>1 DEF OpSound, Fields
  <2> QED
    BY <1>3, <1>5, <1>6, <1>7, <1>9, <2>2 DEF Sound, Fields
<1>10. CASE o.old = 0
  <2>1. new.old = 0 /\ new.kind = "add"
    BY <1>3, <1>10 DEF Fields
  <2> QED
    BY <1>5, <1>6, <1>7, <1>8, <2>1 DEF Sound, AfterEdge
<1> QED
  BY <1>9, <1>10

\* A call reads the row it is about to change, and changes its copy.
LEMMA GetSound ==
    ASSUME IInv, NEW a \in Agent, GetForUpdate(a) \/ GetForForget(a) \/ GetForMove(a)
    PROVE  Rows' /\ Sound(a)
<1>1. Stays
  BY CallStays DEF Proceed
<1>2. UNCHANGED <<row, fts>>
  BY DEF GetForUpdate, GetForForget, GetForMove, storeVars
<1>3. Rows'
  BY <1>1, <1>2, RowsStay DEF IInv
<1> SUFFICES Sound(a)
  BY <1>3
<1>4. PICK o : o = op[a]
  OBVIOUS
<1>5. /\ OpSound(o) /\ OpSound(o)' /\ DOMAIN o = Fields /\ o.pc = "get" /\ o.id \in DOMAIN row
  BY <1>1, <1>4, SoundStays DEF IInv, OpSound, GetForUpdate, GetForForget, GetForMove, At
<1>6. PICK m : m = row[o.id] /\ m \in Row /\ Good(o.id, m)
  BY <1>5 DEF IInv, Rows
<1>7. /\ Good(o.id, m)'
      /\ o.id \in DOMAIN row'
  BY <1>1, <1>6, GoodStays DEF Good
<1>8. CASE GetForUpdate(a)
  <2> DEFINE n == Changed(o, m)
             new == [o EXCEPT !.m = n, !.dirty = n.content # m.content \/ n.ns # m.ns,
                              !.pc = IF n.ns \in {"", m.ns} THEN "save" ELSE "ensure"]
  <2>1. /\ o.kind = "update" /\ o.text \in Content \union {NoText} /\ o.ns \in Space \union {"keep"}
        /\ o.status \in {"", "active", "archived"}
    BY <1>4, <1>5, <1>8 DEF GetForUpdate, OpSound
  <2>2. op' = [op EXCEPT ![a] = new]
    BY <1>4, <1>6, <1>8 DEF GetForUpdate, Become
  <2>3. n \in Row
    BY <1>6, <2>1 DEF Changed, Row, Source, Status
  <2>4. n.status = "superseded" => m.status = "superseded" /\ n.by = m.by
    BY <1>6, <2>1 DEF Changed, Row
  <2>5. Good(o.id, n)'
    BY <1>7, <2>3, <2>4 DEF Good
  <2>6. /\ DOMAIN new = Fields /\ new.kind = "update" /\ new.pc \in {"save", "ensure"}
        /\ new.id = o.id /\ new.m = n
    BY <1>5, <2>1 DEF Fields
  <2> HIDE DEF new, n
  <2>7. OpSound(new)'
    BY <2>5, <2>6 DEF OpSound
  <2> QED
    BY <2>2, <2>7 DEF Sound
<1>9. CASE GetForForget(a)
  <2> DEFINE n == [m EXCEPT !.status = "deleted"]
             new == [o EXCEPT !.m = n, !.pc = "save"]
  <2>1. op' = [op EXCEPT ![a] = new] /\ o.kind = "forget"
    BY <1>4, <1>6, <1>9 DEF GetForForget, Become
  <2>2. n \in Row /\ n.status # "superseded"
    BY <1>6 DEF Row, Status
  <2>3. Good(o.id, n)'
    BY <1>7, <2>2 DEF Good
  <2>4. DOMAIN new = Fields /\ new.kind = "forget" /\ new.pc = "save" /\ new.id = o.id /\ new.m = n
    BY <1>5, <2>1 DEF Fields
  <2> HIDE DEF new, n
  <2>5. OpSound(new)'
    BY <2>3, <2>4 DEF OpSound
  <2> QED
    BY <2>1, <2>5 DEF Sound
<1>10. CASE GetForMove(a)
  <2> DEFINE n == [m EXCEPT !.ns = o.ns, !.source = IF o.ns = "" THEN "none" ELSE "manual"]
             new == [o EXCEPT !.m = n, !.pc = "save"]
  <2>1. /\ o.kind = "move" /\ o.ns \in Space /\ \A copy \in o.todo : copy[1] \in DOMAIN row'
    BY <1>2, <1>4, <1>5, <1>10 DEF GetForMove, OpSound
  <2>2. Advance(a, o, "get") \/ op' = [op EXCEPT ![a] = new]
    BY <1>4, <1>6, <1>10 DEF GetForMove, Become
  <2>3. n \in Row /\ n.status = m.status /\ n.by = m.by
    BY <1>6, <2>1 DEF Row, Source
  <2>4. Good(o.id, n)'
    BY <1>7, <2>3 DEF Good
  <2>5. /\ DOMAIN new = Fields /\ new.kind = "move" /\ new.pc = "save" /\ new.id = o.id /\ new.m = n
        /\ new.ns = o.ns /\ new.todo = o.todo
    BY <1>5, <2>1 DEF Fields
  <2> HIDE DEF new, n
  <2>6. OpSound(new)'
    BY <1>7, <2>1, <2>4, <2>5 DEF OpSound
  <2>7. Advance(a, o, "get") => Sound(a)
    BY <1>5, <2>1, AdvanceSound
  <2> QED
    BY <2>2, <2>6, <2>7 DEF Sound
<1> QED
  BY <1>8, <1>9, <1>10

\* A call saves the copy it holds.
LEMMA SaveSound ==
    ASSUME IInv, NEW a \in Agent, Save(a)
    PROVE  Rows' /\ Sound(a)
<1>1. Stays
  BY CallStays DEF Proceed
<1>2. PICK o : o = op[a]
  OBVIOUS
<1>3. OpSound(o) /\ DOMAIN o = Fields /\ o.pc = "save" /\ Good(o.id, o.m)
  BY <1>2 DEF IInv, OpSound, Save, At
<1>4. SaveRow(o.id, o.m)
  BY <1>2 DEF Save
<1>5. /\ o.id \in DOMAIN row /\ o.m \in Row
      /\ o.m.status = "superseded" => o.m.by \in DOMAIN row \ {o.id} /\ Linked(o.m.by, o.id)'
  BY <1>1, <1>3 DEF Good, Stays
<1>6. Rows' /\ DOMAIN row' = DOMAIN row
  BY <1>1, <1>4, <1>5, SaveKeepsRows DEF IInv, Stays
<1>7. CASE o.kind = "move"
  <2>1. Advance(a, o, "get")
    BY <1>2, <1>7 DEF Save
  <2>2. o.ns \in Space /\ \A copy \in o.todo : copy[1] \in DOMAIN row'
    BY <1>3, <1>6, <1>7 DEF OpSound
  <2> QED
    BY <1>3, <1>6, <1>7, <2>1, <2>2, AdvanceSound
<1>8. CASE o.kind # "move"
  <2>1. Return(a) \/ op' = [op EXCEPT ![a] = [o EXCEPT !.pc = "recycle"]]
    BY <1>2, <1>8 DEF Save, Goto, Become
  <2>2. OpSound([o EXCEPT !.pc = "recycle"])'
    BY <1>3, <1>8 DEF OpSound, Fields
  <2> QED
    BY <1>6, <2>1, <2>2, IdleSound DEF Sound
<1> QED
  BY <1>7, <1>8

\* A row is marked with its successor, by a call that goes on to the edge.
LEMMA MarkSound ==
    ASSUME IInv, NEW a \in Agent, MarkSuperseded(a)
    PROVE  Rows' /\ Sound(a)
<1>1. Stays
  BY CallStays DEF Proceed
<1>2. PICK o : o = op[a]
  OBVIOUS
<1>3. /\ OpSound(o) /\ OpSound(o)' /\ DOMAIN o = Fields /\ o.pc = "mark"
      /\ o.id \in DOMAIN row /\ o.old \in DOMAIN row /\ o.id # o.old /\ o.was \in Row
  BY <1>1, <1>2, SoundStays DEF IInv, OpSound, MarkSuperseded, At
<1> DEFINE m == [o.was EXCEPT !.status = "superseded", !.by = o.id]
           new == [o EXCEPT !.pc = "edge"]
<1>4. SaveRow(o.old, m) /\ op' = [op EXCEPT ![a] = new]
  BY <1>2 DEF MarkSuperseded, Goto, Become
<1>5. o.id \in Nat
  BY <1>3 DEF IInv, Rows
<1>6. m \in Row /\ m.by = o.id
  BY ONLY <1>3, <1>5 DEF Row, Status, m
<1>7. new.pc = "edge" /\ new.id = o.id /\ new.old = o.old /\ new.kind = o.kind /\ DOMAIN new = Fields
  BY <1>3 DEF Fields
<1> HIDE DEF m, new
<1>8. op'[a] = new
  BY <1>4 DEF IInv
<1>9. Linked(o.id, o.old)'
  BY <1>7, <1>8 DEF Linked, At
<1>10. Rows' /\ DOMAIN row' = DOMAIN row
  BY <1>1, <1>3, <1>4, <1>6, <1>9, SaveKeepsRows DEF IInv, Stays
<1>11. OpSound(new)'
  BY <1>3, <1>7, <1>10 DEF OpSound
<1> QED
  BY <1>4, <1>10, <1>11 DEF Sound

\* The job's copies stay what they are while others work.
LEMMA JobStays ==
    ASSUME JobSound, Stays, UNCHANGED job
    PROVE  JobSound'
<1>1. \A copy : Sane(copy) => Sane(copy)'
  BY SaneStays
<1> QED
  BY <1>1 DEF JobSound, JobAt

LEMMA CallKeeps ==
    ASSUME IInv, NEW a \in Agent, Begin(a) \/ Proceed(a) \/ AutoLinkFails(a) \/ CallFails(a), UNCHANGED jobVars
    PROVE  IInv'
<1>1. Stays /\ EdgesSound'
  BY CallStays
<1>2. Rows' /\ Sound(a)
  <2>1. CASE Begin(a)
    <3>1. UNCHANGED <<row, fts>>
      BY <2>1 DEF Begin, Add, Update, Forget, Supersede, AddLink, BatchMoveNamespace, RebuildAutoLinks, Enter,
         storeVars
    <3> QED
      BY <1>1, <2>1, <3>1, RowsStay, BeginSound DEF IInv
  <2> QED
    BY <2>1, LightStepSound, CreateSound, GetSound, SaveSound, MarkSound DEF Proceed
<1>3. DOMAIN op' = Agent /\ \A b \in Agent : OpSound(op[b])'
  BY <1>1, <1>2, OneCall DEF IInv
<1>4. JobSound'
  BY <1>1, JobStays DEF IInv, jobVars
<1> QED
  BY <1>1, <1>2, <1>3, <1>4 DEF IInv
-----------------------------------------------------------------------------
(* The console's repository calls *)

\* Nothing a call in progress holds, and no trace, is touched by them.
LEMMA ManageLinks ==
    ASSUME Manage
    PROVE  op' = op /\ \A n, i : Linked(n, i) => Linked(n, i)'
<1> USE DEF Direct
<1>1. op' = op
  BY DEF Manage, CreateNamespace, RenameNamespace, MergeNamespaces, DeleteNamespace, RemoveLink
<1>2. CASE CreateNamespace \/ RenameNamespace \/ MergeNamespaces \/ DeleteNamespace
  <2>1. UNCHANGED <<edges, torn>>
    BY <1>2 DEF CreateNamespace, RenameNamespace, MergeNamespaces, DeleteNamespace
  <2> QED
    BY <1>1, <2>1 DEF Linked, At
<1>3. CASE RemoveLink
  <2>1. PICK e \in edges :
          /\ edges' = edges \ {e}
          /\ torn' = IF e.rel = "supersedes" THEN torn \union {<<e.from, e.to>>} ELSE torn
    BY <1>3 DEF RemoveLink
  <2>2. ASSUME NEW n, NEW i, Linked(n, i) PROVE Linked(n, i)'
    <3>1. CASE SameEnds(e, n, i, "supersedes")
      BY <2>1, <3>1 DEF Linked, SameEnds
    <3>2. CASE \E d \in edges \ {e} : SameEnds(d, n, i, "supersedes")
      BY <2>1, <3>2 DEF Linked, SameEnds
    <3>3. CASE <<n, i>> \in torn
      BY <2>1, <3>3 DEF Linked
    <3>4. CASE \E a \in Agent : At(a, "edge") /\ op[a].old = i /\ op[a].id = n
      BY <1>1, <3>4 DEF Linked, At
    <3> QED
      BY <2>2, <3>1, <3>2, <3>3, <3>4 DEF Linked
  <2> QED
    BY <1>1, <2>2
<1> QED
  BY <1>2, <1>3, <1>1 DEF Manage

LEMMA ManageKeeps ==
    ASSUME IInv, Manage, UNCHANGED jobVars
    PROVE  IInv'
<1>1. op' = op /\ \A n, i : Linked(n, i) => Linked(n, i)'
  BY ManageLinks
<1>2. Rows' /\ DOMAIN row' = DOMAIN row
  <2>0. Rows /\ \A j \in DOMAIN row : row[j] \in Row
    BY DEF IInv, Rows
  <2>1. CASE UNCHANGED <<row, fts>>
    BY <1>1, <2>0, <2>1, RowsStay DEF Stays
  <2>2. ASSUME NEW n \in Name, NEW t \in Name, row' = Moved(n, t), fts' = fts
        PROVE  Rows' /\ DOMAIN row' = DOMAIN row
    <3> DEFINE f == [j \in DOMAIN row |-> IF row[j].ns = n THEN [row[j] EXCEPT !.ns = t] ELSE row[j]]
    <3>1. ASSUME NEW j \in DOMAIN row
          PROVE  f[j] \in Row /\ f[j].content = row[j].content /\ f[j].status = row[j].status /\ f[j].by = row[j].by
      <4>1. PICK m \in Row : m = row[j]
        BY <2>0
      <4>2. /\ [m EXCEPT !.ns = t] \in Row
            /\ [m EXCEPT !.ns = t].content = m.content
            /\ [m EXCEPT !.ns = t].status = m.status
            /\ [m EXCEPT !.ns = t].by = m.by
        BY DEF Row, Space
      <4>3. f[j] = m \/ f[j] = [m EXCEPT !.ns = t]
        BY <4>1
      <4> QED
        BY <4>1, <4>2, <4>3
    <3>2. row' = [j \in DOMAIN row |-> f[j]]
      BY <2>2 DEF Moved
    <3> HIDE DEF f
    <3> QED
      BY <1>1, <2>0, <2>2, <3>1, <3>2, MoveKeepsRows
  <2>3. ASSUME NEW n \in Name, row' = Cleared(n), fts' = fts
        PROVE  Rows' /\ DOMAIN row' = DOMAIN row
    <3> DEFINE f == [j \in DOMAIN row |->
                       IF row[j].ns = n THEN [row[j] EXCEPT !.ns = "", !.source = "none"] ELSE row[j]]
    <3>1. ASSUME NEW j \in DOMAIN row
          PROVE  f[j] \in Row /\ f[j].content = row[j].content /\ f[j].status = row[j].status /\ f[j].by = row[j].by
      <4>1. PICK m \in Row : m = row[j]
        BY <2>0
      <4> DEFINE c == [m EXCEPT !.ns = "", !.source = "none"]
      <4>2. c \in Row /\ c.content = m.content /\ c.status = m.status /\ c.by = m.by
        BY DEF Row, Space, Source
      <4>3. f[j] = m \/ f[j] = c
        BY <4>1
      <4> HIDE DEF c
      <4> QED
        BY <4>1, <4>2, <4>3
    <3>2. row' = [j \in DOMAIN row |-> f[j]]
      BY <2>3 DEF Cleared
    <3> HIDE DEF f
    <3> QED
      BY <1>1, <2>0, <2>3, <3>1, <3>2, MoveKeepsRows
  <2>4. CASE CreateNamespace \/ RemoveLink
    BY <2>1, <2>4 DEF CreateNamespace, RemoveLink
  <2>5. CASE RenameNamespace \/ MergeNamespaces
    BY <2>2, <2>5 DEF RenameNamespace, MergeNamespaces, RenameName, MergeName
  <2>6. CASE DeleteNamespace
    BY <2>3, <2>6 DEF DeleteNamespace, DeleteName
  <2> QED
    BY <2>4, <2>5, <2>6 DEF Manage
<1>3. Stays
  BY <1>1, <1>2 DEF Stays
<1>4. ASSUME NEW a \in Agent PROVE OpSound(op[a])'
  <2>1. OpSound(op[a]) /\ op'[a] = op[a]
    BY <1>1 DEF IInv
  <2>2. \A o : OpSound(o) => OpSound(o)'
    BY <1>3, SoundStays
  <2> QED
    BY <2>1, <2>2
<1>5. JobSound'
  BY <1>3, JobStays DEF IInv, jobVars
<1>6. EdgesSound'
  BY DEF Manage, CreateNamespace, RenameNamespace, MergeNamespaces, DeleteNamespace, RemoveLink, EdgesSound, IInv
<1> QED
  BY <1>1, <1>2, <1>4, <1>5, <1>6 DEF IInv
-----------------------------------------------------------------------------
(* The job *)

\* Whatever the job does, the calls and the traces are as before.
LEMMA JobLeaves ==
    ASSUME IInv, UNCHANGED <<op, edges, torn>>, Rows', DOMAIN row' = DOMAIN row, JobSound'
    PROVE  IInv'
<1>1. Stays
  BY DEF Stays, Linked, At
<1>2. ASSUME NEW a \in Agent PROVE OpSound(op[a])'
  <2>1. OpSound(op[a]) /\ op'[a] = op[a]
    BY DEF IInv
  <2>2. \A o : OpSound(o) => OpSound(o)'
    BY <1>1, SoundStays
  <2> QED
    BY <2>1, <2>2
<1>3. EdgesSound'
  BY DEF IInv, EdgesSound
<1> QED
  BY <1>2, <1>3 DEF IInv

\* A job that changes nothing but its place has sound copies.
LEMMA JobMoves ==
    ASSUME JobSound, Stays, NEW step \in JobStep \ {"write"}, job' = [job EXCEPT !.pc = step] \/ job' = NoJob
    PROVE  JobSound'
<1>1. \A copy : Sane(copy) => Sane(copy)'
  BY SaneStays
<1>2. CASE job' = NoJob
  BY <1>2 DEF NoJob, JobSound, JobAt, JobFields
<1>3. CASE job' = [job EXCEPT !.pc = step]
  <2>1. DOMAIN job' = JobFields /\ job'.todo = job.todo /\ job'.answer = job.answer /\ job'.pc # "write"
    BY <1>3 DEF JobSound, JobFields
  <2> QED
    BY <1>1, <2>1 DEF JobSound, JobAt
<1> QED
  BY <1>2, <1>3

LEMMA SortedSane ==
    ASSUME NEW copy, Sane(copy), NEW n \in Name
    PROVE  Sane(Sorted(copy, n))
<1>1. PICK m \in Row : m = copy[2] /\ m.status = "active"
  BY DEF Sane
<1> DEFINE c == [m EXCEPT !.ns = n, !.source = "llm"]
<1>2. c \in Row /\ c.status = "active"
  BY <1>1 DEF Row, Space, Source
<1>3. Sorted(copy, n) = <<copy[1], c>>
  BY <1>1 DEF Sorted
<1> HIDE DEF c
<1> QED
  BY <1>2, <1>3 DEF Sane

LEMMA JobKeeps ==
    ASSUME IInv, StartJob \/ JobStepTaken \/ JobCallFails, UNCHANGED <<op, torn>>
    PROVE  IInv'
<1>0. UNCHANGED edges
  BY DEF StartJob, JobStepTaken, Configure, Collect, Announce, Ask, EnsureAssigned, Assign, WriteProgress,
     FinishJob, JobCallFails, storeVars
<1>1. JobSound /\ DOMAIN job = JobFields /\ Rows
  BY DEF IInv, JobSound
<1>2. CASE Assign
  <2>1. PICK c : c = job.now
    OBVIOUS
  <2>2. PICK j : j = job
    OBVIOUS
  <2>3. Sane(c) /\ SaveRow(c[1], c[2])
    BY <1>1, <1>2, <2>1 DEF Assign, JobSound, JobAt
  <2>4. \A n, k : Linked(n, k) => Linked(n, k)'
    BY <1>0 DEF Linked, At
  <2>5. Rows' /\ DOMAIN row' = DOMAIN row
    BY <1>1, <2>3, <2>4, SaveKeepsRows DEF Sane
  <2>6. Stays
    BY <2>4, <2>5 DEF Stays
  <2> DEFINE left == j.answer \ {c}
             new == [j EXCEPT !.answer = left, !.now = << >>, !.pc = IF left = {} THEN "progress" ELSE "ensure"]
  <2>7. job' = new
    BY <1>2, <2>1, <2>2 DEF Assign
  <2>8. DOMAIN new = JobFields /\ new.todo = j.todo /\ new.answer \subseteq j.answer /\ new.pc # "write"
    BY <1>1, <2>2 DEF JobFields
  <2> HIDE DEF new
  <2>9. \A copy : Sane(copy) => Sane(copy)'
    BY <2>6, SaneStays
  <2>10. JobSound'
    BY <1>1, <2>2, <2>7, <2>8, <2>9 DEF JobSound, JobAt
  <2> QED
    BY <1>0, <2>5, <2>10, JobLeaves
<1>3. CASE ~Assign
  <2>1. UNCHANGED <<row, fts>>
    BY <1>3 DEF StartJob, JobStepTaken, Configure, Collect, Announce, Ask, EnsureAssigned, WriteProgress,
       FinishJob, JobCallFails, storeVars
  <2>2. Stays
    BY <1>0, <2>1 DEF Stays, Linked, At
  <2>3. Rows'
    BY <1>1, <2>1, <2>2, RowsStay
  <2>4. \A copy : Sane(copy) => Sane(copy)'
    BY <2>2, SaneStays
  <2>5. PICK j : j = job
    OBVIOUS
  <2>6. CASE Collect
    <3> DEFINE copies == {<<i, row[i]>> : i \in {k \in DOMAIN row : row[k].ns = "" /\ Active(k)}}
               new == [j EXCEPT !.todo = copies, !.pc = IF copies = {} THEN "done" ELSE "announce"]
    <3>1. job' = new
      BY <2>5, <2>6 DEF Collect
    <3>2. \A copy \in copies : Sane(copy)
      <4> SUFFICES ASSUME NEW k \in DOMAIN row, Active(k) PROVE Sane(<<k, row[k]>>)
        OBVIOUS
      <4>1. row[k] \in Row /\ row[k].status = "active"
        BY <1>1 DEF Rows, Active
      <4> QED
        BY <4>1 DEF Sane
    <3>3. DOMAIN new = JobFields /\ new.todo = copies /\ new.answer = j.answer /\ new.pc # "write"
      BY <1>1, <2>5 DEF JobFields
    <3> HIDE DEF copies, new
    <3> QED
      BY <1>1, <2>4, <2>5, <3>1, <3>2, <3>3, <1>0, <2>1, <2>3, JobLeaves DEF JobSound, JobAt
  <2>7. CASE Ask
    <3>1. CASE \E step \in {"done", "failed"} : JobGoto(step)
      <4>1. PICK step \in JobStep \ {"write"} : job' = [job EXCEPT !.pc = step]
        BY <3>1 DEF JobGoto, JobStep
      <4> QED
        BY <1>0, <1>1, <2>1, <2>2, <2>3, <4>1, JobMoves, JobLeaves
    <3>2. CASE \E batch \in SUBSET j.todo : \E answer \in Answers(batch) :
                 job' = [j EXCEPT !.pc = IF answer = {} THEN "progress" ELSE "ensure",
                                  !.todo = @ \ batch, !.answer = answer, !.asked = @ + 1]
      <4>0. PICK batch \in SUBSET j.todo : \E answer \in Answers(batch) :
                 job' = [j EXCEPT !.pc = IF answer = {} THEN "progress" ELSE "ensure",
                                  !.todo = @ \ batch, !.answer = answer, !.asked = @ + 1]
        BY <3>2
      <4>1. PICK answer \in Answers(batch) :
                 job' = [j EXCEPT !.pc = IF answer = {} THEN "progress" ELSE "ensure",
                                  !.todo = @ \ batch, !.answer = answer, !.asked = @ + 1]
        BY <4>0
      <4>2. \A copy \in j.todo : Sane(copy)
        BY <1>1, <2>5 DEF JobSound
      <4>3. \A copy \in answer : Sane(copy)
        BY <4>2, SortedSane DEF Answers
      <4>4. DOMAIN job' = JobFields /\ job'.todo \subseteq j.todo /\ job'.answer = answer /\ job'.pc # "write"
        BY <1>1, <2>5, <4>1 DEF JobFields
      <4>5. JobSound'
        BY <2>4, <4>2, <4>3, <4>4 DEF JobSound, JobAt
      <4> QED
        BY <1>0, <2>1, <2>3, <4>5, JobLeaves
    <3> QED
      BY <2>5, <2>7, <3>1, <3>2 DEF Ask
  <2>8. CASE EnsureAssigned
    <3>1. PICK copy \in j.answer : job' = [j EXCEPT !.pc = "write", !.now = copy]
      BY <2>5, <2>8 DEF EnsureAssigned
    <3>2. DOMAIN job' = JobFields /\ job'.todo = j.todo /\ job'.answer = j.answer /\ job'.now = copy
      BY <1>1, <2>5, <3>1 DEF JobFields
    <3>3. JobSound'
      BY <1>1, <2>4, <2>5, <3>2 DEF JobSound
    <3> QED
      BY <1>0, <2>1, <2>3, <3>3, JobLeaves
  <2>9. CASE StartJob \/ Configure \/ Announce \/ WriteProgress \/ FinishJob \/ JobCallFails
    <3>1. \E step \in JobStep \ {"write"} : job' = [job EXCEPT !.pc = step] \/ job' = NoJob
      BY <2>9 DEF StartJob, Configure, Announce, WriteProgress, FinishJob, JobCallFails, JobGoto, JobStep
    <3> QED
      BY <1>0, <1>1, <2>1, <2>2, <2>3, <3>1, JobMoves, JobLeaves
  <2> QED
    BY <1>3, <2>6, <2>7, <2>8, <2>9 DEF JobStepTaken
<1> QED
  BY <1>2, <1>3
-----------------------------------------------------------------------------
(* The process *)

LEMMA CrashKeeps ==
    ASSUME IInv, Crash
    PROVE  IInv'
<1> USE DEF Crash, storeVars
<1>1. \A n, i : Linked(n, i) => Linked(n, i)'
  <2> SUFFICES ASSUME NEW n, NEW i, Linked(n, i) PROVE Linked(n, i)'
    OBVIOUS
  <2>1. CASE \E a \in Agent : At(a, "edge") /\ op[a].old = i /\ op[a].id = n
    <3>1. PICK a \in Agent : At(a, "edge") /\ op[a].old = i /\ op[a].id = n
      BY <2>1
    <3>2. <<n, i>> \in TornBy(op[a])
      BY <3>1 DEF TornBy, At
    <3> QED
      BY <3>2 DEF Linked
  <2> QED
    BY <2>1 DEF Linked
<1>2. Stays
  BY <1>1 DEF Stays
<1>3. Rows'
  BY <1>2, RowsStay DEF IInv
<1>4. DOMAIN op' = Agent /\ \A a \in Agent : OpSound(op[a])'
  <2>1. OpSound(Idle)'
    BY DEF OpSound, Idle, Fields
  <2> QED
    BY <2>1
<1>5. JobSound'
  BY <1>2, JobMoves DEF IInv, JobStep
<1> QED
  BY <1>3, <1>4, <1>5 DEF IInv, EdgesSound

LEMMA StepKeeps ==
    ASSUME IInv, [Next]_vars
    PROVE  IInv'
<1>1. CASE Requests
  BY <1>1, CallKeeps, ManageKeeps DEF Requests
<1>2. ASSUME NEW a \in Agent, CallStep(a) PROVE IInv'
  BY <1>2, CallKeeps DEF CallStep
<1>3. CASE Trigger \/ JobProceeds
  BY <1>3, JobKeeps DEF Trigger, JobProceeds, opVars
<1>4. CASE Fault
  BY <1>4, CallKeeps, JobKeeps DEF Fault, opVars
<1>5. CASE Crash
  BY <1>5, CrashKeeps
<1>6. CASE Restart \/ UNCHANGED vars
  <2>1. UNCHANGED <<storeVars, opVars, job>>
    BY <1>6 DEF Restart, vars, jobVars
  <2>2. Stays
    BY <2>1 DEF Stays, Linked, At, storeVars, opVars
  <2>3. Rows'
    BY <2>1, <2>2, RowsStay DEF IInv, storeVars
  <2>4. JobSound'
    BY <2>1, <2>2, JobStays DEF IInv
  <2> QED
    BY <2>1, <2>3, <2>4, JobLeaves DEF storeVars, opVars
<1> QED
  BY <1>1, <1>2, <1>3, <1>4, <1>5, <1>6 DEF Next

LEMMA Invariance == Spec => []IInv
<1>1. Init => IInv
  BY InitSound
<1>2. IInv /\ [Next]_vars => IInv'
  BY StepKeeps
<1> QED
  BY <1>1, <1>2, PTL DEF Spec

\* The full-text index says of every memory what the memory says, for any
\* number of calls, jobs, failures and crashes (syncFTS).
THEOREM IndexRight == Spec => []IndexAgrees
<1>1. IInv => IndexAgrees
  BY DEF IInv, Rows, IndexAgrees
<1> QED
  BY <1>1, Invariance, PTL

\* A superseded memory always names another memory that exists, whatever stale
\* copies are saved meanwhile (MemoryService.Supersede).
THEOREM SuccessorExists == Spec => []SupersededHasSuccessor
<1>1. IInv => SupersededHasSuccessor
  BY DEF IInv, Rows, Good, SupersededHasSuccessor
<1> QED
  BY <1>1, Invariance, PTL

\* Every supersession has left its edge, is about to, was cut off before it, or
\* had it removed by a user (MemoryService.Supersede, RemoveLink).
THEOREM TraceKept == Spec => []Traceable
<1>1. IInv => Traceable
  <2> SUFFICES ASSUME IInv, NEW i \in DOMAIN row, row[i].status = "superseded"
               PROVE  Linked(row[i].by, i)
    BY DEF Traceable, Linked
  <2> QED
    BY DEF IInv, Rows, Good
<1> QED
  BY <1>1, Invariance, PTL
-----------------------------------------------------------------------------
(* What the console shows of the job *)

JobTruth ==
    /\ Running => up /\ jobStatus = "running"
    /\ up /\ ~lost /\ jobStatus = "running" => Running

LEMMA TruthKept ==
    ASSUME IInv, JobTruth, [Next]_vars
    PROVE  JobTruth'
<1> USE DEF JobTruth, Running, JobAt
<1>0. DOMAIN job = JobFields
  BY DEF IInv, JobSound
<1>1. CASE UNCHANGED <<job, jobStatus, lost, up>>
  BY <1>1
<1>2. CASE Requests \/ \E a \in Agent : CallStep(a)
  BY <1>1, <1>2 DEF Requests, CallStep, jobVars, procVars
<1>3. CASE Trigger
  <2>1. job' = [job EXCEPT !.pc = "config"] /\ jobStatus' = "running" /\ up'
    BY <1>3 DEF Trigger, StartJob, JobGoto, procVars
  <2>2. job'.pc = "config"
    BY <1>0, <2>1 DEF JobFields
  <2> QED
    BY <2>1, <2>2
<1>4. CASE JobProceeds
  <2>1. UNCHANGED <<up, lost>> /\ up
    BY <1>4 DEF JobProceeds, procVars, JobStepTaken, Configure, Collect, Announce, Ask, EnsureAssigned, Assign,
       WriteProgress, FinishJob
  <2>2. CASE FinishJob
    BY <2>1, <2>2 DEF FinishJob, NoJob
  <2>3. CASE ~FinishJob
    <3>1. job.pc # "idle" /\ job'.pc # "idle" /\ jobStatus' \in {jobStatus, "running"}
      BY <1>0, <1>4, <2>3 DEF JobFields, JobProceeds, JobStepTaken, Configure, Collect, Announce, Ask,
         EnsureAssigned, Assign, WriteProgress, JobGoto
    <3> QED
      BY <2>1, <3>1
  <2> QED
    BY <2>2, <2>3
<1>5. CASE Fault
  <2>1. CASE JobCallFails
    <3>1. UNCHANGED <<up, jobStatus>> /\ up
      BY <1>5, <2>1 DEF Fault, JobCallFails
    <3>2. \/ job.pc # "idle" /\ job'.pc # "idle" /\ lost' = lost
          \/ job' = NoJob /\ lost' = TRUE
      BY <1>0, <2>1 DEF JobFields, JobCallFails, JobGoto
    <3> QED
      BY <3>1, <3>2 DEF NoJob
  <2>2. CASE UNCHANGED jobVars
    BY <1>1, <1>5, <2>2 DEF Fault, jobVars
  <2> QED
    BY <1>5, <2>1, <2>2 DEF Fault
<1>6. CASE Crash
  BY <1>6 DEF Crash, NoJob
<1>7. CASE Restart
  BY <1>7 DEF Restart, ResetStale
<1>8. CASE UNCHANGED vars
  BY <1>1, <1>8 DEF vars, jobVars, procVars
<1> QED
  BY <1>2, <1>3, <1>4, <1>5, <1>6, <1>7, <1>8 DEF Next

\* The settings say a job runs exactly while one does, unless the write that
\* would say so was lost (MemoryClassifier.Start, finish, ResetStale).
THEOREM JobTold == Spec => []JobHonest
<1>1. Init => JobTruth
  BY DEF Init, ClassifierInit, NoJob, JobTruth, Running, JobAt
<1>2. IInv /\ JobTruth /\ [Next]_vars => JobTruth'
  BY TruthKept
<1>3. JobTruth => JobHonest
  BY DEF JobTruth, JobHonest
<1> QED
  BY <1>1, <1>2, <1>3, Invariance, PTL DEF Spec

\* No step takes away an edge a user or an agent made but the one that is asked
\* to (refreshAutoLinks deletes automatic edges only).
THEOREM UserEdgesSafe == Spec => UserEdgesSpared
<1>1. ASSUME [Next]_vars PROVE [\A e \in edges \ edges' : e.auto \/ RemoveLink]_vars
  <2> SUFFICES ASSUME NEW e \in edges \ edges' PROVE e.auto \/ RemoveLink
    OBVIOUS
  <2> USE DEF storeVars
  <2>1. ASSUME NEW a \in Agent, Begin(a) \/ AutoLinkFails(a) \/ CallFails(a) PROVE UNCHANGED edges
    BY <2>1 DEF Begin, Add, Update, Forget, Supersede, AddLink, BatchMoveNamespace, RebuildAutoLinks, Enter,
       AutoLinkFails, CallFails
  <2>2. ASSUME NEW a \in Agent, Proceed(a) PROVE e.auto
    BY <2>2 DEF Proceed, FindDuplicate, Ensure, Create, GetForUpdate, GetForForget, GetForMove, Save, GetOld,
       GetNew, MarkSuperseded, AddSupersedesEdge, AddRelatedEdge, Recycle, FindRelated, SkipKnown, AddAutoEdge,
       AddEdge, DeleteAuto
  <2>3. StartJob \/ JobStepTaken \/ JobCallFails => UNCHANGED edges
    BY DEF StartJob, JobStepTaken, Configure, Collect, Announce, Ask, EnsureAssigned, Assign, WriteProgress,
       FinishJob, JobCallFails
  <2>4. Manage => RemoveLink
    BY DEF Manage, CreateNamespace, RenameNamespace, MergeNamespaces, DeleteNamespace
  <2>5. UNCHANGED edges => FALSE
    OBVIOUS
  <2> QED
    BY <1>1, <2>1, <2>2, <2>3, <2>4, <2>5 DEF Next, Requests, CallStep, Trigger, JobProceeds, Fault, Crash, Restart,
       vars
<1> QED
  BY <1>1, PTL DEF Spec, UserEdgesSpared
=============================================================================
