---------------------------- MODULE MemoryStore ----------------------------
(***************************************************************************)
(* The tables of the memory library (internal/repository/memory_repo.go)    *)
(* and their transactions: the memories with their full-text index, the     *)
(* registered namespaces and the edges between memories.  Every operator    *)
(* that primes a variable is one call of a repository, which is one         *)
(* statement or one transaction of SQLite: atomic, and serialized.          *)
(*                                                                          *)
(* A memory's id is its position in `row`; rows are never removed.  Title,  *)
(* kind, tags and the rest travel with the content and are part of it.      *)
(***************************************************************************)
EXTENDS Integers, Sequences, FiniteSets

CONSTANTS
    MaxId,    \* bound: rows created
    Stored,   \* the contents of the memories of an earlier run of the process
    Content,  \* what a memory says
    Name,     \* names of namespaces, "" not among them
    NoText    \* no content

ASSUME MemoryStoreAssumption ==
    /\ MaxId \in Nat \ {0}
    /\ Name \subseteq STRING
    /\ "" \notin Name
    /\ Content # {}
    /\ NoText \notin Content
    /\ Stored \in Seq(Content)
    /\ Len(Stored) <= MaxId

VARIABLES
    row,       \* memories
    fts,       \* memories_fts: what a search finds each row by
    registry,  \* memory_namespaces
    edges      \* memory_links

storeVars == <<row, fts, registry, edges>>

Status == {"active", "superseded", "archived", "deleted"}
Source == {"none", "explicit", "manual", "llm"}

Memory == [content : Content, ns : Name \union {""}, source : Source,
           status : Status, by : 0..MaxId]

\* auto marks an edge created_by the system.
Edge == [from : 1..MaxId, to : 1..MaxId, rel : {"related", "supersedes"}, auto : BOOLEAN]

StoreTypeOK ==
    /\ row \in Seq(Memory)
    /\ Len(row) <= MaxId
    /\ fts \in Seq(Content)
    /\ Len(fts) = Len(row)
    /\ registry \subseteq Name
    /\ edges \subseteq Edge

Plain(c) == [content |-> c, ns |-> "", source |-> "none", status |-> "active", by |-> 0]

StoreInit ==
    /\ row = [i \in DOMAIN Stored |-> Plain(Stored[i])]
    /\ fts = Stored
    /\ registry = {}
    /\ edges = {}

Active(i) == row[i].status = "active"

\* syncFTS
syncFTS(i, m) == fts' = [fts EXCEPT ![i] = m.content]

\* MemoryRepo.Create
CreateRow(m) ==
    /\ row' = Append(row, m)
    /\ fts' = Append(fts, m.content)

\* Mutant: the index is not written with the row.
SaveRowOnly(i, m) == row' = [row EXCEPT ![i] = m] /\ fts' = fts

\* MemoryRepo.Update writes every column of the row.
SaveRow(i, m) ==
    /\ row' = [row EXCEPT ![i] = m]
    /\ syncFTS(i, m)

\* MemoryRepo.GetByHash
HasDuplicate(c, n) == \E i \in DOMAIN row : Active(i) /\ row[i].content = c /\ row[i].ns = n

\* MemoryNamespaceRepo.Ensure
EnsureName(n) == registry' = registry \union {n}

\* What UPDATE memories SET namespace = new WHERE namespace = old leaves.
Moved(old, new) == [i \in DOMAIN row |-> IF row[i].ns = old THEN [row[i] EXCEPT !.ns = new] ELSE row[i]]

\* MemoryNamespaceRepo.Rename
RenameName(from, to) ==
    /\ from # to
    /\ to \notin registry
    /\ from \in registry
    /\ registry' = (registry \ {from}) \union {to}
    /\ row' = Moved(from, to)

\* MemoryNamespaceRepo.Merge, which does not ask whether `from` is registered.
MergeName(from, to) ==
    /\ from # to
    /\ to \in registry
    /\ registry' = registry \ {from}
    /\ row' = Moved(from, to)

\* clearNamespaceTx
Cleared(n) ==
    [i \in DOMAIN row |->
        IF row[i].ns = n THEN [row[i] EXCEPT !.ns = "", !.source = "none"] ELSE row[i]]

\* MemoryNamespaceRepo.Delete
DeleteName(n) ==
    /\ n \in registry
    /\ registry' = registry \ {n}
    /\ row' = Cleared(n)

SameEnds(e, i, j, r) == e.from = i /\ e.to = j /\ e.rel = r

\* MemoryLinkRepo.Add: an edge that exists, whoever made it, stays as it is.
AddEdge(i, j, r, auto) ==
    edges' = IF \E e \in edges : SameEnds(e, i, j, r)
             THEN edges
             ELSE edges \union {[from |-> i, to |-> j, rel |-> r, auto |-> auto]}

\* Mutant: who made the edge is not asked.
DeleteOutgoing(i) == edges' = {e \in edges : e.from # i}

\* MemoryLinkRepo.DeleteAutoByMemory
DeleteAuto(i) == edges' = {e \in edges : ~(e.from = i /\ e.auto)}

\* MemoryLinkRepo.ListByMemory, reduced to the other ends.
Neighbours(i) == {e.to : e \in {d \in edges : d.from = i}} \union {e.from : e \in {d \in edges : d.to = i}}
=============================================================================
