------------------------------ MODULE Selector ------------------------------
(***************************************************************************)
(* Which channels a request may be sent to, in which order, and in which    *)
(* protocol: internal/gateway/selector.go, with the queries of              *)
(* internal/model/channel.go it is built from and upstreamProtoFor of the   *)
(* executor.  Pure operators over a snapshot of the channel table.          *)
(*                                                                          *)
(* The weighted shuffle inside a tier can produce every order of it (a      *)
(* weight of 0 or less counts as 1, see WeightedOrder), so that here every  *)
(* sequence that respects the tiers is a possible result.                   *)
(***************************************************************************)
EXTENDS Integers, FiniteSets, Sequences, Functions

CONSTANTS
    Channel,  \* channel identities
    Model     \* model names, the names of custom model groups among them

\* model.Protocol
Protocol == {"chat_completions", "messages", "responses"}

\* model.Channel, as far as routing reads it
ChannelRec == [on : BOOLEAN, vendor : {"anthropic", "openai_compatible"},
               models : SUBSET Model, native : SUBSET Protocol, priority : Int]

\* model.CustomModel: the members of a group, each with its priority.
IsGroup(g) ==
    /\ DOMAIN g \subseteq Model /\ DOMAIN g # {} /\ IsFiniteSet(DOMAIN g)
    /\ \A m \in DOMAIN g : g[m] \in Int

\* lookupGroup found no group of that name
NoGroup == << >>

-----------------------------------------------------------------------------

SupportsModel(ch, m) == ch.models = {} \/ m \in ch.models

IsNative(ch, p) == p \in ch.native

\* A conversion can only be written as chat_completions or messages.  A channel
\* that was never probed successfully (nothing declared) passes.
Convertible(ch) ==
    ch.native = {} \/ IsNative(ch, "chat_completions") \/ IsNative(ch, "messages")

Usable(ch, in, m) ==
    ch.on /\ SupportsModel(ch, m) /\ (IsNative(ch, in) \/ Convertible(ch))

\* The protocol a converted request is written in: the first one declared that
\* is not the inbound one, else the vendor's own.
upstreamProtoFor(ch, in) ==
    LET declared == ch.native \ {in}
    IN CASE "chat_completions" \in declared -> "chat_completions"
         [] "chat_completions" \notin declared /\ "messages" \in declared -> "messages"
         [] declared = {"responses"} -> "responses"
         [] OTHER -> IF ch.vendor = "anthropic" THEN "messages" ELSE "chat_completions"

-----------------------------------------------------------------------------

Candidate == [ch : Channel, native : BOOLEAN, model : Model, up : Protocol]

\* A candidate carries a copy of the channel's row: what it needs of it later
\* (its upstream protocol) is fixed here.
CandidateOf(table, c, in, m) ==
    [ch |-> c, native |-> IsNative(table[c], in), model |-> m,
     up |-> IF IsNative(table[c], in) THEN in ELSE upstreamProtoFor(table[c], in)]

\* The upstream models a request may be sent to: its own, or a group's members.
Wanted(m, group) == IF group = NoGroup THEN {m} ELSE DOMAIN group

Candidates(table, in, m, group) ==
    {CandidateOf(table, x[1], in, x[2]) :
        x \in {y \in Channel \X Wanted(m, group) : Usable(table[y[1]], in, y[2])}}

Rank(native) == IF native THEN 0 ELSE 1

\* What the candidates are sorted by: native before converted, then the
\* channel's priority; in a group the member's priority, the channel's
\* priority, then native before converted.
SortKey(table, group, c) ==
    IF group = NoGroup
    THEN <<Rank(c.native), table[c.ch].priority, 0>>
    ELSE <<group[c.model], table[c.ch].priority, Rank(c.native)>>

LexLeq(a, b) ==
    \/ a[1] < b[1]
    \/ a[1] = b[1] /\ a[2] < b[2]
    \/ a[1] = b[1] /\ a[2] = b[2] /\ a[3] <= b[3]

\* All sequences SelectCandidates may return.
SelectCandidates(table, in, m, group) ==
    LET C == Candidates(table, in, m, group)
    IN {s \in [1 .. Cardinality(C) -> C] :
          /\ Range(s) = C
          /\ \A i, j \in DOMAIN s :
                i < j => LexLeq(SortKey(table, group, s[i]), SortKey(table, group, s[j]))}
=============================================================================
