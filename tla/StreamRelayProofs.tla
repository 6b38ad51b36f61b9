-------------------------- MODULE StreamRelayProofs --------------------------
(***************************************************************************)
(* Proofs about StreamRelay, for any streams, scripts, cuts and requests   *)
(* beside them and a window of any length: what the converters say of a    *)
(* stream's tokens, that the tracker counts tokens once, that what a       *)
(* client has been sent is framed as its protocol wants it, whatever the   *)
(* upstream sends and wherever it breaks off, and that it is what the      *)
(* upstream said: the text and the arguments of the events read whole, and *)
(* the reason given last.                                                  *)
(***************************************************************************)
EXTENDS StreamRelay, Sums, SequenceTheorems

-----------------------------------------------------------------------------
\* A window moves by one: the first value leaves it and a new one comes last.
Moved(b, c) == [i \in 1..Window |-> IF i < Window THEN b[i + 1] ELSE c]

LEMMA SumMoved ==
    ASSUME NEW b \in [1..Window -> Int], NEW c \in Int
    PROVE  SumFunction(Moved(b, c)) = SumFunction(b) - b[1] + c
<1>0. Window \in Nat \ {0}
  BY ThroughputAssumption
<1>1. PICK w : w = Moved(b, c)
  OBVIOUS
<1>2. /\ DOMAIN w = 1..Window /\ w[Window] = c
      /\ \A i \in 1..Window : i < Window => w[i] = b[i + 1]
  BY <1>0, <1>1 DEF Moved
<1>3. \A i \in 1..Window : w[i] \in Int
  BY <1>0, <1>2
<1>4. \A n \in Nat : n < Window =>
          /\ First(w, n) \in Int /\ First(w, n + 1) = w[n + 1] + First(w, n)
          /\ First(b, n) \in Int /\ First(b, n + 1) = b[n + 1] + First(b, n) /\ First(b, n + 1) \in Int
  <2>1. \A i \in 1..Window : b[i] \in Int
    BY <1>0
  <2> QED BY <1>0, <1>3, <2>1, FirstNext
<1> DEFINE T == {n \in Nat : n < Window => First(w, n) = First(b, n + 1) - b[1]}
<1>5. 0 \in T
  <2>1. First(b, 0 + 1) = b[0 + 1] + 0 /\ First(w, 0) = 0 /\ b[0 + 1] \in Int
    BY <1>0, <1>4, FirstNone
  <2> QED BY <2>1
<1>6. ASSUME NEW n \in Nat, n \in T PROVE n + 1 \in T
  <2>0. SUFFICES ASSUME n + 1 < Window
                 PROVE  First(w, n + 1) = First(b, (n + 1) + 1) - b[1]
    OBVIOUS
  <2>1. n < Window /\ n + 1 \in Nat /\ n + 1 \in 1..Window
    BY <1>0, <2>0
  <2>2. First(w, n) = First(b, n + 1) - b[1]
    BY <1>6, <2>1
  <2>3. First(w, n + 1) = w[n + 1] + First(w, n)
    BY <1>4, <2>1
  <2>4. First(b, (n + 1) + 1) = b[(n + 1) + 1] + First(b, n + 1) /\ First(b, n + 1) \in Int
    BY <1>4, <2>0, <2>1
  <2>5. w[n + 1] = b[(n + 1) + 1] /\ w[n + 1] \in Int /\ b[1] \in Int
    BY <1>0, <1>2, <1>3, <2>0, <2>1
  <2> QED BY <2>2, <2>3, <2>4, <2>5
<1>7. Window - 1 \in Nat /\ Window - 1 < Window /\ Window - 1 + 1 = Window
  BY <1>0
<1> HIDE DEF T
<1>8. Window - 1 \in T
  BY <1>5, <1>6, <1>7, NatRange
<1>9. First(w, Window - 1) = First(b, Window) - b[1]
  BY <1>7, <1>8 DEF T
<1>10. First(w, Window) = c + First(w, Window - 1) /\ First(b, Window) \in Int
  BY <1>2, <1>4, <1>7
<1>11. SumFunction(w) = First(w, Window) /\ SumFunction(b) = First(b, Window) /\ b[1] \in Int
  BY <1>0, <1>2 DEF SumFunction, First
<1> QED BY <1>1, <1>9, <1>10, <1>11

-----------------------------------------------------------------------------
\* Folds over sequences.

\* The recursive function FoldLeft folds with, see MapThenFoldSet of Folds.
Folding(base, q, it, s) == IF s = {} THEN base ELSE Tool(it[s \ {Max(s)}], q[Max(s)])
IsFold(it, base, q) == it = [s \in SUBSET DOMAIN q |-> Folding(base, q, it, s)]

Tools(c, q) == FoldLeft(Tool, c, q)

LEMMA FoldChosen ==
    \A base, q : Tools(base, q) = (CHOOSE it : IsFold(it, base, q))[DOMAIN q]
  BY DEF Tools, FoldLeft, MapThenFoldSet, IsFold, Folding

LEMMA FoldExists ==
    ASSUME NEW base, NEW q, NEW n \in Nat, DOMAIN q = 1..n
    PROVE  \E it : IsFold(it, base, q)
<1> DEFINE D == 1..n
           Upto(g, m) == \A s \in SUBSET D : Cardinality(s) <= m => g[s] = Folding(base, q, g, s)
           T == {m \in Nat : \E g : Upto(g, m)}
<1>0. IsFiniteSet(D) /\ \A s \in SUBSET D : IsFiniteSet(s) /\ Cardinality(s) \in Nat
  <2>1. IsFiniteSet(D)
    BY FS_Interval
  <2> HIDE DEF D
  <2> QED BY <2>1, FS_Subset, FS_CardinalityType
<1>1. 0 \in T
  <2> DEFINE g == [s \in SUBSET D |-> base]
  <2>1. ASSUME NEW s \in SUBSET D, Cardinality(s) <= 0 PROVE g[s] = Folding(base, q, g, s)
    <3>1. s = {}
      BY <1>0, <2>1, FS_EmptySet
    <3> QED BY <3>1 DEF Folding
  <2> HIDE DEF g
  <2>2. Upto(g, 0)
    BY <2>1
  <2> QED BY <2>2
<1>2. ASSUME NEW m \in Nat, m \in T PROVE m + 1 \in T
  <2>1. PICK g : Upto(g, m)
    BY <1>2
  <2> DEFINE h == [s \in SUBSET D |-> IF Cardinality(s) = m + 1 THEN Folding(base, q, g, s) ELSE g[s]]
  <2>2. ASSUME NEW s \in SUBSET D, Cardinality(s) <= m + 1 PROVE h[s] = Folding(base, q, h, s)
    <3>1. CASE s = {}
      <4>1. h[s] = g[s] /\ g[s] = Folding(base, q, g, s)
        BY <2>1, <3>1, FS_EmptySet
      <4> QED BY <3>1, <4>1 DEF Folding
    <3>2. CASE s # {}
      <4> DEFINE r == s \ {Max(s)}
      <4>1. r \in SUBSET D /\ Cardinality(r) \in Nat /\ Cardinality(s) = Cardinality(r) + 1
        BY <1>0, <3>2, HasMax, FewerElements
      <4>2. Cardinality(r) <= m /\ Cardinality(r) # m + 1
        BY <2>2, <4>1
      <4>3. h[r] = g[r]
        BY <4>1, <4>2
      <4>4. Folding(base, q, h, s) = Folding(base, q, g, s)
        BY <4>3 DEF Folding
      <4>5. CASE Cardinality(s) = m + 1
        BY <4>4, <4>5
      <4>6. CASE Cardinality(s) # m + 1
        <5>1. Cardinality(s) <= m
          BY <2>2, <4>1, <4>6
        <5> QED BY <2>1, <4>4, <4>6, <5>1
      <4> QED BY <4>5, <4>6
    <3> QED BY <3>1, <3>2
  <2> HIDE DEF h
  <2>3. Upto(h, m + 1)
    BY <2>2
  <2> QED BY <2>3
<1> HIDE DEF T
<1>3. Cardinality(D) \in T
  BY <1>0, <1>1, <1>2, NatRange
<1> USE DEF T
<1>4. PICK g : Upto(g, Cardinality(D))
  BY <1>3
<1> DEFINE it == [s \in SUBSET D |-> g[s]]
<1>5. ASSUME NEW s \in SUBSET D PROVE it[s] = Folding(base, q, it, s)
  <2>1. Cardinality(s) <= Cardinality(D)
    BY <1>0, FS_Subset
  <2>2. g[s] = Folding(base, q, g, s)
    BY <1>4, <2>1
  <2>3. s # {} => it[s \ {Max(s)}] = g[s \ {Max(s)}]
    OBVIOUS
  <2> QED BY <2>2, <2>3 DEF Folding
<1>6. it = [s \in SUBSET D |-> it[s]]
  OBVIOUS
<1> HIDE DEF it
<1>7. it = [s \in SUBSET D |-> Folding(base, q, it, s)]
  BY <1>5, <1>6
<1> QED BY <1>7 DEF IsFold

\* A fold is a run of steps, one for each element.
IsRun(h, base, q, n) ==
    h[0] = base /\ (\A i \in Nat : i < n => h[i + 1] = Tool(h[i], q[i + 1])) /\ Tools(base, q) = h[n]

LEMMA FoldSteps ==
    ASSUME NEW base, NEW q, NEW n \in Nat, DOMAIN q = 1..n
    PROVE  \E h : IsRun(h, base, q, n)
<1>1. PICK it : it = (CHOOSE x : IsFold(x, base, q))
  OBVIOUS
<1>2. IsFold(it, base, q)
  BY <1>1, FoldExists
<1>3. \A s \in SUBSET (1..n) : it[s] = Folding(base, q, it, s)
  BY <1>2 DEF IsFold
<1> DEFINE h == [i \in 0..n |-> it[1..i]]
<1>4. h[0] = base
  <2>1. 1..0 = {} /\ 0 \in 0..n
    OBVIOUS
  <2>2. it[1..0] = base
    BY <1>3, <2>1 DEF Folding
  <2> QED BY <2>1, <2>2
<1>5. ASSUME NEW i \in Nat, i < n PROVE h[i + 1] = Tool(h[i], q[i + 1])
  <2>1. PICK s : s = 1..i + 1
    OBVIOUS
  <2>2. s \in SUBSET (1..n) /\ s # {} /\ i + 1 \in s /\ \A y \in s : y \in Int /\ i + 1 >= y
    <3>1. i + 1 \in 1..i + 1 /\ i + 1 \in Nat /\ i + 1 <= n
      BY <1>5
    <3>2. \A y \in 1..i + 1 : y \in 1..n /\ y \in Int /\ i + 1 >= y
      BY <1>5
    <3> QED BY <2>1, <3>1, <3>2
  <2>3. Max(s) \in s /\ Max(s) >= i + 1
    BY <2>2, HasMax
  <2>4. Max(s) = i + 1
    <3>1. PICK x : x = Max(s)
      OBVIOUS
    <3>2. x \in Int /\ x >= i + 1 /\ i + 1 >= x
      BY <2>2, <2>3, <3>1
    <3>3. x = i + 1
      BY <3>2
    <3> QED BY <3>1, <3>3
  <2>5. s \ {i + 1} = 1..i
    BY <2>1
  <2>6. it[s] = Tool(it[1..i], q[i + 1])
    BY <1>3, <2>2, <2>4, <2>5 DEF Folding
  <2>7. i \in 0..n /\ i + 1 \in 0..n
    BY <1>5
  <2> QED BY <2>1, <2>6, <2>7
<1>6. Tools(base, q) = h[n]
  <2>1. Tools(base, q) = it[DOMAIN q]
    BY <1>1, FoldChosen
  <2> QED BY <2>1
<1> HIDE DEF h
<1> QED BY <1>4, <1>5, <1>6 DEF IsRun

\* The recursive function FlattenSeq concatenates with.
IsFlat(f, q) == f = [i \in 1..Len(q) |-> IF i = 1 THEN q[i] ELSE f[i - 1] \o q[i]]

LEMMA FlatChosen ==
    \A q : FlattenSeq(q) = IF Len(q) = 0 THEN q ELSE (CHOOSE f : IsFlat(f, q))[Len(q)]
  BY DEF FlattenSeq, IsFlat

LEMMA FlatExists ==
    ASSUME NEW q, NEW n \in Nat, Len(q) = n
    PROVE  \E f : IsFlat(f, q)
<1> DEFINE Upto(g, m) == \A i \in 1..m : g[i] = IF i = 1 THEN q[i] ELSE g[i - 1] \o q[i]
           T == {m \in Nat : \E g : Upto(g, m)}
<1>1. 0 \in T
  <2>1. \A g : Upto(g, 0)
    OBVIOUS
  <2> QED BY <2>1
<1>2. ASSUME NEW m \in Nat, m \in T PROVE m + 1 \in T
  <2>1. PICK g : Upto(g, m)
    BY <1>2
  <2> DEFINE h == [i \in 1..m + 1 |-> IF i = 1 THEN q[i] ELSE IF i = m + 1 THEN g[m] \o q[i] ELSE g[i]]
  <2>2. ASSUME NEW i \in 1..m + 1 PROVE h[i] = IF i = 1 THEN q[i] ELSE h[i - 1] \o q[i]
    <3>0. \A j \in 1..m : h[j] = g[j]
      <4>1. ASSUME NEW j \in 1..m PROVE h[j] = g[j]
        <5>1. j \in 1..m + 1 /\ j # m + 1
          OBVIOUS
        <5>2. j = 1 => g[j] = q[j]
          BY <2>1
        <5> QED BY <5>1, <5>2
      <4> QED BY <4>1
    <3>1. CASE i = 1
      BY <3>1
    <3>2. CASE i # 1 /\ i = m + 1
      <4>1. i - 1 = m /\ m \in 1..m
        BY <3>2
      <4>2. h[m] = g[m]
        BY <3>0, <4>1
      <4> QED BY <3>2, <4>1, <4>2
    <3>3. CASE i # 1 /\ i # m + 1
      <4>1. i \in 1..m /\ i - 1 \in 1..m
        BY <3>3
      <4> HIDE DEF h
      <4> QED BY <2>1, <3>0, <3>3, <4>1
    <3> QED BY <3>1, <3>2, <3>3
  <2> HIDE DEF h
  <2>3. Upto(h, m + 1)
    BY <2>2
  <2> QED BY <2>3
<1> HIDE DEF T
<1>3. n \in T
  BY <1>1, <1>2, NatRange
<1>4. PICK g : Upto(g, n)
  BY <1>3 DEF T
<1> DEFINE f == [i \in 1..n |-> g[i]]
<1>5. ASSUME NEW i \in 1..n PROVE f[i] = IF i = 1 THEN q[i] ELSE f[i - 1] \o q[i]
  <2>1. i # 1 => i - 1 \in 1..n
    OBVIOUS
  <2> QED BY <1>4, <2>1
<1>6. f = [i \in 1..n |-> f[i]]
  OBVIOUS
<1> HIDE DEF f
<1>7. f = [i \in 1..n |-> IF i = 1 THEN q[i] ELSE f[i - 1] \o q[i]]
  BY <1>5, <1>6
<1> QED BY <1>7 DEF IsFlat

LEMMA FlatType ==
    ASSUME NEW S, NEW q \in Seq(Seq(S))
    PROVE  FlattenSeq(q) \in Seq(S)
<1>1. PICK n \in Nat : n = Len(q)
  OBVIOUS
<1>2. \A i \in 1..n : q[i] \in Seq(S)
  BY <1>1
<1>3. CASE n = 0
  <2>1. q = << >> /\ << >> \in Seq(S)
    BY <1>1, <1>3, EmptySeq
  <2> QED BY <1>1, <1>3, <2>1, FlatChosen
<1>4. CASE n # 0
  <2>1. PICK f : f = (CHOOSE x : IsFlat(x, q))
    OBVIOUS
  <2>2. IsFlat(f, q)
    BY <1>1, <2>1, FlatExists
  <2>3. \A i \in 1..n : f[i] = IF i = 1 THEN q[i] ELSE f[i - 1] \o q[i]
    BY <1>1, <2>2 DEF IsFlat
  <2> DEFINE T == {m \in Nat : m < n => f[m + 1] \in Seq(S)}
  <2>4. 0 \in T
    <3>1. 0 + 1 \in 1..n /\ 0 + 1 = 1
      BY <1>4
    <3> QED BY <1>2, <2>3, <3>1
  <2>5. ASSUME NEW m \in Nat, m \in T PROVE m + 1 \in T
    <3> SUFFICES ASSUME m + 1 < n PROVE f[m + 1 + 1] \in Seq(S)
      OBVIOUS
    <3>1. PICK i : i = m + 1 + 1
      OBVIOUS
    <3>2. i \in 1..n /\ i # 1 /\ i - 1 = m + 1 /\ m < n
      BY <3>1
    <3>3. f[m + 1] \in Seq(S) /\ q[i] \in Seq(S)
      BY <1>2, <2>5, <3>2
    <3>4. f[i] = f[m + 1] \o q[i]
      BY <2>3, <3>2
    <3> QED BY <3>1, <3>3, <3>4
  <2>6. n - 1 \in Nat /\ n - 1 < n /\ n - 1 + 1 = n
    BY <1>4
  <2> HIDE DEF T
  <2>7. n - 1 \in T
    BY <2>4, <2>5, <2>6, NatRange
  <2>8. f[n] \in Seq(S)
    BY <2>6, <2>7 DEF T
  <2> QED BY <1>1, <1>4, <2>1, <2>8, FlatChosen
<1> QED BY <1>3, <1>4

-----------------------------------------------------------------------------
(* What a converter knows of its stream *)

\* The fields a parser fills, and those it depends on.
Told(c) == {"client", "up", "text", "args", "finish", "usage"} \subseteq DOMAIN c

\* d differs from c in what was written only.
Same(c, d) ==
    /\ Told(c) /\ Told(d)
    /\ d.client = c.client /\ d.up = c.up /\ d.text = c.text
    /\ d.args = c.args /\ d.finish = c.finish /\ d.usage = c.usage

LEMMA SameSame ==
    /\ \A c, d, e : Same(c, d) /\ Same(d, e) => Same(c, e)
    /\ \A c, d : Same(c, d) => Told(c) /\ Told(d) /\ d.client = c.client
    /\ \A c : Told(c) => Same(c, c)
  BY DEF Same

LEMMA SameEmit ==
    ASSUME NEW c, Told(c)
    PROVE  /\ \A events : Same(c, Emit(c, events)) /\ Same(c, EmitNumbered(c, events))
           /\ \A key : Same(c, Announce(c, key))
           /\ Same(c, Taken(c))
<1>1. ASSUME NEW events PROVE Same(c, Emit(c, events))
  BY DEF Same, Told, Emit
<1>2. ASSUME NEW events PROVE Same(c, EmitNumbered(c, events))
  <2>1. PICK d : d = Emit(c, Numbered(c, events))
    OBVIOUS
  <2>2. Same(c, d)
    BY <2>1 DEF Same, Told, Emit
  <2>3. Same(d, [d EXCEPT !.seq = @ + Len(events)])
    BY <2>2 DEF Same, Told
  <2> QED BY <2>1, <2>2, <2>3, SameSame DEF EmitNumbered
<1>3. Same(c, Taken(c)) /\ \A key : Same(c, Announce(c, key))
  BY DEF Same, Told, Taken, Announce
<1> QED BY <1>1, <1>2, <1>3

\* The head of a stream, and what is made of a tool event, of new text and of
\* the end, only write.
LEMMA SameOpen ==
    ASSUME NEW c, Told(c), c.client \in {"chat", "messages", "responses"}
    PROVE  Same(c, Open(c))
<1>0. Same(c, c)
  BY SameSame
<1>1. Same(c, chatHead(c))
  BY DEF Same, Told, chatHead
<1>2. Same(c, messagesHead(c))
  <2>1. PICK d : d = Emit(c, <<Event("message_start", 0, << >>), Event("block_start", 0, "text")>>)
    OBVIOUS
  <2>2. Same(c, d)
    BY <2>1, SameEmit
  <2>3. Same(d, [d EXCEPT !.started = TRUE, !.textOpen = TRUE, !.openTool = None, !.next = 1])
    BY <2>2 DEF Same, Told
  <2> QED BY <1>0, <2>1, <2>2, <2>3, SameSame DEF messagesHead
<1>3. Same(c, responsesHead(c))
  <2>1. PICK d : d = EmitNumbered(c, <<Event("created", 0, << >>), Event("in_progress", 0, << >>)>>)
    OBVIOUS
  <2>2. Same(c, d)
    BY <2>1, SameEmit
  <2>3. Same(d, [d EXCEPT !.started = TRUE])
    BY <2>2 DEF Same, Told
  <2> QED BY <1>0, <2>1, <2>2, <2>3, SameSame DEF responsesHead
<1> QED BY <1>1, <1>2, <1>3 DEF Open

LEMMA SameTool ==
    ASSUME NEW c, Told(c), c.client \in {"chat", "messages", "responses"}, NEW e
    PROVE  Same(c, Tool(c, e))
<1> DEFINE a == Announce(c, e.key)
<1>0. Same(c, c) /\ Same(c, a) /\ Told(a)
  BY SameSame, SameEmit
<1> HIDE DEF a
<1>1. Same(c, chatTool(c, e))
  <2>1. chatTool(c, e) = c \/ \E d \in {c, a} : \E ev : chatTool(c, e) = Emit(d, ev)
    BY DEF chatTool, a
  <2> QED BY <1>0, <2>1, SameSame, SameEmit
<1>2. Same(c, messagesTool(c, e))
  <2>1. PICK d : d = [a EXCEPT !.textOpen = FALSE, !.openTool = c.next]
    OBVIOUS
  <2>2. Same(a, d)
    BY <1>0, <2>1 DEF Same, Told
  <2>3. Same(c, d) /\ Told(d)
    BY <1>0, <2>2, SameSame
  <2>4. messagesTool(c, e) = c \/ \E x \in {c, d} : \E ev : messagesTool(c, e) = Emit(x, ev)
    BY <2>1 DEF messagesTool, a
  <2> QED BY <1>0, <2>3, <2>4, SameSame, SameEmit
<1>3. Same(c, responsesTool(c, e))
  <2>1. PICK d : d = [a EXCEPT !.callArgs = With(c.callArgs, e.key, << >>)]
    OBVIOUS
  <2>2. PICK f : f = [c EXCEPT !.callArgs[e.key] = @ \o e.args]
    OBVIOUS
  <2>3. Same(a, d) /\ Same(c, f)
    BY <1>0, <2>1, <2>2 DEF Same, Told
  <2>4. Same(c, d) /\ Told(d) /\ Told(f)
    BY <1>0, <2>3, SameSame
  <2>5. responsesTool(c, e) = c \/ \E x \in {d, f} : \E ev : responsesTool(c, e) = EmitNumbered(x, ev)
    BY <2>1, <2>2 DEF responsesTool, a
  <2> QED BY <1>0, <2>3, <2>4, <2>5, SameSame, SameEmit
<1> QED BY <1>1, <1>2, <1>3 DEF Tool

LEMMA SameMessage ==
    ASSUME NEW c, Told(c)
    PROVE  Same(c, ensureMsg(c)) /\ Same(c, ensurePart(c))
<1>0. Same(c, c)
  BY SameSame
<1>1. PICK d : d = [c EXCEPT !.msgOut = c.next, !.next = @ + 1]
  OBVIOUS
<1>2. PICK f : f = [c EXCEPT !.part = TRUE]
  OBVIOUS
<1>3. Same(c, d) /\ Same(c, f)
  BY <1>1, <1>2 DEF Same, Told
<1>4. Told(d) /\ Told(f)
  BY <1>3, SameSame
<1>5. /\ ensureMsg(c) = c \/ \E ev : ensureMsg(c) = EmitNumbered(d, ev)
      /\ ensurePart(c) = c \/ \E ev : ensurePart(c) = EmitNumbered(f, ev)
  BY <1>1, <1>2 DEF ensureMsg, ensurePart
<1> QED BY <1>0, <1>3, <1>4, <1>5, SameSame, SameEmit

LEMMA SameText ==
    ASSUME NEW c, Told(c)
    PROVE  Same(c, chatText(c)) /\ Same(c, messagesText(c)) /\ Same(c, responsesText(c))
<1>0. /\ Same(c, c) /\ Same(c, Taken(c))
      /\ \A events : Same(c, Emit(c, events)) /\ Told(Emit(c, events))
  BY SameSame, SameEmit
<1>1. \A events : Same(c, Taken(Emit(c, events)))
  BY <1>0, SameSame, SameEmit
<1>2. Same(c, chatText(c)) /\ Same(c, messagesText(c))
  BY <1>0, <1>1 DEF chatText, messagesText
<1>3. PICK t : t = ensurePart(ensureMsg(c))
  OBVIOUS
<1>4. Same(c, t) /\ Told(t)
  BY <1>3, SameMessage, SameSame
<1>5. \A events : Same(c, Taken(EmitNumbered(t, events)))
  BY <1>4, SameSame, SameEmit
<1>6. Same(c, responsesText(c))
  BY <1>0, <1>3, <1>5 DEF responsesText
<1> QED BY <1>2, <1>6

LEMMA SameFinalize ==
    ASSUME NEW c, Told(c), c.client \in {"chat", "messages", "responses", "native"}
    PROVE  Same(c, Finalize(c))
<1>0. Same(c, c)
  BY SameSame
<1>1. Same(c, chatFinalize(c))
  <2>1. Same(c, chatText(c)) /\ Told(chatText(c))
    BY SameText, SameSame
  <2> QED BY <2>1, SameSame, SameEmit DEF chatFinalize
<1>2. Same(c, messagesFinalize(c))
  <2>1. PICK t : t = messagesText(c)
    OBVIOUS
  <2>2. Same(c, t) /\ Told(t)
    BY <2>1, SameText, SameSame
  <2>3. PICK d : d = [t EXCEPT !.openTool = None, !.textOpen = FALSE]
    OBVIOUS
  <2>4. Same(t, d)
    BY <2>2, <2>3 DEF Same, Told
  <2>5. \E ev : messagesFinalize(c) = Emit(d, ev)
    BY <2>1, <2>3 DEF messagesFinalize
  <2> QED BY <2>2, <2>4, <2>5, SameSame, SameEmit
<1>3. Same(c, responsesFinalize(c))
  <2>0. PICK p : p = responsesTail(c)
    OBVIOUS
  <2>1. PICK t : t = IF p.msgOut = None /\ ~AnyTool(p) THEN ensureMsg(p) ELSE p
    OBVIOUS
  <2>2. Same(c, t) /\ Told(t)
    <3>1. PICK m : m = ensureMsg(c)
      OBVIOUS
    <3>2. Same(c, m) /\ Told(m)
      BY <3>1, SameMessage, SameSame
    <3>3. \A events : Same(c, Taken(EmitNumbered(m, events)))
      BY <3>2, SameSame, SameEmit
    <3>4. Same(c, p) /\ Told(p)
      BY <1>0, <2>0, <3>1, <3>3, SameSame DEF responsesTail
    <3> QED BY <2>1, <3>4, SameMessage, SameSame
  <2>3. PICK ev, n : responsesClose(t) = [Emit(t, ev) EXCEPT !.seq = n]
    <3>1. \E ev, n : responsesClose(t) = [Emit(t, ev) EXCEPT !.seq = n]
      BY DEF responsesClose, EmitClosing
    <3> QED BY <3>1
  <2>5. PICK d : d = Emit(t, ev)
    OBVIOUS
  <2>6. Same(t, d) /\ Told(d)
    BY <2>2, <2>5, SameEmit, SameSame
  <2>7. Same(d, [d EXCEPT !.seq = n])
    BY <2>6 DEF Same, Told
  <2>8. Same(c, responsesClose(t)) /\ Told(responsesClose(t))
    BY <2>2, <2>3, <2>5, <2>6, <2>7, SameSame
  <2>9. \E e : responsesFinalize(c) = EmitNumbered(responsesClose(t), e)
    BY <2>0, <2>1 DEF responsesFinalize
  <2> QED BY <2>8, <2>9, SameSame, SameEmit
<1> QED BY <1>0, <1>1, <1>2, <1>3 DEF Finalize

\* What a converter has been told of the output.
ConvType(c) ==
    /\ Told(c) /\ c.client \in {"chat", "messages", "responses", "native"}
    /\ c.text \in Seq(Piece) /\ c.args \in Seq(Piece) /\ c.usage \in Nat \union {None}

LEMMA SameType == \A c, d : ConvType(c) /\ Same(c, d) => ConvType(d)
  BY DEF ConvType, Same

\* A payload's arguments are pieces, its tool events a sequence.
LEMMA PayloadType ==
    ASSUME NEW p, IsPayload(p), p # Torn
    PROVE  ArgsOf(p) \in Seq(Piece)
<1>1. PICK n \in Nat : n = Len(p.calls)
  <2>1. Len(p.calls) \in Nat
    BY LenProperties DEF IsPayload
  <2> QED BY <2>1
<1>2. DOMAIN p.calls = 1..n /\ \A i \in 1..n : p.calls[i].args \in Seq(Piece)
  <2>1. p.calls \in Seq([key : Key, named : BOOLEAN, args : Seq(Piece)])
    BY DEF IsPayload
  <2>2. \A i \in 1..n : p.calls[i] \in [key : Key, named : BOOLEAN, args : Seq(Piece)]
    BY <1>1, <2>1, ElementOfSeq
  <2> QED BY <1>1, <2>1, <2>2, LenProperties
<1>3. PICK q : q = [i \in DOMAIN p.calls |-> p.calls[i].args]
  OBVIOUS
<1>4. q \in Seq(Seq(Piece))
  BY <1>2, <1>3
<1>5. FlattenSeq(q) \in Seq(Piece)
  BY <1>4, FlatType
<1>6. FlattenSeq(q) \o p.args \in Seq(Piece)
  BY <1>5, ConcatProperties DEF IsPayload
<1> QED BY <1>3, <1>6 DEF ArgsOf

LEMMA ToolEventsType ==
    ASSUME NEW p, IsPayload(p)
    PROVE  \E n \in Nat : /\ DOMAIN extractToolEvents(p) = 1..n
                        /\ \A i \in 1..n : extractToolEvents(p)[i].args \in Seq(Piece)
<1>1. \A e : DOMAIN <<e>> = 1..1 /\ <<e>>[1] = e /\ DOMAIN << >> = 1..0
  OBVIOUS
<1>2. CASE p = Torn \/ p.type # "chat"
  <2>1. extractToolEvents(p) = << >> \/ \E e : extractToolEvents(p) = <<e>> /\ e.args \in Seq(Piece)
    <3>1. CASE p = Torn
      BY <3>1 DEF extractToolEvents
    <3>2. CASE p # Torn
      <4>1. ToolEvent("start", p.key, << >>).args \in Seq(Piece) /\ ToolEvent("args", p.key, p.args).args \in Seq(Piece)
        BY <3>2, EmptySeq DEF ToolEvent, IsPayload
      <4> QED BY <1>2, <3>2, <4>1 DEF extractToolEvents
    <3> QED BY <3>1, <3>2
  <2>2. CASE extractToolEvents(p) = << >>
    BY <1>1, <2>2
  <2>3. ASSUME NEW e, extractToolEvents(p) = <<e>>, e.args \in Seq(Piece)
        PROVE  DOMAIN extractToolEvents(p) = 1..1 /\ \A i \in 1..1 : extractToolEvents(p)[i].args \in Seq(Piece)
    BY <1>1, <2>3
  <2> QED BY <2>1, <2>2, <2>3
<1>3. CASE p # Torn /\ p.type = "chat"
  <2> DEFINE S == [kind : {"start", "args"}, key : Key, args : Seq(Piece)]
             of(tc) == (IF tc.named THEN <<ToolEvent("start", tc.key, << >>)>> ELSE << >>)
                       \o (IF tc.args # << >> THEN <<ToolEvent("args", tc.key, tc.args)>> ELSE << >>)
  <2>1. PICK n \in Nat : n = Len(p.calls) /\ DOMAIN p.calls = 1..n
    <3>1. Len(p.calls) \in Nat /\ DOMAIN p.calls = 1..Len(p.calls)
      BY <1>3, LenProperties DEF IsPayload
    <3> QED BY <3>1
  <2>2. ASSUME NEW i \in 1..n PROVE of(p.calls[i]) \in Seq(S)
    <3>1. PICK tc \in [key : Key, named : BOOLEAN, args : Seq(Piece)] : tc = p.calls[i]
      BY <1>3, <2>1, ElementOfSeq DEF IsPayload
    <3>2. ToolEvent("start", tc.key, << >>) \in S /\ ToolEvent("args", tc.key, tc.args) \in S
      <4>1. << >> \in Seq(Piece)
        BY EmptySeq
      <4> QED BY <4>1 DEF ToolEvent
    <3> HIDE DEF S
    <3>3. of(tc) \in Seq(S)
      <4>1. << >> \in Seq(S) /\ \A e \in S : <<e>> \in Seq(S)
        BY EmptySeq
      <4>2. PICK s1 : s1 = IF tc.named THEN <<ToolEvent("start", tc.key, << >>)>> ELSE << >>
        OBVIOUS
      <4>3. PICK s2 : s2 = IF tc.args # << >> THEN <<ToolEvent("args", tc.key, tc.args)>> ELSE << >>
        OBVIOUS
      <4>4. s1 \in Seq(S) /\ s2 \in Seq(S)
        BY <3>2, <4>1, <4>2, <4>3
      <4>5. s1 \o s2 \in Seq(S)
        BY <4>4, ConcatProperties
      <4> QED BY <4>2, <4>3, <4>5
    <3> QED BY <3>1, <3>3
  <2> HIDE DEF S, of
  <2>3. PICK q : q = [i \in DOMAIN p.calls |-> of(p.calls[i])]
    OBVIOUS
  <2>4. q \in Seq(Seq(S))
    BY <2>1, <2>2, <2>3
  <2>5. FlattenSeq(q) \in Seq(S)
    BY <2>4, FlatType
  <2>6. extractToolEvents(p) = FlattenSeq(q)
    BY <1>3, <2>3 DEF extractToolEvents, of
  <2>7. PICK m \in Nat : m = Len(FlattenSeq(q)) /\ DOMAIN FlattenSeq(q) = 1..m
    BY <2>5, LenProperties
  <2>8. \A i \in 1..m : FlattenSeq(q)[i] \in S
    BY <2>5, <2>7, ElementOfSeq
  <2>9. \A e \in S : e.args \in Seq(Piece)
    BY DEF S
  <2> QED BY <2>6, <2>7, <2>8, <2>9
<1> QED BY <1>2, <1>3

LEMMA ParseType ==
    ASSUME NEW c, ConvType(c), NEW p, IsPayload(p)
    PROVE  ConvType(parse(c, p)) /\ parse(c, p).client = c.client
<1>1. CASE p = Torn
  BY <1>1 DEF parse
<1>2. CASE p # Torn
  <2>1. /\ c.text \o p.text \in Seq(Piece) /\ c.args \o p.args \in Seq(Piece)
        /\ c.args \o ArgsOf(p) \in Seq(Piece) /\ p.usage \in Nat \union {None}
    BY <1>2, PayloadType, ConcatProperties DEF ConvType, IsPayload
  <2>2. ConvType(openaiFeed(c, p)) /\ openaiFeed(c, p).client = c.client
    BY <2>1 DEF openaiFeed, ConvType, Told
  <2>3. ConvType(anthropicFeed(c, p)) /\ anthropicFeed(c, p).client = c.client
    BY <2>1 DEF anthropicFeed, ConvType, Told
  <2> QED BY <1>2, <2>2, <2>3 DEF parse
<1> QED BY <1>1, <1>2

LEMMA FeedTools ==
    \A c, p : Feed(c, p) = IF c.client = "native" THEN parse(c, p)
                           ELSE Text(Tools(Open(parse(c, p)), extractToolEvents(p)))
  BY DEF Feed, Tools

LEMMA FeedType ==
    ASSUME NEW c, ConvType(c), NEW p, IsPayload(p)
    PROVE  ConvType(Feed(c, p)) /\ Feed(c, p).client = c.client
<1>1. CASE c.client = "native"
  BY <1>1, ParseType DEF Feed
<1>2. CASE c.client # "native"
  <2>1. PICK d : d = parse(c, p)
    OBVIOUS
  <2>2. ConvType(d) /\ d.client = c.client /\ d.client \in {"chat", "messages", "responses"}
    BY <1>2, <2>1, ParseType DEF ConvType
  <2>3. PICK n \in Nat : DOMAIN extractToolEvents(p) = 1..n
    BY ToolEventsType
  <2>4. PICK q : q = extractToolEvents(p) /\ DOMAIN q = 1..n
    BY <2>3
  <2>5. PICK h : IsRun(h, Open(d), q, n)
    BY <2>4, FoldSteps
  <2> DEFINE T == {i \in Nat : i <= n => Same(d, h[i])}
  <2>6. 0 \in T
    BY <2>2, <2>5, SameOpen DEF ConvType, IsRun
  <2>7. ASSUME NEW i \in Nat, i \in T PROVE i + 1 \in T
    <3> SUFFICES ASSUME i + 1 <= n PROVE Same(d, h[i + 1])
      OBVIOUS
    <3>1. i < n /\ Same(d, h[i])
      BY <2>7
    <3>2. Told(h[i]) /\ h[i].client = d.client
      BY <3>1, SameSame
    <3>3. Same(h[i], Tool(h[i], q[i + 1]))
      BY <2>2, <3>2, SameTool
    <3> QED BY <2>5, <3>1, <3>3, SameSame DEF IsRun
  <2> HIDE DEF T
  <2>8. n \in T
    BY <2>6, <2>7, NatRange
  <2>9. Same(d, h[n])
    BY <2>8 DEF T
  <2>10. Same(h[n], Text(h[n]))
    <3>1. Told(h[n]) /\ h[n].client = d.client
      BY <2>9, SameSame
    <3> QED BY <2>2, <3>1, SameText DEF Text
  <2>11. Feed(c, p) = Text(h[n])
    BY <1>2, <2>1, <2>4, <2>5, FeedTools DEF IsRun
  <2> QED BY <2>2, <2>9, <2>10, <2>11, SameSame, SameType
<1> QED BY <1>1, <1>2

\* What the splitter hands over is a payload of the script, or torn.
LEMMA YieldsType ==
    ASSUME NEW script, \A i \in DOMAIN script : IsPayload(script[i]), NEW sp
    PROVE  /\ lineYields(sp, script) # << >> => IsPayload(lineYields(sp, script)[1])
           /\ flushYields(sp, script) # << >> => IsPayload(flushYields(sp, script)[1])
<1>1. ASSUME NEW data PROVE payload(data, script) # << >> => IsPayload(payload(data, script)[1])
  <2>1. CASE \E i \in DOMAIN script : data = << <<i, 1>>, <<i, 2>> >>
    <3>1. PICK i \in DOMAIN script : data = << <<i, 1>>, <<i, 2>> >>
      BY <2>1
    <3>2. data[1][1] = i
      BY <3>1
    <3>3. payload(data, script) = << script[i] >>
      BY <2>1, <3>2 DEF payload
    <3> QED BY <3>3
  <2>2. CASE ~ \E i \in DOMAIN script : data = << <<i, 1>>, <<i, 2>> >>
    <3>1. IsPayload(Torn)
      BY DEF IsPayload
    <3>2. payload(data, script) \in {<< >>, <<Torn>>}
      BY <2>2 DEF payload
    <3> QED BY <3>1, <3>2
  <2> QED BY <2>1, <2>2
<1>2. lineYields(sp, script) = << >> \/ \E data : lineYields(sp, script) = payload(data, script)
  BY DEF lineYields
<1>3. flushYields(sp, script) = << >> \/ \E data : flushYields(sp, script) = payload(data, script)
  BY DEF flushYields
<1> QED BY <1>1, <1>2, <1>3

LEMMA CompletionType ==
    /\ \A c : ConvType(c) => Completion(c) \in Nat /\ EstimateTokens(c.text \o c.args) \in Nat
    /\ \A c : ConvType(c) /\ c.client # "native" /\ c.text \o c.args # << >> => Completion(c) > 0
    /\ \A c, d : Same(c, d) => Completion(c) = Completion(d)
<1>1. ASSUME NEW c, ConvType(c)
      PROVE  /\ Completion(c) \in Nat /\ EstimateTokens(c.text \o c.args) \in Nat
             /\ c.client # "native" /\ c.text \o c.args # << >> => Completion(c) > 0
  <2>1. PICK t \in Seq(Piece) : t = c.text \o c.args
    BY <1>1, ConcatProperties DEF ConvType
  <2>2. PICK n \in Nat : n = Len(t)
    BY <2>1, LenProperties
  <2>3. EstimateTokens(t) \in Nat /\ (t # << >> => EstimateTokens(t) > 0)
    BY <2>2 DEF EstimateTokens
  <2> QED BY <1>1, <2>1, <2>3 DEF Completion, finalizeUsage, parserUsage, ConvType, None
<1>2. ASSUME NEW c, NEW d, Same(c, d) PROVE Completion(c) = Completion(d)
  BY <1>2 DEF Same, Completion, finalizeUsage, parserUsage
<1> QED BY <1>1, <1>2

-----------------------------------------------------------------------------
\* The inductive invariant, in two parts.  The streams: what is relayed is a
\* job, the converter knows its own, and what the row records is what the
\* converter says, also after the closing events.
StreamsInv ==
    /\ \A s \in Stream : job[s] \in Jobs[s]
    /\ phase \in [Stream -> {"new", "relay", "closing", "saved", "done"}]
    /\ DOMAIN conv = Stream /\ DOMAIN recorded = Stream
    /\ \A s \in Stream : ConvType(conv[s]) /\ conv[s].client = job[s].client
    /\ \A s \in Stream :
          recorded[s] = IF phase[s] \in {"saved", "done"} THEN Completion(conv[s]) ELSE None

\* The tracker: the tokens are counted, the numbers are integers, and the open
\* sessions, of which there are finitely many, are those of the streams relayed.
TrackerInv ==
    /\ cur \in Int /\ rolled \in Int /\ settled \in Int
    /\ buckets \in [1..Window -> Int]
    /\ IsFiniteSet(DOMAIN sess) /\ \A s \in DOMAIN sess : sess[s] \in Int
    /\ \A s \in Stream : s \in DOMAIN sess => phase[s] \in {"relay", "closing", "saved"}
    /\ DOMAIN sess \subseteq Stream
    /\ added \in Nat
    /\ Counted

LEMMA NewKnows ==
    \A client, up : /\ Told(NewConverter(client, up)) /\ NewConverter(client, up).client = client
                    /\ NewConverter(client, up).text = << >> /\ NewConverter(client, up).args = << >>
                    /\ NewConverter(client, up).usage = None
  BY DEF NewConverter, Told

LEMMA InitStreams == Init => StreamsInv
<1> SUFFICES ASSUME Init PROVE StreamsInv
  OBVIOUS
<1>1. \A s \in Stream : job[s] \in Jobs[s]
  BY DEF Init
<1>2. ASSUME NEW s \in Stream PROVE ConvType(conv[s]) /\ conv[s].client = job[s].client
  <2>1. conv[s] = NewConverter(job[s].client, job[s].up)
    BY DEF Init
  <2>2. job[s].client \in {"chat", "messages", "responses", "native"}
    BY <1>1, StreamRelayAssumption
  <2>3. << >> \in Seq(Piece)
    BY EmptySeq
  <2>4. /\ Told(conv[s]) /\ conv[s].client = job[s].client
        /\ conv[s].text = << >> /\ conv[s].args = << >> /\ conv[s].usage = None
    BY <2>1, NewKnows
  <2> QED BY <2>2, <2>3, <2>4 DEF ConvType
<1>3. /\ phase = [s \in Stream |-> "new"] /\ recorded = [s \in Stream |-> None]
      /\ DOMAIN conv = Stream
  BY DEF Init
<1> QED BY <1>1, <1>2, <1>3 DEF StreamsInv

\* The callback keeps the converter's type, and reports a number.
LEMMA CallbackStep ==
    ASSUME StreamsInv, NEW s \in Stream, NEW payloads, Callback(s, payloads),
           payloads # << >> => IsPayload(payloads[1])
    PROVE  /\ \/ UNCHANGED <<conv, throughputVars>>
              \/ \E n \in Nat : StreamUpdate(s, n)
           /\ DOMAIN conv' = Stream /\ \A z \in Stream : z # s => conv'[z] = conv[z]
           /\ ConvType(conv'[s]) /\ conv'[s].client = conv[s].client
<1>1. CASE payloads = << >>
  BY <1>1 DEF Callback, StreamsInv
<1>2. CASE payloads # << >>
  <2>1. PICK fed : fed = Feed(conv[s], payloads[1])
    OBVIOUS
  <2>2. ConvType(fed) /\ fed.client = conv[s].client
    BY <1>2, <2>1, FeedType DEF StreamsInv
  <2>3. conv' = [conv EXCEPT ![s] = fed] /\ StreamUpdate(s, EstimateTokens(fed.text \o fed.args))
    BY <1>2, <2>1 DEF Callback
  <2>4. EstimateTokens(fed.text \o fed.args) \in Nat
    BY <2>2, CompletionType
  <2> QED BY <2>2, <2>3, <2>4 DEF StreamsInv
<1> QED BY <1>1, <1>2

\* A line, or the end of the stream, calls back with a payload of the script.
LEMMA HandlesPayloads ==
    ASSUME StreamsInv, NEW s \in Stream, WriteLine(s) \/ Flush(s)
    PROVE  /\ \/ UNCHANGED <<conv, throughputVars>>
              \/ \E n \in Nat : StreamUpdate(s, n)
           /\ DOMAIN conv' = Stream /\ \A z \in Stream : z # s => conv'[z] = conv[z]
           /\ ConvType(conv'[s]) /\ conv'[s].client = conv[s].client
<1>0. \A i \in DOMAIN job[s].script : IsPayload(job[s].script[i])
  BY StreamRelayAssumption DEF StreamsInv
<1>1. \/ UNCHANGED <<conv, throughputVars>>
      \/ \E sp : Callback(s, lineYields(sp, job[s].script))
      \/ \E sp : Callback(s, flushYields(sp, job[s].script))
  BY DEF WriteLine, Flush
<1>2. CASE UNCHANGED <<conv, throughputVars>>
  BY <1>2 DEF StreamsInv
<1>3. CASE \E sp : Callback(s, lineYields(sp, job[s].script))
  BY <1>0, <1>3, YieldsType, CallbackStep
<1>4. CASE \E sp : Callback(s, flushYields(sp, job[s].script))
  BY <1>0, <1>4, YieldsType, CallbackStep
<1> QED BY <1>1, <1>2, <1>3, <1>4

LEMMA StepStreams == StreamsInv /\ [Next]_vars => StreamsInv'
<1> SUFFICES ASSUME StreamsInv, [Next]_vars PROVE StreamsInv'
  OBVIOUS
<1>1. ASSUME NEW s \in Stream, Begin(s) PROVE StreamsInv'
  BY <1>1 DEF Begin, StreamsInv
<1>2. ASSUME NEW s \in Stream, Read(s) \/ WriteFails(s) \/ ReadEnds(s) \/ ClientLeaves(s) PROVE StreamsInv'
  BY <1>2 DEF Read, WriteFails, ReadEnds, ClientLeaves, StreamsInv
<1>3. ASSUME NEW s \in Stream, WriteLine(s) \/ Flush(s) PROVE StreamsInv'
  <2>1. /\ UNCHANGED <<job, recorded>> /\ phase[s] = "relay"
        /\ phase' = phase \/ phase' = [phase EXCEPT ![s] = "closing"]
    BY <1>3 DEF WriteLine, Flush
  <2>2. /\ DOMAIN conv' = Stream /\ \A z \in Stream : z # s => conv'[z] = conv[z]
        /\ ConvType(conv'[s]) /\ conv'[s].client = conv[s].client
    BY <1>3, HandlesPayloads
  <2> QED BY <2>1, <2>2 DEF StreamsInv
<1>4. ASSUME NEW s \in Stream, Close(s) PROVE StreamsInv'
  <2>1. /\ UNCHANGED job /\ phase[s] = "closing" /\ phase' = [phase EXCEPT ![s] = "saved"]
        /\ recorded' = [recorded EXCEPT ![s] = Completion(conv[s])]
        /\ conv' = conv \/ conv' = [conv EXCEPT ![s] = Finalize(conv[s])]
    BY <1>4 DEF Close
  <2>2. Same(conv[s], conv[s]) /\ Same(conv[s], Finalize(conv[s]))
    BY SameSame, SameFinalize DEF StreamsInv, ConvType
  <2>3. DOMAIN conv' = Stream /\ Same(conv[s], conv'[s]) /\ \A z \in Stream : z # s => conv'[z] = conv[z]
    BY <2>1, <2>2 DEF StreamsInv
  <2>4. Completion(conv'[s]) = Completion(conv[s]) /\ ConvType(conv'[s]) /\ conv'[s].client = conv[s].client
    BY <2>3, CompletionType, SameSame, SameType DEF StreamsInv
  <2> QED BY <2>1, <2>3, <2>4 DEF StreamsInv
<1>5. ASSUME NEW s \in Stream, FinishSession(s) PROVE StreamsInv'
  BY <1>5 DEF FinishSession, StreamsInv
<1>6. CASE Add \/ Tick \/ UNCHANGED vars
  BY <1>6 DEF Add, Tick, vars, relayVars, StreamsInv
<1> QED BY <1>1, <1>2, <1>3, <1>4, <1>5, <1>6 DEF Next

-----------------------------------------------------------------------------
LEMMA InitTracker == Init => TrackerInv
<1> SUFFICES ASSUME Init PROVE TrackerInv
  OBVIOUS
<1>1. /\ cur = 0 /\ rolled = 0 /\ settled = 0 /\ added = 0
      /\ buckets = [i \in 1..Window |-> 0] /\ DOMAIN sess = {}
  BY DEF Init, ThroughputInit
<1>2. SumFunction(sess) = 0
  BY <1>1, SumOnEmpty DEF SumFunction
<1>3. SumFunction(buckets) = 0
  <2>1. Window \in Nat \ {0} /\ IsFiniteSet(1..Window)
    BY ThroughputAssumption, FS_Interval
  <2> QED BY <1>1, <2>1, SumOnZero DEF SumFunction
<1>4. IsFiniteSet(DOMAIN sess)
  BY <1>1, FS_EmptySet
<1> QED BY <1>1, <1>2, <1>3, <1>4 DEF TrackerInv, Counted

\* What the tracker's operations rest on.
LEMMA TrackerSums ==
    ASSUME TrackerInv
    PROVE  /\ cur \in Int /\ rolled \in Int /\ settled \in Int
           /\ cur + SumFunction(buckets) + rolled = settled + SumFunction(sess)
           /\ SumFunction(buckets) \in Int /\ SumFunction(sess) \in Int
           /\ Window \in Nat \ {0}
<1>1. IsFiniteSet(1..Window) /\ DOMAIN buckets = 1..Window /\ \A i \in 1..Window : buckets[i] \in Int
  BY ThroughputAssumption, FS_Interval DEF TrackerInv
<1> QED BY <1>1, SumType, ThroughputAssumption DEF TrackerInv, Counted

\* The numbers of the tracker after a step.
Tallied ==
    /\ cur \in Int /\ rolled \in Int /\ settled \in Int
    /\ buckets \in [1..Window -> Int]
    /\ IsFiniteSet(DOMAIN sess) /\ \A s \in DOMAIN sess : sess[s] \in Int
    /\ Counted

LEMMA BeginTallies ==
    ASSUME TrackerInv, NEW s \in Stream, Begin(s)
    PROVE  Tallied' /\ DOMAIN sess' = DOMAIN sess \union {s}
<1>0. /\ cur \in Int /\ rolled \in Int /\ settled \in Int
      /\ cur + SumFunction(buckets) + rolled = settled + SumFunction(sess)
      /\ SumFunction(buckets) \in Int /\ SumFunction(sess) \in Int
      /\ Window \in Nat \ {0}
  BY TrackerSums
<1>1. s \notin DOMAIN sess
  BY DEF Begin, TrackerInv
<1>2. /\ DOMAIN sess' = DOMAIN sess \union {s} /\ sess'[s] = 0
      /\ \A z \in DOMAIN sess : sess'[z] = sess[z]
      /\ UNCHANGED <<cur, buckets, rolled, settled>>
  BY <1>1 DEF Begin, StreamBegin
<1>3. IsFiniteSet(DOMAIN sess') /\ \A z \in DOMAIN sess' : sess'[z] \in Int
  BY <1>2, FS_AddElement DEF TrackerInv
<1>4. SumFunction(sess') = SumFunction(sess)
  <2>1. SumFunction(sess') = SumFunction(sess) + sess'[s]
    BY <1>1, <1>2, SumGrow DEF TrackerInv
  <2> QED BY <1>0, <1>2, <2>1
<1> QED BY <1>2, <1>3, <1>4, <1>0 DEF TrackerInv, Tallied, Counted

LEMMA UpdateTallies ==
    ASSUME TrackerInv, NEW s \in Stream, NEW n \in Nat, StreamUpdate(s, n)
    PROVE  Tallied' /\ DOMAIN sess' = DOMAIN sess
<1>0. /\ cur \in Int /\ rolled \in Int /\ settled \in Int
      /\ cur + SumFunction(buckets) + rolled = settled + SumFunction(sess)
      /\ SumFunction(buckets) \in Int /\ SumFunction(sess) \in Int
      /\ Window \in Nat \ {0} /\ n \in Int
  BY TrackerSums
<1>1. CASE s \in DOMAIN sess /\ n > sess[s]
  <2>1. /\ sess' = [sess EXCEPT ![s] = n] /\ cur' = cur + n - sess[s]
        /\ UNCHANGED <<buckets, rolled, settled>>
    BY <1>1 DEF StreamUpdate
  <2>2. DOMAIN sess' = DOMAIN sess /\ \A z \in DOMAIN sess' : sess'[z] \in Int
    BY <2>1 DEF TrackerInv
  <2>3. SumFunction(sess') = SumFunction(sess) - sess[s] + n /\ sess[s] \in Int
    BY <1>0, <1>1, <2>1, SumUpdate DEF TrackerInv
  <2>4. cur' + SumFunction(buckets') + rolled' = settled' + SumFunction(sess') /\ cur' \in Int
    BY <2>1, <2>3, <1>0
  <2> QED BY <2>1, <2>2, <2>4 DEF TrackerInv, Tallied, Counted
<1>2. CASE ~(s \in DOMAIN sess /\ n > sess[s])
  BY <1>2 DEF StreamUpdate, TrackerInv, Tallied, Counted
<1> QED BY <1>1, <1>2

LEMMA FinishTallies ==
    ASSUME TrackerInv, NEW s \in Stream, NEW n \in Nat, StreamFinish(s, n)
    PROVE  Tallied' /\ DOMAIN sess' = DOMAIN sess \ {s}
<1>0. /\ cur \in Int /\ rolled \in Int /\ settled \in Int
      /\ cur + SumFunction(buckets) + rolled = settled + SumFunction(sess)
      /\ SumFunction(buckets) \in Int /\ SumFunction(sess) \in Int
      /\ Window \in Nat \ {0} /\ n \in Int
  BY TrackerSums
<1>1. CASE s \in DOMAIN sess
  <2>1. /\ cur' = cur + n - sess[s] /\ settled' = settled + n
        /\ sess' = [z \in DOMAIN sess \ {s} |-> sess[z]]
        /\ UNCHANGED <<buckets, rolled>>
    BY <1>1 DEF StreamFinish, End
  <2>2. /\ DOMAIN sess' = DOMAIN sess \ {s} /\ s \notin DOMAIN sess'
        /\ DOMAIN sess = DOMAIN sess' \union {s} /\ sess[s] \in Int
        /\ \A z \in DOMAIN sess' : sess'[z] \in Int /\ sess[z] = sess'[z]
    <3>1. \A z \in DOMAIN sess : sess[z] \in Int
      BY DEF TrackerInv
    <3>2. DOMAIN sess' = DOMAIN sess \ {s} /\ \A z \in DOMAIN sess \ {s} : sess'[z] = sess[z]
      BY <2>1
    <3> QED BY <1>1, <3>1, <3>2
  <2>3. IsFiniteSet(DOMAIN sess')
    <3>1. IsFiniteSet(DOMAIN sess \ {s})
      BY FS_RemoveElement DEF TrackerInv
    <3> QED BY <2>2, <3>1
  <2>4. SumFunction(sess) = SumFunction(sess') + sess[s] /\ SumFunction(sess') \in Int
    BY <2>2, <2>3, SumGrow, SumType
  <2>5. cur' + SumFunction(buckets') + rolled' = settled' + SumFunction(sess') /\ cur' \in Int /\ settled' \in Int
    <3>1. PICK x \in Int, y \in Int, r \in Int : x = sess[s] /\ y = SumFunction(sess') /\ r = SumFunction(buckets)
      BY <1>0, <2>2, <2>4
    <3>2. SumFunction(sess) = y + x /\ cur' = cur + n - x /\ settled' = settled + n
      BY <2>1, <2>4, <3>1
    <3>3. cur' + r + rolled = settled' + y /\ cur' \in Int /\ settled' \in Int
      BY <1>0, <3>1, <3>2
    <3> QED BY <2>1, <3>1, <3>3
  <2> QED BY <2>1, <2>2, <2>3, <2>5 DEF TrackerInv, Tallied, Counted
<1>2. CASE s \notin DOMAIN sess
  BY <1>2 DEF StreamFinish, TrackerInv, Tallied, Counted
<1> QED BY <1>1, <1>2

LEMMA AddTallies ==
    ASSUME TrackerInv, Add
    PROVE  Tallied' /\ UNCHANGED sess /\ added' \in Nat
<1>0. /\ cur \in Int /\ rolled \in Int /\ settled \in Int
      /\ cur + SumFunction(buckets) + rolled = settled + SumFunction(sess)
      /\ SumFunction(buckets) \in Int /\ SumFunction(sess) \in Int
      /\ Window \in Nat \ {0}
  BY TrackerSums
<1>1. Adds[added + 1] \in Nat /\ added + 1 \in Nat
  <2>1. PICK n \in Nat : n = Len(Adds) /\ \A i \in 1..n : Adds[i] \in Nat
    BY StreamRelayAssumption, LenProperties, ElementOfSeq
  <2> QED BY <2>1 DEF Add, TrackerInv
<1>2. PICK n \in Nat : n = Adds[added + 1] /\ AddTokens(n)
  BY <1>1 DEF Add
<1>3. /\ \/ cur' = cur + n /\ settled' = settled + n
         \/ UNCHANGED <<cur, settled>>
      /\ UNCHANGED <<buckets, sess, rolled>>
  BY <1>2 DEF AddTokens
<1>4. cur' + SumFunction(buckets') + rolled' = settled' + SumFunction(sess') /\ cur' \in Int /\ settled' \in Int
  BY <1>3, <1>0
<1> QED BY <1>1, <1>3, <1>4 DEF Add, TrackerInv, Tallied, Counted

LEMMA RotateTallies ==
    ASSUME TrackerInv, rotate
    PROVE  Tallied' /\ UNCHANGED sess
<1>0. /\ cur \in Int /\ rolled \in Int /\ settled \in Int
      /\ cur + SumFunction(buckets) + rolled = settled + SumFunction(sess)
      /\ SumFunction(buckets) \in Int /\ SumFunction(sess) \in Int
      /\ Window \in Nat \ {0}
  BY TrackerSums
<1>1. /\ buckets' = Moved(buckets, cur) /\ cur' = 0 /\ rolled' = rolled + buckets[1]
      /\ UNCHANGED <<sess, settled>>
  BY DEF rotate, Moved
<1>2. buckets' \in [1..Window -> Int] /\ buckets[1] \in Int
  BY <1>1, <1>0 DEF Moved, TrackerInv
<1>3. SumFunction(buckets') = SumFunction(buckets) - buckets[1] + cur
  BY <1>1, <1>0, SumMoved DEF TrackerInv
<1>4. cur' + SumFunction(buckets') + rolled' = settled' + SumFunction(sess') /\ rolled' \in Int
  <2>1. PICK b \in Int, t \in Int, u \in Int : b = buckets[1] /\ t = SumFunction(buckets) /\ u = SumFunction(sess)
    BY <1>0, <1>2
  <2>2. cur' = 0 /\ rolled' = rolled + b /\ settled' = settled /\ SumFunction(sess') = u
    BY <1>1, <2>1
  <2>3. SumFunction(buckets') = t - b + cur
    BY <1>3, <2>1
  <2>4. cur \in Int /\ rolled \in Int /\ settled \in Int /\ cur + t + rolled = settled + u
    BY <1>0, <2>1
  <2>5. PICK v : v = SumFunction(buckets')
    OBVIOUS
  <2>6. cur' + v + rolled' = settled' + u /\ rolled' \in Int
    BY <2>2, <2>3, <2>4, <2>5
  <2> QED BY <2>2, <2>5, <2>6
<1> QED BY <1>1, <1>2, <1>4 DEF TrackerInv, Tallied, Counted

LEMMA StepTracker == StreamsInv /\ TrackerInv /\ [Next]_vars => TrackerInv'
<1> SUFFICES ASSUME StreamsInv, TrackerInv, [Next]_vars PROVE TrackerInv'
  OBVIOUS
<1>1. ASSUME NEW s \in Stream, Begin(s) PROVE TrackerInv'
  <2>1. phase' = [phase EXCEPT ![s] = "relay"] /\ UNCHANGED added
    BY <1>1 DEF Begin
  <2>2. Tallied' /\ DOMAIN sess' = DOMAIN sess \union {s}
    BY <1>1, BeginTallies
  <2>3. \A z \in Stream : z \in DOMAIN sess' => phase'[z] \in {"relay", "closing", "saved"}
    BY <2>1, <2>2 DEF TrackerInv, StreamsInv
  <2> QED BY <2>1, <2>2, <2>3 DEF TrackerInv, Tallied
<1>2. ASSUME NEW s \in Stream, Read(s) \/ WriteFails(s) \/ ReadEnds(s) \/ ClientLeaves(s) PROVE TrackerInv'
  BY <1>2 DEF Read, WriteFails, ReadEnds, ClientLeaves, throughputVars, TrackerInv, Counted
<1>3. ASSUME NEW s \in Stream, WriteLine(s) \/ Flush(s) PROVE TrackerInv'
  <2>1. /\ UNCHANGED added /\ phase[s] = "relay"
        /\ phase' = phase \/ phase' = [phase EXCEPT ![s] = "closing"]
    BY <1>3 DEF WriteLine, Flush
  <2>2. UNCHANGED throughputVars \/ \E n \in Nat : StreamUpdate(s, n)
    BY <1>3, HandlesPayloads
  <2>3. Tallied' /\ DOMAIN sess' = DOMAIN sess
    <3>1. CASE UNCHANGED throughputVars
      BY <3>1 DEF throughputVars, TrackerInv, Tallied, Counted
    <3>2. CASE \E n \in Nat : StreamUpdate(s, n)
      BY <3>2, UpdateTallies
    <3> QED BY <2>2, <3>1, <3>2
  <2> QED BY <2>1, <2>3 DEF TrackerInv, Tallied, StreamsInv
<1>4. ASSUME NEW s \in Stream, Close(s) PROVE TrackerInv'
  BY <1>4 DEF Close, throughputVars, TrackerInv, Counted, StreamsInv
<1>5. ASSUME NEW s \in Stream, FinishSession(s) PROVE TrackerInv'
  <2>1. /\ phase' = [phase EXCEPT ![s] = "done"] /\ UNCHANGED added
        /\ recorded[s] \in Nat /\ StreamFinish(s, recorded[s])
    BY <1>5, CompletionType DEF FinishSession, StreamsInv
  <2>2. Tallied' /\ DOMAIN sess' = DOMAIN sess \ {s}
    BY <2>1, FinishTallies
  <2> QED BY <2>1, <2>2 DEF TrackerInv, Tallied, StreamsInv
<1>6. CASE Add
  BY <1>6, AddTallies DEF Add, TrackerInv, Tallied
<1>7. CASE Tick
  BY <1>7, RotateTallies DEF Tick, relayVars, TrackerInv, Tallied
<1>8. CASE UNCHANGED vars
  BY <1>8 DEF vars, relayVars, throughputVars, TrackerInv, Counted
<1> QED BY <1>1, <1>2, <1>3, <1>4, <1>5, <1>6, <1>7, <1>8 DEF Next

-----------------------------------------------------------------------------
\* Tokens are neither lost nor counted twice, however the reads of the streams,
\* the estimates of every callback, the corrections up and down when they end,
\* other requests and the rotations of the window interleave
\* (throughput.go:57-162, executor.go:509-610).
THEOREM TokensCountedOnce == Spec => []Counted
<1>1. TrackerInv => Counted
  BY DEF TrackerInv
<1> QED BY <1>1, InitStreams, StepStreams, InitTracker, StepTracker, PTL DEF Spec

\* Output that reached the gateway is never recorded as no tokens at all,
\* wherever the stream broke off and whatever usage the upstream reported: the
\* closing events add nothing to what was said (usage.go:252-283,
\* convert_stream.go:66-78).
THEOREM OutputIsRecorded == Spec => []OutputRecorded
<1>1. StreamsInv => OutputRecorded
  <2> SUFFICES ASSUME StreamsInv, NEW s \in Stream, ~Native(s), recorded[s] # None,
                      conv[s].text \o conv[s].args # << >>
               PROVE  recorded[s] > 0
    BY DEF OutputRecorded
  <2> QED BY CompletionType DEF StreamsInv, Native
<1> QED BY <1>1, InitStreams, StepStreams, PTL DEF Spec

-----------------------------------------------------------------------------
(* How the events written are framed *)

IsSeq(out) == \E S : out \in Seq(S)

\* The event one more is inside of: what is open after all events so far.
Within(out, at, open, close) == InsideOf(out, Len(out) + 1, at, open, close)

\* One event more.
Plus(out, e) == out \o <<e>>

LEMMA Appended ==
    ASSUME NEW out, IsSeq(out), NEW e
    PROVE  /\ Len(out) \in Nat /\ DOMAIN out = 1..Len(out)
           /\ IsSeq(Plus(out, e)) /\ Len(Plus(out, e)) = Len(out) + 1
           /\ DOMAIN Plus(out, e) = 1..Len(out) + 1
           /\ \A i \in 1..Len(out) : Plus(out, e)[i] = out[i]
           /\ Plus(out, e)[Len(out) + 1] = e
<1>1. PICK S : out \in Seq(S)
  BY DEF IsSeq
<1>2. PICK T : T = S \union {e}
  OBVIOUS
<1>3. out \in Seq(T) /\ <<e>> \in Seq(T) /\ Len(<<e>>) = 1 /\ <<e>>[1] = e
  BY <1>1, <1>2, SeqMonotonic
<1>4. /\ out \o <<e>> \in Seq(T) /\ Len(out \o <<e>>) = Len(out) + 1
      /\ \A i \in 1..Len(out) + 1 : (out \o <<e>>)[i] = IF i <= Len(out) THEN out[i] ELSE <<e>>[i - Len(out)]
  BY <1>3, ConcatProperties
<1>5. Len(out) \in Nat /\ DOMAIN out = 1..Len(out) /\ DOMAIN (out \o <<e>>) = 1..Len(out \o <<e>>)
  BY <1>3, <1>4, LenProperties
<1>6. IsSeq(out \o <<e>>)
  BY <1>4 DEF IsSeq
<1>7. (out \o <<e>>)[Len(out) + 1] = e
  <2>1. Len(out) + 1 \in 1..Len(out) + 1 /\ ~(Len(out) + 1 <= Len(out)) /\ Len(out) + 1 - Len(out) = 1
    BY <1>5
  <2> QED BY <1>3, <1>4, <2>1
<1>8. \A i \in 1..Len(out) : (out \o <<e>>)[i] = out[i]
  BY <1>4, <1>5
<1> QED BY <1>4, <1>5, <1>6, <1>7, <1>8 DEF Plus

\* Events written together are written one after the other.
LEMMA OneByOne ==
    ASSUME NEW out, IsSeq(out)
    PROVE  /\ out \o << >> = out
           /\ \A e : out \o <<e>> = Plus(out, e)
           /\ \A e, f : out \o <<e, f>> = Plus(Plus(out, e), f)
           /\ \A e, f, g : out \o <<e, f, g>> = Plus(Plus(Plus(out, e), f), g)
<1>1. PICK S : out \in Seq(S)
  BY DEF IsSeq
<1>2. out \o << >> = out
  BY <1>1, ConcatEmptySeq
<1>3. ASSUME NEW e, NEW f PROVE out \o <<e, f>> = (out \o <<e>>) \o <<f>>
  <2>1. PICK T : T = S \union {e, f}
    OBVIOUS
  <2>2. out \in Seq(T) /\ <<e>> \in Seq(T) /\ <<f>> \in Seq(T) /\ <<e, f>> \in Seq(T)
    BY <1>1, <2>1, SeqMonotonic
  <2>4. <<e>> \o <<f>> = <<e, f>>
    <3>1. /\ <<e>> \o <<f>> \in Seq(T) /\ Len(<<e>> \o <<f>>) = 2
          /\ (<<e>> \o <<f>>)[1] = e /\ (<<e>> \o <<f>>)[2] = f
      BY <2>2, ConcatProperties
    <3>2. PICK x, y : x = <<e>> \o <<f>> /\ y = <<e, f>>
      OBVIOUS
    <3>3. x \in Seq(T) /\ y \in Seq(T) /\ Len(x) = 2 /\ Len(y) = 2 /\ \A i \in 1..2 : x[i] = y[i]
      BY <2>2, <3>1, <3>2
    <3>4. x = y
      BY <3>3, SeqEqual
    <3> QED BY <3>2, <3>4
  <2>3. (out \o <<e>>) \o <<f>> = out \o (<<e>> \o <<f>>)
    BY <2>2, ConcatAssociative
  <2> QED BY <2>3, <2>4
<1>4. ASSUME NEW e, NEW f, NEW g PROVE out \o <<e, f, g>> = ((out \o <<e>>) \o <<f>>) \o <<g>>
  <2>1. PICK T : T = S \union {e, f, g}
    OBVIOUS
  <2>2. /\ out \in Seq(T) /\ <<e, f>> \in Seq(T) /\ <<g>> \in Seq(T)
        /\ <<e, f, g>> \in Seq(T)
    BY <1>1, <2>1, SeqMonotonic
  <2>4. <<e, f>> \o <<g>> = <<e, f, g>>
    <3>1. /\ <<e, f>> \o <<g>> \in Seq(T) /\ Len(<<e, f>> \o <<g>>) = 3
          /\ (<<e, f>> \o <<g>>)[1] = e /\ (<<e, f>> \o <<g>>)[2] = f /\ (<<e, f>> \o <<g>>)[3] = g
      BY <2>2, ConcatProperties
    <3>2. PICK x, y : x = <<e, f>> \o <<g>> /\ y = <<e, f, g>>
      OBVIOUS
    <3>3. x \in Seq(T) /\ y \in Seq(T) /\ Len(x) = 3 /\ Len(y) = 3 /\ \A i \in 1..3 : x[i] = y[i]
      BY <2>2, <3>1, <3>2
    <3>4. x = y
      BY <3>3, SeqEqual
    <3> QED BY <3>2, <3>4
  <2>3. (out \o <<e, f>>) \o <<g>> = out \o (<<e, f>> \o <<g>>)
    BY <2>2, ConcatAssociative
  <2> QED BY <1>3, <2>3, <2>4
<1> QED BY <1>2, <1>3, <1>4 DEF Plus

\* Nothing written before, after or between changes what is written.
LEMMA Joined ==
    /\ \A e : << >> \o <<e>> = <<e>> /\ <<e>> \o << >> = <<e>> /\ << >> \o << >> = << >>
    /\ \A e, f : <<e>> \o <<f>> = <<e, f>>
    /\ \A e, f, g : <<e>> \o <<f, g>> = <<e, f, g>>
<1>1. ASSUME NEW e, NEW f, NEW g
      PROVE  /\ << >> \o <<e>> = <<e>> /\ <<e>> \o << >> = <<e>> /\ << >> \o << >> = << >>
             /\ <<e>> \o <<f>> = <<e, f>>
             /\ <<e>> \o <<f, g>> = <<e, f, g>>
  <2>1. PICK T : T = {e, f, g}
    OBVIOUS
  <2>2. << >> \in Seq(T) /\ <<e>> \in Seq(T)
    BY <2>1, EmptySeq
  <2>3. << >> \o <<e>> = <<e>> /\ <<e>> \o << >> = <<e>> /\ << >> \o << >> = << >>
    BY <2>2, ConcatEmptySeq
  <2>4. /\ <<f>> \in Seq(T) /\ <<f, g>> \in Seq(T)
        /\ <<e, f>> \in Seq(T) /\ <<e, f, g>> \in Seq(T)
    BY <2>1
  <2>5. <<e>> \o <<f>> = <<e, f>>
    <3>1. PICK x, y : x = <<e>> \o <<f>> /\ y = <<e, f>>
      OBVIOUS
    <3>2. x \in Seq(T) /\ y \in Seq(T) /\ Len(x) = 2 /\ Len(y) = 2 /\ \A i \in 1..2 : x[i] = y[i]
      BY <2>2, <2>4, <3>1, ConcatProperties
    <3>3. x = y
      BY <3>2, SeqEqual
    <3> QED BY <3>1, <3>3
  <2>6. <<e>> \o <<f, g>> = <<e, f, g>>
    <3>1. PICK x, y : x = <<e>> \o <<f, g>> /\ y = <<e, f, g>>
      OBVIOUS
    <3>2. x \in Seq(T) /\ y \in Seq(T) /\ Len(x) = 3 /\ Len(y) = 3 /\ \A i \in 1..3 : x[i] = y[i]
      BY <2>2, <2>4, <3>1, ConcatProperties
    <3>3. x = y
      BY <3>2, SeqEqual
    <3> QED BY <3>1, <3>3
  <2> QED BY <2>3, <2>5, <2>6
<1> QED BY <1>1

\* One event more: what was before an event stays, and the event counts.
LEMMA CountsGrow ==
    ASSUME NEW out, IsSeq(out), NEW e
    PROVE  /\ \A ev : Times(out, ev) \in Nat
           /\ \A ev : Times(Plus(out, e), ev) = IF e.ev = ev THEN Times(out, ev) + 1 ELSE Times(out, ev)
           /\ \A ev : \A i \in 1..Len(out) + 1 : Before(Plus(out, e), i, ev) = Before(out, i, ev)
<1> DEFINE n == Len(out)
           o == Plus(out, e)
           K(ev) == {k \in 1..n : out[k].ev = ev}
<1>1. /\ n \in Nat /\ Len(o) = n + 1
      /\ \A i \in 1..n : o[i] = out[i]
      /\ o[n + 1] = e
  BY Appended
<1> HIDE DEF n, o
<1>2. \A ev : IsFiniteSet(K(ev)) /\ Cardinality(K(ev)) \in Nat /\ Times(out, ev) = Cardinality(K(ev))
  <2> SUFFICES ASSUME NEW ev
               PROVE  IsFiniteSet(K(ev)) /\ Cardinality(K(ev)) \in Nat /\ Times(out, ev) = Cardinality(K(ev))
    OBVIOUS
  <2>1. IsFiniteSet(1..n) /\ K(ev) \subseteq 1..n
    BY <1>1, FS_Interval
  <2>2. IsFiniteSet(K(ev)) /\ Cardinality(K(ev)) \in Nat
    BY <2>1, FS_Subset, FS_CardinalityType
  <2>3. PICK i : i = Len(out) + 1
    OBVIOUS
  <2>4. {k \in 1..i - 1 : out[k].ev = ev} = K(ev)
    <3>1. 1..i - 1 = 1..n
      BY <1>1, <2>3 DEF n
    <3> QED BY <3>1
  <2>5. Times(out, ev) = Cardinality(K(ev))
    <3>1. Before(out, i, ev) = Cardinality(K(ev))
      BY <2>4 DEF Before
    <3> QED BY <2>3, <3>1 DEF Times
  <2> QED BY <2>2, <2>5
<1>3. ASSUME NEW ev, NEW i \in 1..n + 1 PROVE Before(o, i, ev) = Before(out, i, ev)
  <2>1. {k \in 1..i - 1 : o[k].ev = ev} = {k \in 1..i - 1 : out[k].ev = ev}
    BY <1>1
  <2> QED BY <2>1 DEF Before
<1>4. ASSUME NEW ev PROVE Times(o, ev) = IF e.ev = ev THEN Times(out, ev) + 1 ELSE Times(out, ev)
  <2>1. PICK i : i = Len(o) + 1
    OBVIOUS
  <2>2. Times(o, ev) = Cardinality({k \in 1..n + 1 : o[k].ev = ev})
    <3>1. 1..i - 1 = 1..n + 1
      BY <1>1, <2>1
    <3>2. {k \in 1..i - 1 : o[k].ev = ev} = {k \in 1..n + 1 : o[k].ev = ev}
      BY <3>1
    <3>3. Before(o, i, ev) = Cardinality({k \in 1..n + 1 : o[k].ev = ev})
      BY <3>2 DEF Before
    <3> QED BY <2>1, <3>3 DEF Times
  <2>3. {k \in 1..n + 1 : o[k].ev = ev} = IF e.ev = ev THEN K(ev) \union {n + 1} ELSE K(ev)
    BY <1>1
  <2>4. n + 1 \notin K(ev)
    <3>1. n + 1 \notin 1..n
      BY <1>1
    <3> QED BY <3>1
  <2>5. Cardinality(K(ev) \union {n + 1}) = Cardinality(K(ev)) + 1
    <3>1. PICK x : x = K(ev)
      OBVIOUS
    <3>2. IsFiniteSet(x) /\ n + 1 \notin x
      BY <1>2, <2>4, <3>1
    <3>3. Cardinality(x \union {n + 1}) = Cardinality(x) + 1
      BY <3>2, FS_AddElement
    <3> QED BY <3>1, <3>3
  <2> QED BY <1>2, <2>2, <2>3, <2>5
<1> QED BY <1>2, <1>3, <1>4 DEF n, o

LEMMA InsideGrows ==
    ASSUME NEW out, IsSeq(out), NEW e
    PROVE  /\ \A at, open, close : \A i \in 1..Len(out) + 1 :
                InsideOf(Plus(out, e), i, at, open, close) <=> InsideOf(out, i, at, open, close)
           /\ \A at, open, close :
                Within(Plus(out, e), at, open, close)
                  <=> \/ e.ev = open /\ e.at = at
                      \/ Within(out, at, open, close) /\ ~(e.ev = close /\ e.at = at)
<1> DEFINE n == Len(out)
           o == Plus(out, e)
<1>1. /\ n \in Nat /\ Len(o) = n + 1
      /\ \A i \in 1..n : o[i] = out[i]
      /\ o[n + 1] = e
  BY Appended
<1>2. PICK m \in Nat : m = Len(out)
  BY <1>1
<1> HIDE DEF n, o
<1>3. ASSUME NEW at, NEW open, NEW close, NEW i \in 1..n + 1
      PROVE  InsideOf(o, i, at, open, close) <=> InsideOf(out, i, at, open, close)
  <2>1. \A k \in 1..i - 1 : o[k] = out[k]
    BY <1>1
  <2>2. \A k \in 1..i - 1 : \A l \in k + 1..i - 1 : l \in 1..i - 1
    BY <1>1
  <2> QED BY <2>1, <2>2 DEF InsideOf
<1>4. ASSUME NEW at, NEW open, NEW close
      PROVE  Within(o, at, open, close)
                  <=> \/ e.ev = open /\ e.at = at
                      \/ Within(out, at, open, close) /\ ~(e.ev = close /\ e.at = at)
  <2>1. Within(o, at, open, close) <=>
          \E k \in 1..n + 1 : /\ o[k].ev = open /\ o[k].at = at
                              /\ \A l \in k + 1..n + 1 : o[l].ev = close => o[l].at # at
    <3>1. Len(o) + 1 - 1 = n + 1
      BY <1>1
    <3> QED BY <3>1 DEF Within, InsideOf
  <2>2. Within(out, at, open, close) <=>
          \E k \in 1..n : /\ out[k].ev = open /\ out[k].at = at
                          /\ \A l \in k + 1..n : out[l].ev = close => out[l].at # at
    <3>1. Len(out) + 1 - 1 = n
      BY <1>1 DEF n
    <3> QED BY <3>1 DEF Within, InsideOf
  <2>3. ASSUME e.ev = open, e.at = at PROVE Within(o, at, open, close)
    <3>1. n + 1 \in 1..n + 1 /\ o[n + 1].ev = open /\ o[n + 1].at = at
      BY <1>1, <2>3
    <3>2. \A l \in n + 1 + 1..n + 1 : FALSE
      BY <1>1
    <3> QED BY <2>1, <3>1, <3>2
  <2>4. ASSUME Within(out, at, open, close), ~(e.ev = close /\ e.at = at) PROVE Within(o, at, open, close)
    <3>1. PICK k \in 1..n : /\ out[k].ev = open /\ out[k].at = at
                            /\ \A l \in k + 1..n : out[l].ev = close => out[l].at # at
      BY <2>2, <2>4
    <3>2. k \in 1..n + 1 /\ o[k].ev = open /\ o[k].at = at
      BY <1>1, <3>1
    <3>3. ASSUME NEW l \in k + 1..n + 1, o[l].ev = close PROVE o[l].at # at
      <4>1. CASE l = n + 1
        BY <1>1, <2>4, <3>3, <4>1
      <4>2. CASE l # n + 1
        <5>1. l \in k + 1..n /\ l \in 1..n
          BY <1>1, <4>2
        <5> QED BY <1>1, <3>1, <3>3, <5>1
      <4> QED BY <4>1, <4>2
    <3> QED BY <2>1, <3>2, <3>3
  <2>5. ASSUME Within(o, at, open, close), ~(e.ev = open /\ e.at = at)
        PROVE  Within(out, at, open, close) /\ ~(e.ev = close /\ e.at = at)
    <3>1. PICK k \in 1..n + 1 : /\ o[k].ev = open /\ o[k].at = at
                                /\ \A l \in k + 1..n + 1 : o[l].ev = close => o[l].at # at
      BY <2>1, <2>5
    <3>2. k # n + 1
      BY <1>1, <2>5, <3>1
    <3>3. k \in 1..n /\ n + 1 \in k + 1..n + 1 /\ \A l \in k + 1..n : l \in k + 1..n + 1 /\ l \in 1..n
      BY <1>1, <3>2
    <3>4. ~(e.ev = close /\ e.at = at)
      BY <1>1, <3>1, <3>3
    <3>5. out[k].ev = open /\ out[k].at = at /\ \A l \in k + 1..n : out[l].ev = close => out[l].at # at
      BY <1>1, <3>1, <3>3
    <3> QED BY <2>2, <3>3, <3>4, <3>5
  <2> QED BY <2>3, <2>4, <2>5
<1> QED BY <1>3, <1>4 DEF n, o

LEMMA BracketsGrow ==
    ASSUME NEW out, IsSeq(out), NEW e, NEW open, NEW inside, NEW close,
           Bracketed(out, open, inside, close),
           e.ev = open => e.at = Times(out, open),
           e.ev \in inside \union {close} => Within(out, e.at, open, close)
    PROVE  Bracketed(Plus(out, e), open, inside, close)
<1> DEFINE o == Plus(out, e)
<1>1. /\ Len(out) \in Nat /\ DOMAIN out = 1..Len(out) /\ DOMAIN o = 1..Len(out) + 1
      /\ \A i \in 1..Len(out) : o[i] = out[i]
      /\ o[Len(out) + 1] = e
  BY Appended
<1>2. /\ \A i \in 1..Len(out) + 1 : Before(o, i, open) = Before(out, i, open)
      /\ \A at : \A i \in 1..Len(out) + 1 :
            InsideOf(o, i, at, open, close) <=> InsideOf(out, i, at, open, close)
  BY CountsGrow, InsideGrows
<1> HIDE DEF o
<1>3. ASSUME NEW i \in DOMAIN o
      PROVE  /\ o[i].ev = open => o[i].at = Before(o, i, open)
             /\ o[i].ev \in inside \union {close} => InsideOf(o, i, o[i].at, open, close)
  <2>0. i \in 1..Len(out) + 1
    BY <1>1
  <2>1. CASE i = Len(out) + 1
    BY <1>1, <1>2, <2>0, <2>1 DEF Times, Within
  <2>2. CASE i # Len(out) + 1
    <3>1. i \in DOMAIN out /\ o[i] = out[i]
      BY <1>1, <2>0, <2>2
    <3>2. /\ out[i].ev = open => out[i].at = Before(out, i, open)
          /\ out[i].ev \in inside \union {close} => InsideOf(out, i, out[i].at, open, close)
      BY <3>1 DEF Bracketed
    <3> QED BY <1>2, <2>0, <3>1, <3>2
  <2> QED BY <2>1, <2>2
<1>4. Bracketed(o, open, inside, close)
  BY <1>3 DEF Bracketed
<1> QED BY <1>4 DEF o

LEMMA NothingYet ==
    /\ IsSeq(<< >>) /\ Len(<< >>) = 0 /\ DOMAIN << >> = {}
    /\ \A ev : Times(<< >>, ev) = 0
    /\ \A open, inside, close : Bracketed(<< >>, open, inside, close)
    /\ \A at, open, close : ~Within(<< >>, at, open, close)
<1>1. IsSeq(<< >>)
  BY EmptySeq DEF IsSeq
<1>2. Len(<< >>) = 0 /\ DOMAIN << >> = {} /\ 1..0 + 1 - 1 = {}
  OBVIOUS
<1>3. ASSUME NEW ev PROVE Times(<< >>, ev) = 0
  <2>1. PICK i : i = Len(<< >>) + 1
    OBVIOUS
  <2>2. {k \in 1..i - 1 : << >>[k].ev = ev} = {}
    <3>1. 1..i - 1 = {}
      BY <1>2, <2>1
    <3> QED BY <3>1
  <2>3. Before(<< >>, i, ev) = 0
    BY <2>2, FS_EmptySet DEF Before
  <2> QED BY <2>1, <2>3 DEF Times
<1>4. ASSUME NEW at, NEW open, NEW close PROVE ~Within(<< >>, at, open, close)
  <2>1. PICK i : i = Len(<< >>) + 1
    OBVIOUS
  <2>2. 1..i - 1 = {}
    BY <1>2, <2>1
  <2>3. ~InsideOf(<< >>, i, at, open, close)
    BY <2>2 DEF InsideOf
  <2> QED BY <2>1, <2>3 DEF Within
<1>5. \A open, inside, close : Bracketed(<< >>, open, inside, close)
  BY <1>2 DEF Bracketed
<1> QED BY <1>1, <1>2, <1>3, <1>4, <1>5

\* What a converter has written, and what that depends on.
Written(c) ==
    {"client", "up", "text", "args", "finish", "usage", "started", "out", "emitted",
     "tools", "next", "textOpen", "openTool", "msgOut", "part", "callArgs", "seq"} \subseteq DOMAIN c

\* d has written what c has.
Kept(c, d) ==
    /\ Written(c) /\ Written(d)
    /\ d.client = c.client /\ d.started = c.started /\ d.out = c.out /\ d.tools = c.tools
    /\ d.next = c.next /\ d.textOpen = c.textOpen /\ d.openTool = c.openTool
    /\ d.msgOut = c.msgOut /\ d.part = c.part /\ d.callArgs = c.callArgs

LEMMA ParseKept ==
    ASSUME NEW c, Written(c), NEW p
    PROVE  Kept(c, parse(c, p)) /\ Kept(c, Taken(c))
<1>1. Kept(c, c) /\ Kept(c, Taken(c))
  BY DEF Kept, Written, Taken
<1>2. Kept(c, openaiFeed(c, p))
  BY DEF Kept, Written, openaiFeed
<1>3. Kept(c, anthropicFeed(c, p))
  BY DEF Kept, Written, anthropicFeed
<1> QED BY <1>1, <1>2, <1>3 DEF parse

LEMMA EmitKept ==
    ASSUME NEW c, Written(c), NEW events
    PROVE  /\ Written(Emit(c, events)) /\ Emit(c, events).out = c.out \o events
           /\ Emit(c, events).client = c.client /\ Emit(c, events).started = c.started
           /\ Emit(c, events).tools = c.tools /\ Emit(c, events).next = c.next
           /\ Emit(c, events).textOpen = c.textOpen /\ Emit(c, events).openTool = c.openTool
  BY DEF Written, Emit

LEMMA EmitOne ==
    ASSUME NEW c, Written(c), NEW e
    PROVE  LET d == Emit(c, <<e>>) IN
           /\ Written(d) /\ d.out = Plus(c.out, e)
           /\ d.client = c.client /\ d.started = c.started /\ d.tools = c.tools
           /\ d.next = c.next /\ d.textOpen = c.textOpen /\ d.openTool = c.openTool
<1>1. PICK q : q = <<e>>
  OBVIOUS
<1>2. PICK d : d = Emit(c, q)
  OBVIOUS
<1>3. /\ Written(d) /\ d.out = c.out \o q
      /\ d.client = c.client /\ d.started = c.started /\ d.tools = c.tools
      /\ d.next = c.next /\ d.textOpen = c.textOpen /\ d.openTool = c.openTool
  BY <1>2, EmitKept
<1> QED BY <1>1, <1>2, <1>3 DEF Plus

LEMMA Announced ==
    ASSUME NEW c, Written(c), NEW key
    PROVE  LET d == Announce(c, key) IN
           /\ Written(d) /\ d.client = c.client /\ d.started = c.started /\ d.out = c.out
           /\ d.textOpen = c.textOpen /\ d.openTool = c.openTool /\ d.next = c.next + 1
           /\ DOMAIN d.tools = DOMAIN c.tools \union {key} /\ d.tools[key] = c.next
           /\ \A k \in DOMAIN c.tools : k # key => d.tools[k] = c.tools[k]
<1>1. PICK d : d = Announce(c, key)
  OBVIOUS
<1>2. d.tools = With(c.tools, key, c.next) /\ d.next = c.next + 1
  BY <1>1 DEF Announce, Written
<1>3. /\ DOMAIN d.tools = DOMAIN c.tools \union {key} /\ d.tools[key] = c.next
      /\ \A k \in DOMAIN c.tools : k # key => d.tools[k] = c.tools[k]
  BY <1>2 DEF With
<1>4. /\ Written(d) /\ d.client = c.client /\ d.started = c.started /\ d.out = c.out
      /\ d.textOpen = c.textOpen /\ d.openTool = c.openTool
  BY <1>1 DEF Announce, Written
<1> QED BY <1>1, <1>2, <1>3, <1>4

-----------------------------------------------------------------------------
(* Chat *)

\* Before the end: calls are numbered and announced, nothing has been closed.
ChatOpen(c) ==
    /\ Written(c) /\ IsSeq(c.out)
    /\ Bracketed(c.out, "call", {"args"}, "none")
    /\ c.next = Times(c.out, "call")
    /\ \A key \in DOMAIN c.tools : Within(c.out, c.tools[key], "call", "none")
    /\ Times(c.out, "finish") = 0 /\ Times(c.out, "usage") = 0 /\ Times(c.out, "done") = 0

\* At the end.
ChatClosed(out) ==
    /\ Bracketed(out, "call", {"args"}, "none")
    /\ [i \in 1..3 |-> out[Len(out) - 3 + i].ev] = <<"finish", "usage", "done">>
    /\ Times(out, "finish") = 1 /\ Times(out, "usage") = 1 /\ Times(out, "done") = 1

LEMMA ChatKept == \A c, d : ChatOpen(c) /\ Kept(c, d) => ChatOpen(d)
  BY DEF ChatOpen, Kept

\* An event that opens nothing and closes nothing.
LEMMA ChatSays ==
    ASSUME NEW c, ChatOpen(c), NEW e, e.ev \in {"args", "text"},
           e.ev = "args" => Within(c.out, e.at, "call", "none")
    PROVE  ChatOpen(Emit(c, <<e>>))
<1>1. PICK d : d = Emit(c, <<e>>)
  OBVIOUS
<1>2. /\ Written(d) /\ d.out = Plus(c.out, e) /\ d.tools = c.tools /\ d.next = c.next
  BY <1>1, EmitOne DEF ChatOpen
<1>3. IsSeq(d.out) /\ Bracketed(d.out, "call", {"args"}, "none")
  BY <1>2, Appended, BracketsGrow DEF ChatOpen
<1>4. \A ev \in {"call", "finish", "usage", "done"} : Times(d.out, ev) = Times(c.out, ev)
  BY <1>2, CountsGrow DEF ChatOpen
<1>5. \A at : Within(c.out, at, "call", "none") => Within(d.out, at, "call", "none")
  BY <1>2, InsideGrows DEF ChatOpen
<1> QED BY <1>1, <1>2, <1>3, <1>4, <1>5 DEF ChatOpen

LEMMA ChatTools ==
    ASSUME NEW c, ChatOpen(c), NEW e
    PROVE  ChatOpen(chatTool(c, e))
<1>1. CASE e.kind = "start" /\ e.key \notin DOMAIN c.tools
  <2>1. PICK a : a = Announce(c, e.key)
    OBVIOUS
  <2>2. PICK v : v = Event("call", c.next, << >>)
    OBVIOUS
  <2>3. PICK d : d = Emit(a, <<v>>)
    OBVIOUS
  <2>4. v.ev = "call" /\ v.at = c.next
    BY <2>2 DEF Event
  <2>5. /\ Written(a) /\ a.out = c.out /\ a.next = c.next + 1
        /\ DOMAIN a.tools = DOMAIN c.tools \union {e.key} /\ a.tools[e.key] = c.next
        /\ \A k \in DOMAIN c.tools : k # e.key => a.tools[k] = c.tools[k]
    BY <2>1, Announced DEF ChatOpen
  <2>6. Written(d) /\ d.out = Plus(c.out, v) /\ d.tools = a.tools /\ d.next = c.next + 1
    BY <2>3, <2>5, EmitOne
  <2>7. IsSeq(d.out) /\ Bracketed(d.out, "call", {"args"}, "none")
    BY <2>4, <2>6, Appended, BracketsGrow DEF ChatOpen
  <2>8. /\ \A ev \in {"finish", "usage", "done"} : Times(d.out, ev) = Times(c.out, ev)
        /\ Times(d.out, "call") = Times(c.out, "call") + 1
    BY <2>4, <2>6, CountsGrow DEF ChatOpen
  <2>9. /\ Within(d.out, c.next, "call", "none")
        /\ \A at : Within(c.out, at, "call", "none") => Within(d.out, at, "call", "none")
    BY <2>4, <2>6, InsideGrows DEF ChatOpen
  <2>10. \A key \in DOMAIN d.tools : Within(d.out, d.tools[key], "call", "none")
    BY <2>5, <2>6, <2>9 DEF ChatOpen
  <2>11. ChatOpen(d)
    BY <2>6, <2>7, <2>8, <2>10 DEF ChatOpen
  <2> QED BY <1>1, <2>1, <2>2, <2>3, <2>11 DEF chatTool
<1>2. CASE e.kind # "start" /\ e.key \in DOMAIN c.tools
  <2>1. PICK v : v = Event("args", c.tools[e.key], e.args)
    OBVIOUS
  <2>2. v.ev = "args" /\ v.at = c.tools[e.key]
    BY <2>1 DEF Event
  <2>3. ChatOpen(Emit(c, <<v>>))
    BY <1>2, <2>2, ChatSays DEF ChatOpen
  <2> QED BY <1>2, <2>1, <2>3 DEF chatTool
<1>3. CASE (e.kind = "start") = (e.key \in DOMAIN c.tools)
  BY <1>3 DEF chatTool
<1> QED BY <1>1, <1>2, <1>3

LEMMA ChatTexts ==
    ASSUME NEW c, ChatOpen(c)
    PROVE  ChatOpen(chatText(c)) /\ ChatOpen(chatHead(c))
<1>1. PICK v : v = Event("text", 0, Suffix(c))
  OBVIOUS
<1>2. ChatOpen(Emit(c, <<v>>))
  <2>1. v.ev = "text"
    BY <1>1 DEF Event
  <2> QED BY <2>1, ChatSays
<1>3. ChatOpen(Taken(Emit(c, <<v>>)))
  BY <1>2, ParseKept, ChatKept DEF ChatOpen
<1>4. ChatOpen(chatHead(c))
  BY DEF chatHead, ChatOpen, Written
<1> QED BY <1>1, <1>3, <1>4 DEF chatText

LEMMA ChatEnds ==
    ASSUME NEW c, ChatOpen(c)
    PROVE  ChatClosed(chatFinalize(c).out)
<1>1. PICK t : t = chatText(c)
  OBVIOUS
<1>2. ChatOpen(t)
  BY <1>1, ChatTexts
<1>3. PICK e, f, g : /\ e = Event("finish", 0, chatReason(c)) /\ f = Event("usage", 0, finalizeUsage(c))
                     /\ g = Event("done", 0, << >>)
  OBVIOUS
<1>4. e.ev = "finish" /\ f.ev = "usage" /\ g.ev = "done"
  BY <1>3 DEF Event
<1>5. PICK x, y, z : x = Plus(t.out, e) /\ y = Plus(x, f) /\ z = Plus(y, g)
  OBVIOUS
<1>6. chatFinalize(c).out = z
  <2>1. PICK q : q = <<e, f, g>>
    OBVIOUS
  <2>2. Emit(t, q).out = t.out \o q
    BY <1>2, EmitKept DEF ChatOpen
  <2>3. t.out \o q = z
    <3>1. PICK o : o = t.out
      OBVIOUS
    <3>2. IsSeq(o)
      BY <1>2, <3>1 DEF ChatOpen
    <3>3. o \o <<e, f, g>> = Plus(Plus(Plus(o, e), f), g)
      BY <3>2, OneByOne
    <3> QED BY <1>5, <2>1, <3>1, <3>3
  <2>4. chatFinalize(c) = Emit(t, q)
    BY <1>1, <1>3, <2>1 DEF chatFinalize
  <2> QED BY <2>2, <2>3, <2>4
<1>7. IsSeq(t.out) /\ IsSeq(x) /\ IsSeq(y) /\ IsSeq(z)
  BY <1>2, <1>5, Appended DEF ChatOpen
<1>8. Bracketed(z, "call", {"args"}, "none")
  <2>1. Bracketed(x, "call", {"args"}, "none")
    BY <1>2, <1>4, <1>5, <1>7, BracketsGrow DEF ChatOpen
  <2>2. Bracketed(y, "call", {"args"}, "none")
    BY <1>4, <1>5, <1>7, <2>1, BracketsGrow
  <2> QED BY <1>4, <1>5, <1>7, <2>2, BracketsGrow
<1>9. Times(z, "finish") = 1 /\ Times(z, "usage") = 1 /\ Times(z, "done") = 1
  <2>1. Times(x, "finish") = 1 /\ Times(x, "usage") = 0 /\ Times(x, "done") = 0
    BY <1>2, <1>4, <1>5, <1>7, CountsGrow DEF ChatOpen
  <2>2. Times(y, "finish") = 1 /\ Times(y, "usage") = 1 /\ Times(y, "done") = 0
    BY <1>4, <1>5, <1>7, <2>1, CountsGrow
  <2>3. \A ev : Times(Plus(y, g), ev) = IF g.ev = ev THEN Times(y, ev) + 1 ELSE Times(y, ev)
    BY <1>7, CountsGrow
  <2>4. Times(z, "finish") = Times(y, "finish") /\ Times(z, "usage") = Times(y, "usage")
    BY <1>4, <1>5, <2>3
  <2>5. Times(z, "done") = Times(y, "done") + 1
    BY <1>4, <1>5, <2>3
  <2> QED BY <2>2, <2>4, <2>5
<1>10. [i \in 1..3 |-> z[Len(z) - 3 + i].ev] = <<"finish", "usage", "done">>
  <2>1. PICK n \in Nat : n = Len(t.out)
    BY <1>7, Appended
  <2>2. Len(x) = n + 1 /\ x[n + 1] = e
    BY <1>5, <1>7, <2>1, Appended
  <2>3. Len(y) = n + 2 /\ y[n + 1] = e /\ y[n + 2] = f
    <3>1. Len(y) = Len(x) + 1 /\ y[Len(x) + 1] = f /\ \A i \in 1..Len(x) : y[i] = x[i]
      BY <1>5, <1>7, Appended
    <3>2. n + 1 \in 1..n + 1
      OBVIOUS
    <3> QED BY <2>2, <3>1, <3>2
  <2>4. Len(z) = n + 3 /\ z[n + 1] = e /\ z[n + 2] = f /\ z[n + 3] = g
    <3>1. Len(z) = Len(y) + 1 /\ z[Len(y) + 1] = g /\ \A i \in 1..Len(y) : z[i] = y[i]
      BY <1>5, <1>7, Appended
    <3>2. n + 1 \in 1..n + 2 /\ n + 2 \in 1..n + 2
      OBVIOUS
    <3> QED BY <2>3, <3>1, <3>2
  <2>5. /\ z[Len(z) - 3 + 1].ev = "finish" /\ z[Len(z) - 3 + 2].ev = "usage"
        /\ z[Len(z) - 3 + 3].ev = "done"
    BY <1>4, <2>4
  <2> QED BY <2>5
<1> QED BY <1>6, <1>8, <1>9, <1>10 DEF ChatClosed

-----------------------------------------------------------------------------
(* Messages *)

\* What has been written to a messages client is well-formed so far.
Blocks(out) ==
    /\ IsSeq(out) /\ Len(out) >= 1 /\ out[1].ev = "message_start" /\ Times(out, "message_start") = 1
    /\ Bracketed(out, "block_start", {"text"}, "block_stop")
    /\ \A i \in DOMAIN out :
         /\ out[i].ev = "block_start" => Before(out, i, "block_start") = Before(out, i, "block_stop")
         /\ out[i].ev = "args" => InsideOf(out, i, out[i].at, "block_start", "none")
         /\ out[i].ev = "args" /\ Before(out, i, "block_start") = out[i].at + 1
              => InsideOf(out, i, out[i].at, "block_start", "block_stop")

\* How many blocks are open.
OpenBlocks(out, n) == Times(out, "block_start") = Times(out, "block_stop") + n

\* Once the message has begun one block is open: the first, for text, until a
\* call is announced, then that of the call announced last.
MessagesBegun(c) ==
    /\ Blocks(c.out) /\ OpenBlocks(c.out, 1) /\ c.next = Times(c.out, "block_start")
    /\ IF c.textOpen
       THEN ~AnyTool(c) /\ c.openTool = None /\ Within(c.out, 0, "block_start", "block_stop")
       ELSE /\ AnyTool(c) /\ c.openTool \in Nat /\ c.next = c.openTool + 1
            /\ Within(c.out, c.openTool, "block_start", "block_stop")
    /\ \A key \in DOMAIN c.tools : c.tools[key] \in Nat /\ Within(c.out, c.tools[key], "block_start", "none")

MessagesOpen(c) ==
    /\ Written(c) /\ c.started \in BOOLEAN /\ c.textOpen \in BOOLEAN
    /\ IF c.started THEN MessagesBegun(c) ELSE c.out = << >> /\ ~AnyTool(c)

\* At the end.
MessagesClosed(out) ==
    /\ Blocks(out) /\ OpenBlocks(out, 0)
    /\ [i \in 1..2 |-> out[Len(out) - 2 + i].ev] = <<"finish", "done">>

LEMMA MessagesKept == \A c, d : MessagesOpen(c) /\ Kept(c, d) => MessagesOpen(d)
<1> SUFFICES ASSUME NEW c, NEW d, MessagesOpen(c), Kept(c, d) PROVE MessagesOpen(d)
  OBVIOUS
<1>1. AnyTool(d) = AnyTool(c)
  BY DEF AnyTool, Kept
<1> QED BY <1>1 DEF MessagesOpen, MessagesBegun, Kept

LEMMA BlocksGrow ==
    ASSUME NEW out, Blocks(out), NEW e, e.ev # "message_start",
           e.ev = "block_start" => e.at = Times(out, "block_start") /\ OpenBlocks(out, 0),
           e.ev \in {"text", "block_stop"} => Within(out, e.at, "block_start", "block_stop"),
           e.ev = "args" => Within(out, e.at, "block_start", "none"),
           e.ev = "args" /\ Times(out, "block_start") = e.at + 1 => Within(out, e.at, "block_start", "block_stop")
    PROVE  Blocks(Plus(out, e))
<1> DEFINE o == Plus(out, e)
<1>1. /\ Len(out) \in Nat /\ DOMAIN out = 1..Len(out) /\ DOMAIN o = 1..Len(out) + 1
      /\ \A i \in 1..Len(out) : o[i] = out[i]
      /\ o[Len(out) + 1] = e /\ IsSeq(o) /\ Len(o) = Len(out) + 1
  BY Appended DEF Blocks
<1>2. /\ \A ev : \A i \in 1..Len(out) + 1 : Before(o, i, ev) = Before(out, i, ev)
      /\ Times(o, "message_start") = Times(out, "message_start")
      /\ \A ev : Times(out, ev) \in Nat
  BY CountsGrow DEF Blocks
<1>3. \A at, open, close : \A i \in 1..Len(out) + 1 :
          InsideOf(o, i, at, open, close) <=> InsideOf(out, i, at, open, close)
  BY InsideGrows DEF Blocks
<1>4. Bracketed(o, "block_start", {"text"}, "block_stop")
  BY BracketsGrow DEF Blocks
<1> HIDE DEF o
<1>5. Len(o) >= 1 /\ o[1].ev = "message_start"
  <2>1. 1 \in 1..Len(out)
    BY <1>1 DEF Blocks
  <2> QED BY <1>1, <2>1 DEF Blocks
<1>6. ASSUME NEW i \in DOMAIN o
      PROVE  /\ o[i].ev = "block_start" => Before(o, i, "block_start") = Before(o, i, "block_stop")
             /\ o[i].ev = "args" => InsideOf(o, i, o[i].at, "block_start", "none")
             /\ o[i].ev = "args" /\ Before(o, i, "block_start") = o[i].at + 1
                  => InsideOf(o, i, o[i].at, "block_start", "block_stop")
  <2>0. i \in 1..Len(out) + 1
    BY <1>1
  <2>1. CASE i = Len(out) + 1
    BY <1>1, <1>2, <1>3, <2>0, <2>1 DEF Times, Within, OpenBlocks
  <2>2. CASE i # Len(out) + 1
    <3>1. i \in DOMAIN out /\ o[i] = out[i]
      BY <1>1, <2>0, <2>2
    <3>2. /\ out[i].ev = "block_start" => Before(out, i, "block_start") = Before(out, i, "block_stop")
          /\ out[i].ev = "args" => InsideOf(out, i, out[i].at, "block_start", "none")
          /\ out[i].ev = "args" /\ Before(out, i, "block_start") = out[i].at + 1
               => InsideOf(out, i, out[i].at, "block_start", "block_stop")
      BY <3>1 DEF Blocks
    <3> QED BY <1>2, <1>3, <2>0, <3>1, <3>2
  <2> QED BY <2>1, <2>2
<1>7. Blocks(o)
  BY <1>1, <1>2, <1>4, <1>5, <1>6 DEF Blocks
<1> QED BY <1>7 DEF o

\* The message begins: message_start, and the block for text.
LEMMA MessagesHeads ==
    ASSUME NEW c, MessagesOpen(c)
    PROVE  MessagesOpen(messagesHead(c)) /\ messagesHead(c).started
<1>1. CASE c.started
  BY <1>1 DEF messagesHead
<1>2. CASE ~c.started
  <2>1. PICK e, f : e = Event("message_start", 0, << >>) /\ f = Event("block_start", 0, "text")
    OBVIOUS
  <2>2. e.ev = "message_start" /\ f.ev = "block_start" /\ f.at = 0
    BY <2>1 DEF Event
  <2>3. PICK x, y : x = Plus(<< >>, e) /\ y = Plus(x, f)
    OBVIOUS
  <2>4. IsSeq(x) /\ IsSeq(y) /\ DOMAIN x = 1..1 /\ Len(x) = 1 /\ x[1] = e
    <3>1. /\ Len(<< >>) = 0 /\ IsSeq(x) /\ Len(x) = Len(<< >>) + 1
          /\ DOMAIN x = 1..Len(<< >>) + 1 /\ x[Len(<< >>) + 1] = e
      BY <2>3, NothingYet, Appended
    <3>2. 0 + 1 = 1
      OBVIOUS
    <3> QED BY <2>3, <3>1, <3>2, Appended
  <2>5. Times(x, "message_start") = 1 /\ Times(x, "block_start") = 0 /\ Times(x, "block_stop") = 0
    BY <2>2, <2>3, NothingYet, CountsGrow
  <2>6. Bracketed(x, "block_start", {"text"}, "block_stop")
    BY <2>2, <2>3, NothingYet, BracketsGrow
  <2>7. Blocks(x)
    BY <2>2, <2>4, <2>5, <2>6 DEF Blocks
  <2>8. Blocks(y)
    BY <2>2, <2>3, <2>5, <2>7, BlocksGrow DEF OpenBlocks
  <2>9. Times(y, "block_start") = 1 /\ Times(y, "block_stop") = 0
    BY <2>2, <2>3, <2>4, <2>5, CountsGrow
  <2>10. Within(y, 0, "block_start", "block_stop")
    BY <2>2, <2>3, <2>4, InsideGrows
  <2>11. PICK q : q = <<e, f>>
    OBVIOUS
  <2>12. PICK b : b = Emit(c, q)
    OBVIOUS
  <2>13. Written(b) /\ b.out = y /\ b.tools = c.tools
    <3>1. c.out = << >> /\ Written(c)
      BY <1>2 DEF MessagesOpen
    <3>2. Written(b) /\ b.out = << >> \o q /\ b.tools = c.tools
      BY <2>12, <3>1, EmitKept
    <3>3. << >> \o q = y
      BY <2>3, <2>11, NothingYet, OneByOne
    <3> QED BY <3>2, <3>3
  <2>14. PICK d : d = messagesHead(c)
    OBVIOUS
  <2>15. d = [b EXCEPT !.started = TRUE, !.textOpen = TRUE, !.openTool = None, !.next = 1]
    BY <1>2, <2>1, <2>11, <2>12, <2>14 DEF messagesHead
  <2>16. /\ Written(d) /\ d.out = y /\ d.tools = c.tools /\ d.started = TRUE /\ d.textOpen = TRUE
         /\ d.openTool = None /\ d.next = 1
    BY <2>13, <2>15 DEF Written
  <2>17. DOMAIN d.tools = {} /\ ~AnyTool(d)
    BY <1>2, <2>16 DEF MessagesOpen, AnyTool
  <2>18. MessagesBegun(d)
    BY <2>8, <2>9, <2>10, <2>16, <2>17 DEF MessagesBegun, OpenBlocks
  <2> QED BY <2>14, <2>16, <2>18 DEF MessagesOpen
<1> QED BY <1>1, <1>2 DEF MessagesOpen

\* An event that opens nothing and closes nothing.
LEMMA MessagesSays ==
    ASSUME NEW c, MessagesOpen(c), c.started, NEW e, e.ev \in {"args", "text"},
           e.ev = "args" => Within(c.out, e.at, "block_start", "none"),
           e.ev = "text" \/ Times(c.out, "block_start") = e.at + 1 => Within(c.out, e.at, "block_start", "block_stop")
    PROVE  MessagesOpen(Emit(c, <<e>>)) /\ Emit(c, <<e>>).started
<1>0. Written(c) /\ MessagesBegun(c) /\ Blocks(c.out) /\ IsSeq(c.out)
  BY DEF MessagesOpen, MessagesBegun, Blocks
<1>1. PICK d : d = Emit(c, <<e>>)
  OBVIOUS
<1>2. /\ Written(d) /\ d.out = Plus(c.out, e) /\ d.tools = c.tools /\ d.next = c.next
      /\ d.started = c.started /\ d.textOpen = c.textOpen /\ d.openTool = c.openTool
  BY <1>0, <1>1, EmitOne
<1>3. Blocks(d.out)
  BY <1>0, <1>2, BlocksGrow
<1>4. \A ev \in {"block_start", "block_stop"} : Times(d.out, ev) = Times(c.out, ev)
  BY <1>0, <1>2, CountsGrow
<1>5. \A at : /\ Within(c.out, at, "block_start", "block_stop") => Within(d.out, at, "block_start", "block_stop")
              /\ Within(c.out, at, "block_start", "none") => Within(d.out, at, "block_start", "none")
  BY <1>0, <1>2, InsideGrows
<1>6. AnyTool(d) = AnyTool(c)
  BY <1>2 DEF AnyTool
<1>7. MessagesBegun(d)
  BY <1>0, <1>2, <1>3, <1>4, <1>5, <1>6 DEF MessagesBegun, OpenBlocks
<1> QED BY <1>1, <1>2, <1>7 DEF MessagesOpen

\* The open block is closed.
LEMMA MessagesStops ==
    ASSUME NEW c, MessagesOpen(c), c.started, NEW e, e.ev = "block_stop",
           e.at = IF c.textOpen THEN 0 ELSE c.openTool
    PROVE  LET o == Plus(c.out, e) IN
           /\ Blocks(o) /\ OpenBlocks(o, 0) /\ c.next = Times(o, "block_start")
           /\ \A at : Within(c.out, at, "block_start", "none") => Within(o, at, "block_start", "none")
<1>0. MessagesBegun(c) /\ Blocks(c.out) /\ IsSeq(c.out)
  BY DEF MessagesOpen, MessagesBegun, Blocks
<1>1. PICK o : o = Plus(c.out, e)
  OBVIOUS
<1>2. Within(c.out, e.at, "block_start", "block_stop")
  BY <1>0 DEF MessagesBegun
<1>3. Blocks(o)
  BY <1>0, <1>1, <1>2, BlocksGrow
<1>4. /\ Times(o, "block_start") = Times(c.out, "block_start")
      /\ Times(o, "block_stop") = Times(c.out, "block_stop") + 1
      /\ Times(c.out, "block_start") \in Nat /\ Times(c.out, "block_stop") \in Nat
  BY <1>0, <1>1, CountsGrow
<1>5. OpenBlocks(o, 0) /\ c.next = Times(o, "block_start")
  BY <1>0, <1>4 DEF MessagesBegun, OpenBlocks
<1>6. \A at : Within(c.out, at, "block_start", "none") => Within(o, at, "block_start", "none")
  BY <1>0, <1>1, InsideGrows
<1> QED BY <1>1, <1>3, <1>5, <1>6

LEMMA MessagesTools ==
    ASSUME NEW c, MessagesOpen(c), c.started, NEW e
    PROVE  MessagesOpen(messagesTool(c, e)) /\ messagesTool(c, e).started
<1>0. Written(c) /\ MessagesBegun(c) /\ Blocks(c.out) /\ IsSeq(c.out)
  BY DEF MessagesOpen, MessagesBegun, Blocks
<1>1. CASE e.kind = "start" /\ e.key \notin DOMAIN c.tools
  <2>1. PICK b : b = Announce(c, e.key)
    OBVIOUS
  <2>2. /\ Written(b) /\ b.started = c.started /\ b.out = c.out /\ b.next = c.next + 1
        /\ DOMAIN b.tools = DOMAIN c.tools \union {e.key} /\ b.tools[e.key] = c.next
        /\ \A k \in DOMAIN c.tools : k # e.key => b.tools[k] = c.tools[k]
    <3>1. PICK key : key = e.key
      OBVIOUS
    <3>2. /\ Written(b) /\ b.started = c.started /\ b.out = c.out /\ b.next = c.next + 1
          /\ DOMAIN b.tools = DOMAIN c.tools \union {key} /\ b.tools[key] = c.next
          /\ \A k \in DOMAIN c.tools : k # key => b.tools[k] = c.tools[k]
      <4>1. Written(c) /\ b = Announce(c, key)
        BY <1>0, <2>1, <3>1
      <4>2. /\ Written(b) /\ b.started = c.started /\ b.out = c.out
            /\ b.next = c.next + 1
        BY <4>1, Announced
      <4>3. /\ DOMAIN b.tools = DOMAIN c.tools \union {key} /\ b.tools[key] = c.next
            /\ \A k \in DOMAIN c.tools : k # key => b.tools[k] = c.tools[k]
        BY <4>1, Announced
      <4> QED BY <4>2, <4>3
    <3> QED BY <3>1, <3>2
  <2>3. PICK a : a = [b EXCEPT !.textOpen = FALSE, !.openTool = c.next]
    OBVIOUS
  <2>4. /\ Written(a) /\ a.started = c.started /\ a.out = c.out /\ a.next = c.next + 1
        /\ a.tools = b.tools /\ a.textOpen = FALSE /\ a.openTool = c.next
    BY <2>2, <2>3 DEF Written
  <2>5. PICK v, w : /\ v = Event("block_stop", IF c.textOpen THEN 0 ELSE c.openTool, << >>)
                    /\ w = Event("block_start", c.next, "tool")
    OBVIOUS
  <2>6. /\ v.ev = "block_stop" /\ v.at = (IF c.textOpen THEN 0 ELSE c.openTool)
        /\ w.ev = "block_start" /\ w.at = c.next
    BY <2>5 DEF Event
  <2>7. PICK q : q = <<v, w>>
    OBVIOUS
  <2>8. messagesTool(c, e) = Emit(a, q)
    <3>1. PICK q1 : q1 = IF c.textOpen THEN <<Event("block_stop", 0, << >>)>> ELSE << >>
      OBVIOUS
    <3>2. PICK q2 : q2 = IF c.openTool >= 0 THEN <<Event("block_stop", c.openTool, << >>)>> ELSE << >>
      OBVIOUS
    <3>3. messagesTool(c, e) = Emit(a, q1 \o q2 \o <<w>>)
      BY <1>1, <2>1, <2>3, <2>5, <3>1, <3>2 DEF messagesTool
    <3>4. q1 \o q2 = <<v>>
      <4>1. CASE c.textOpen
        <5>1. q1 = <<v>> /\ q2 = << >>
          BY <1>0, <2>5, <3>1, <3>2, <4>1 DEF MessagesBegun, None
        <5> QED BY <5>1, Joined
      <4>2. CASE ~c.textOpen
        <5>1. q1 = << >> /\ q2 = <<v>>
          BY <1>0, <2>5, <3>1, <3>2, <4>2 DEF MessagesBegun
        <5> QED BY <5>1, Joined
      <4> QED BY <4>1, <4>2
    <3>5. q1 \o q2 \o <<w>> = q
      BY <2>7, <3>4, Joined
    <3> QED BY <3>3, <3>5
  <2>9. PICK o, z : o = Plus(c.out, v) /\ z = Plus(o, w)
    OBVIOUS
  <2>10. /\ Blocks(o) /\ OpenBlocks(o, 0) /\ c.next = Times(o, "block_start") /\ IsSeq(o)
         /\ \A at : Within(c.out, at, "block_start", "none") => Within(o, at, "block_start", "none")
    BY <2>6, <2>9, MessagesStops DEF Blocks
  <2>11. Blocks(z)
    BY <2>6, <2>9, <2>10, BlocksGrow
  <2>12. /\ Times(z, "block_start") = c.next + 1 /\ OpenBlocks(z, 1)
         /\ c.next \in Nat
    <3>1. /\ Times(z, "block_start") = Times(o, "block_start") + 1
          /\ Times(z, "block_stop") = Times(o, "block_stop")
          /\ Times(o, "block_start") \in Nat /\ Times(o, "block_stop") \in Nat
      BY <2>6, <2>9, <2>10, CountsGrow
    <3> QED BY <2>10, <3>1 DEF OpenBlocks
  <2>13. /\ Within(z, c.next, "block_start", "block_stop") /\ Within(z, c.next, "block_start", "none")
         /\ \A at : Within(o, at, "block_start", "none") => Within(z, at, "block_start", "none")
    BY <2>6, <2>9, <2>10, InsideGrows
  <2>14. PICK d : d = Emit(a, q)
    OBVIOUS
  <2>15. /\ Written(d) /\ d.out = z /\ d.tools = b.tools /\ d.next = c.next + 1
         /\ d.started = c.started /\ d.textOpen = FALSE /\ d.openTool = c.next
    <3>1. /\ Written(d) /\ d.out = c.out \o q /\ d.tools = b.tools /\ d.next = c.next + 1
          /\ d.started = c.started /\ d.textOpen = FALSE /\ d.openTool = c.next
      <4>1. Written(a)
        BY <2>4
      <4>2. /\ Written(d) /\ d.out = a.out \o q /\ d.tools = a.tools /\ d.next = a.next
            /\ d.started = a.started /\ d.textOpen = a.textOpen /\ d.openTool = a.openTool
        BY <2>14, <4>1 DEF Written, Emit
      <4> QED BY <2>4, <4>2
    <3>2. c.out \o q = z
      BY <1>0, <2>7, <2>9, OneByOne
    <3> QED BY <3>1, <3>2
  <2>16. \A key \in DOMAIN d.tools : d.tools[key] \in Nat /\ Within(d.out, d.tools[key], "block_start", "none")
    BY <1>0, <2>2, <2>10, <2>12, <2>13, <2>15 DEF MessagesBegun
  <2>17. AnyTool(d)
    BY <2>2, <2>15 DEF AnyTool
  <2>18. MessagesBegun(d)
    BY <2>11, <2>12, <2>13, <2>15, <2>16, <2>17 DEF MessagesBegun
  <2>19. MessagesOpen(d) /\ d.started
    BY <2>15, <2>18 DEF MessagesOpen
  <2> QED BY <2>8, <2>14, <2>19
<1>2. CASE e.kind # "start" /\ e.key \in DOMAIN c.tools
  <2>1. PICK v : v = Event("args", c.tools[e.key], e.args)
    OBVIOUS
  <2>2. v.ev = "args" /\ v.at = c.tools[e.key]
    BY <2>1 DEF Event
  <2>3. Times(c.out, "block_start") = v.at + 1 => Within(c.out, v.at, "block_start", "block_stop")
    <3>1. ~c.textOpen /\ c.openTool \in Nat /\ c.tools[e.key] \in Nat
          /\ c.next = c.openTool + 1 /\ c.next = Times(c.out, "block_start")
          /\ Within(c.out, c.openTool, "block_start", "block_stop")
      BY <1>0, <1>2 DEF MessagesBegun, AnyTool
    <3>2. Times(c.out, "block_start") = v.at + 1 => v.at = c.openTool
      BY <2>2, <3>1
    <3> QED BY <3>1, <3>2
  <2>4. MessagesOpen(Emit(c, <<v>>)) /\ Emit(c, <<v>>).started
    BY <1>0, <1>2, <2>2, <2>3, MessagesSays DEF MessagesBegun
  <2> QED BY <1>2, <2>1, <2>4 DEF messagesTool
<1>3. CASE (e.kind = "start") = (e.key \in DOMAIN c.tools)
  BY <1>3 DEF messagesTool
<1> QED BY <1>1, <1>2, <1>3

LEMMA MessagesTexts ==
    ASSUME NEW c, MessagesOpen(c), c.started
    PROVE  MessagesOpen(messagesText(c)) /\ messagesText(c).started
<1>0. Written(c) /\ MessagesBegun(c)
  BY DEF MessagesOpen
<1>1. MessagesOpen(Taken(c)) /\ Taken(c).started
  BY <1>0, ParseKept, MessagesKept DEF Kept
<1>2. PICK v : v = Event("text", 0, Suffix(c))
  OBVIOUS
<1>3. ASSUME ~AnyTool(c) PROVE MessagesOpen(Taken(Emit(c, <<v>>))) /\ Taken(Emit(c, <<v>>)).started
  <2>1. v.ev = "text" /\ v.at = 0
    BY <1>2 DEF Event
  <2>2. Within(c.out, 0, "block_start", "block_stop")
    BY <1>0, <1>3 DEF MessagesBegun
  <2>3. MessagesOpen(Emit(c, <<v>>)) /\ Emit(c, <<v>>).started
    BY <2>1, <2>2, MessagesSays
  <2>4. Kept(Emit(c, <<v>>), Taken(Emit(c, <<v>>)))
    BY <2>3, ParseKept DEF MessagesOpen
  <2> QED BY <2>3, <2>4, MessagesKept DEF Kept
<1> QED BY <1>1, <1>2, <1>3 DEF messagesText

LEMMA MessagesEnds ==
    ASSUME NEW c, MessagesOpen(c), c.started
    PROVE  MessagesClosed(messagesFinalize(c).out)
<1>1. PICK t : t = messagesText(c)
  OBVIOUS
<1>2. MessagesOpen(t) /\ t.started /\ Written(t) /\ MessagesBegun(t) /\ IsSeq(t.out)
  BY <1>1, MessagesTexts DEF MessagesOpen, MessagesBegun, Blocks
<1>3. PICK e, f, g : /\ e = Event("block_stop", IF t.textOpen THEN 0 ELSE t.openTool, << >>)
                     /\ f = Event("finish", finalizeUsage(t), messagesReason(t)) /\ g = Event("done", 0, << >>)
  OBVIOUS
<1>4. /\ e.ev = "block_stop" /\ e.at = (IF t.textOpen THEN 0 ELSE t.openTool)
      /\ f.ev = "finish" /\ g.ev = "done"
  BY <1>3 DEF Event
<1>5. PICK x, y, z : x = Plus(t.out, e) /\ y = Plus(x, f) /\ z = Plus(y, g)
  OBVIOUS
<1>6. messagesFinalize(c).out = z
  <2>1. PICK d : d = [t EXCEPT !.openTool = None, !.textOpen = FALSE]
    OBVIOUS
  <2>2. Written(d) /\ d.out = t.out
    BY <1>2, <2>1 DEF Written
  <2>3. PICK q1 : q1 = IF t.openTool >= 0 THEN <<Event("block_stop", t.openTool, << >>)>>
                       ELSE IF t.textOpen \/ ~AnyTool(t) THEN <<Event("block_stop", 0, << >>)>>
                       ELSE << >>
    OBVIOUS
  <2>4. q1 = <<e>>
    BY <1>2, <1>3, <2>3 DEF MessagesBegun, None
  <2>5. PICK q : q = q1 \o <<f, g>>
    OBVIOUS
  <2>6. messagesFinalize(c) = Emit(d, q)
    BY <1>1, <1>3, <2>1, <2>3, <2>5 DEF messagesFinalize
  <2>7. Emit(d, q).out = t.out \o q
    BY <2>2 DEF Written, Emit
  <2>8. t.out \o q = z
    <3>1. q = <<e, f, g>>
      BY <2>4, <2>5, Joined
    <3> QED BY <1>2, <1>5, <3>1, OneByOne
  <2> QED BY <2>6, <2>7, <2>8
<1>7. /\ Blocks(x) /\ OpenBlocks(x, 0) /\ IsSeq(x)
  BY <1>2, <1>4, <1>5, MessagesStops DEF Blocks
<1>8. Blocks(y) /\ IsSeq(y)
  BY <1>4, <1>5, <1>7, BlocksGrow DEF Blocks
<1>9. Blocks(z)
  BY <1>4, <1>5, <1>8, BlocksGrow
<1>10. OpenBlocks(z, 0)
  <2>1. \A ev \in {"block_start", "block_stop"} : Times(y, ev) = Times(x, ev)
    BY <1>4, <1>5, <1>7, CountsGrow
  <2>2. \A ev \in {"block_start", "block_stop"} : Times(z, ev) = Times(y, ev)
    BY <1>4, <1>5, <1>8, CountsGrow
  <2> QED BY <1>7, <2>1, <2>2 DEF OpenBlocks
<1>11. [i \in 1..2 |-> z[Len(z) - 2 + i].ev] = <<"finish", "done">>
  <2>1. PICK n \in Nat : n = Len(x)
    BY <1>7, Appended
  <2>2. Len(y) = n + 1 /\ y[n + 1] = f
    BY <1>5, <1>7, <2>1, Appended
  <2>3. Len(z) = n + 2 /\ z[n + 1] = f /\ z[n + 2] = g
    <3>1. Len(z) = Len(y) + 1 /\ z[Len(y) + 1] = g /\ \A i \in 1..Len(y) : z[i] = y[i]
      BY <1>5, <1>8, Appended
    <3>2. n + 1 \in 1..n + 1
      OBVIOUS
    <3> QED BY <2>2, <3>1, <3>2
  <2>4. z[Len(z) - 2 + 1].ev = "finish" /\ z[Len(z) - 2 + 2].ev = "done"
    BY <1>4, <2>3
  <2> QED BY <2>4
<1> QED BY <1>6, <1>9, <1>10, <1>11 DEF MessagesClosed

-----------------------------------------------------------------------------
(* What has been said *)

LEMMA FlatGrows ==
    ASSUME NEW S, NEW q \in Seq(Seq(S)), NEW r \in Seq(Seq(S)), NEW n \in Nat,
           Len(q) = n, Len(r) = n + 1, \A i \in 1..n : r[i] = q[i]
    PROVE  FlattenSeq(r) = FlattenSeq(q) \o r[n + 1]
<1>1. PICK g : g = (CHOOSE x : IsFlat(x, r))
  OBVIOUS
<1>2. IsFlat(g, r) /\ FlattenSeq(r) = g[n + 1]
  BY <1>1, FlatExists, FlatChosen
<1>3. \A i \in 1..n + 1 : g[i] = IF i = 1 THEN r[i] ELSE g[i - 1] \o r[i]
  BY <1>2 DEF IsFlat
<1>4. n + 1 \in 1..n + 1 /\ n + 1 - 1 = n
  OBVIOUS
<1>5. CASE n = 0
  <2>1. q = << >> /\ FlattenSeq(q) = q
    BY <1>5, EmptySeq, FlatChosen
  <2>2. g[n + 1] = r[n + 1] /\ r[n + 1] \in Seq(S)
    BY <1>3, <1>4, <1>5, ElementOfSeq
  <2>3. << >> \o r[n + 1] = r[n + 1]
    BY <2>2, ConcatEmptySeq
  <2> QED BY <1>2, <2>1, <2>2, <2>3
<1>6. CASE n # 0
  <2>1. PICK f : f = (CHOOSE x : IsFlat(x, q))
    OBVIOUS
  <2>2. IsFlat(f, q) /\ FlattenSeq(q) = f[n]
    BY <1>6, <2>1, FlatExists, FlatChosen
  <2>3. \A i \in 1..n : f[i] = IF i = 1 THEN q[i] ELSE f[i - 1] \o q[i]
    BY <2>2 DEF IsFlat
  <2> DEFINE T == {m \in Nat : m < n => f[m + 1] = g[m + 1]}
  <2>4. 0 \in T
    <3>1. 0 + 1 \in 1..n /\ 0 + 1 \in 1..n + 1 /\ 0 + 1 = 1
      BY <1>6
    <3> QED BY <1>3, <2>3, <3>1
  <2>5. ASSUME NEW m \in Nat, m \in T PROVE m + 1 \in T
    <3> SUFFICES ASSUME m + 1 < n PROVE f[m + 1 + 1] = g[m + 1 + 1]
      OBVIOUS
    <3>1. PICK i : i = m + 1 + 1
      OBVIOUS
    <3>2. i \in 1..n /\ i \in 1..n + 1 /\ i # 1 /\ i - 1 = m + 1 /\ m < n
      BY <3>1
    <3>3. f[i] = f[i - 1] \o q[i] /\ g[i] = g[i - 1] \o r[i] /\ r[i] = q[i]
      BY <1>3, <2>3, <3>2
    <3> QED BY <2>5, <3>1, <3>2, <3>3
  <2>6. n - 1 \in Nat /\ n - 1 < n /\ n - 1 + 1 = n
    BY <1>6
  <2> HIDE DEF T
  <2>7. n - 1 \in T
    BY <2>4, <2>5, <2>6, NatRange
  <2>8. f[n] = g[n]
    BY <2>6, <2>7 DEF T
  <2>9. g[n + 1] = g[n] \o r[n + 1]
    <3>1. PICK i : i = n + 1
      OBVIOUS
    <3>2. i \in 1..n + 1 /\ i # 1 /\ i - 1 = n
      BY <1>6, <3>1
    <3> QED BY <1>3, <3>1, <3>2
  <2> QED BY <1>2, <2>2, <2>8, <2>9
<1> QED BY <1>5, <1>6

\* The events of a kind say pieces.
SayPieces(out, ev) == \A i \in DOMAIN out : out[i].ev = ev => out[i].say \in Seq(Piece)

Share(e, ev, at) == IF e.ev = ev /\ e.at = at THEN e.say ELSE << >>

LEMMA SaidGrows ==
    ASSUME NEW out, IsSeq(out), NEW e, NEW ev, NEW at,
           SayPieces(out, ev), e.ev = ev => e.say \in Seq(Piece)
    PROVE  /\ SayPieces(Plus(out, e), ev)
           /\ SaidIn(Plus(out, e), ev, at) = SaidIn(out, ev, at) \o Share(e, ev, at)
           /\ SaidIn(out, ev, at) \in Seq(Piece)
           /\ e.ev # ev \/ e.at # at => SaidIn(Plus(out, e), ev, at) = SaidIn(out, ev, at)
<1>1. PICK o : o = Plus(out, e)
  OBVIOUS
<1>2. PICK n \in Nat : n = Len(out)
  BY Appended
<1>3. /\ DOMAIN out = 1..n /\ DOMAIN o = 1..n + 1 /\ o[n + 1] = e
      /\ \A i \in 1..n : o[i] = out[i]
  BY <1>1, <1>2, Appended
<1>4. SayPieces(o, ev)
  <2>1. ASSUME NEW i \in 1..n + 1, o[i].ev = ev PROVE o[i].say \in Seq(Piece)
    <3>1. CASE i = n + 1
      BY <1>3, <2>1, <3>1
    <3>2. CASE i # n + 1
      <4>1. i \in 1..n
        BY <3>2
      <4> QED BY <1>3, <2>1, <4>1 DEF SayPieces
    <3> QED BY <3>1, <3>2
  <2> QED BY <1>3, <2>1 DEF SayPieces
<1>5. PICK q : q = [i \in DOMAIN out |-> IF out[i].ev = ev /\ out[i].at = at THEN out[i].say ELSE << >>]
  OBVIOUS
<1>6. PICK r : r = [i \in DOMAIN o |-> IF o[i].ev = ev /\ o[i].at = at THEN o[i].say ELSE << >>]
  OBVIOUS
<1>7. << >> \in Seq(Piece)
  BY EmptySeq
<1>8. q \in Seq(Seq(Piece)) /\ Len(q) = n
  BY <1>3, <1>5, <1>7 DEF SayPieces
<1>9. r \in Seq(Seq(Piece)) /\ Len(r) = n + 1
  BY <1>3, <1>4, <1>6, <1>7 DEF SayPieces
<1>10. (\A i \in 1..n : r[i] = q[i]) /\ r[n + 1] = Share(e, ev, at)
  <2>1. \A i \in 1..n : i \in 1..n + 1
    OBVIOUS
  <2>2. \A i \in 1..n : r[i] = q[i]
    BY <1>3, <1>5, <1>6, <2>1
  <2>3. n + 1 \in 1..n + 1
    OBVIOUS
  <2> QED BY <1>3, <1>6, <2>2, <2>3 DEF Share
<1>11. FlattenSeq(r) = FlattenSeq(q) \o Share(e, ev, at)
  <2>1. FlattenSeq(r) = FlattenSeq(q) \o r[n + 1]
    <3>1. \A i \in 1..n : r[i] = q[i]
      BY <1>10
    <3> QED BY <1>8, <1>9, <3>1, FlatGrows
  <2> QED BY <1>10, <2>1
<1>12. SaidIn(out, ev, at) = FlattenSeq(q) /\ SaidIn(o, ev, at) = FlattenSeq(r)
  BY <1>5, <1>6 DEF SaidIn
<1>13. FlattenSeq(q) \in Seq(Piece)
  BY <1>8, FlatType
<1>14. FlattenSeq(q) \o << >> = FlattenSeq(q)
  BY <1>13, ConcatEmptySeq
<1>15. e.ev # ev \/ e.at # at => Share(e, ev, at) = << >>
  BY DEF Share
<1> QED BY <1>1, <1>4, <1>11, <1>12, <1>13, <1>14, <1>15

LEMMA NothingSaid == \A ev, at : SaidIn(<< >>, ev, at) = << >> /\ SayPieces(<< >>, ev)
<1>1. ASSUME NEW ev, NEW at PROVE SaidIn(<< >>, ev, at) = << >>
  <2>1. PICK q : q = [i \in DOMAIN << >> |-> IF << >>[i].ev = ev /\ << >>[i].at = at THEN << >>[i].say ELSE << >>]
    OBVIOUS
  <2>2. q = << >>
    BY <2>1
  <2>3. FlattenSeq(q) = << >>
    BY <2>2, FlatChosen
  <2> QED BY <2>1, <2>3 DEF SaidIn
<1>2. \A ev : SayPieces(<< >>, ev)
  BY NothingYet DEF SayPieces
<1> QED BY <1>1, <1>2

\* What an event that is written leaves alone.
Rest(c, d) ==
    /\ d.client = c.client /\ d.started = c.started /\ d.text = c.text /\ d.emitted = c.emitted
    /\ d.tools = c.tools /\ d.next = c.next /\ d.msgOut = c.msgOut /\ d.part = c.part
    /\ d.callArgs = c.callArgs

\* An event that is numbered is otherwise the same.
LEMMA NumberedOne ==
    ASSUME NEW c, Written(c), NEW ev, NEW at, NEW say
    PROVE  \E v : /\ v.ev = ev /\ v.at = at /\ v.say = say
                  /\ EmitNumbered(c, <<Event(ev, at, say)>>).out = Plus(c.out, v)
                  /\ Written(EmitNumbered(c, <<Event(ev, at, say)>>))
                  /\ Rest(c, EmitNumbered(c, <<Event(ev, at, say)>>))
<1>1. PICK q : q = <<Event(ev, at, say)>>
  OBVIOUS
<1>2. PICK v : v = [Event(ev, at, say) EXCEPT !.seq = c.seq + 1 - 1]
  OBVIOUS
<1>3. v.ev = ev /\ v.at = at /\ v.say = say
  BY <1>2 DEF Event
<1>4. Numbered(c, q) = <<v>>
  BY <1>1, <1>2 DEF Numbered
<1>5. PICK b : b = Emit(c, <<v>>)
  OBVIOUS
<1>6. Written(b) /\ b.out = Plus(c.out, v)
  BY <1>5, EmitOne
<1>7. Rest(c, b)
  BY <1>5 DEF Emit, Written, Rest
<1>8. PICK d : d = EmitNumbered(c, q)
  OBVIOUS
<1>9. d = [b EXCEPT !.seq = @ + Len(q)]
  BY <1>4, <1>5, <1>8 DEF EmitNumbered
<1>10. Written(d) /\ d.out = b.out /\ Rest(b, d)
  BY <1>6, <1>9 DEF Written, Rest
<1>11. Rest(c, d)
  BY <1>7, <1>10 DEF Rest
<1> QED BY <1>1, <1>3, <1>6, <1>8, <1>10, <1>11

\* Two events numbered together.
LEMMA NumberedTwo ==
    ASSUME NEW c, NEW e, NEW f
    PROVE  \E v, w : /\ v = [e EXCEPT !.seq = c.seq + 1 - 1] /\ w = [f EXCEPT !.seq = c.seq + 2 - 1]
                     /\ Numbered(c, <<e, f>>) = <<v, w>>
<1>1. PICK q : q = <<e, f>> /\ DOMAIN q = {1, 2}
  <2>1. DOMAIN <<e, f>> = {1, 2}
    OBVIOUS
  <2> QED BY <2>1
<1>2. Numbered(c, q) = <<[e EXCEPT !.seq = c.seq + 1 - 1], [f EXCEPT !.seq = c.seq + 2 - 1]>>
  BY <1>1 DEF Numbered
<1> QED BY <1>1, <1>2

-----------------------------------------------------------------------------
(* Responses *)

InItem == {"part_added", "text", "text_done", "part_done", "args", "args_done"}

\* What has been written to a responses client is well-formed so far.
Items(out) ==
    /\ IsSeq(out) /\ Len(out) >= 2 /\ out[1].ev = "created" /\ out[2].ev = "in_progress"
    /\ Bracketed(out, "item_added", InItem, "item_done")
    /\ \A i \in DOMAIN out :
         /\ out[i].ev = "text" => Before(out, i, "part_added") = 1
         /\ out[i].ev = "item_done" => out[i].at = Before(out, i, "item_done")
    /\ SayPieces(out, "text") /\ SayPieces(out, "args")

LEMMA ItemsGrow ==
    ASSUME NEW out, Items(out), NEW e,
           e.ev = "item_added" => e.at = Times(out, "item_added"),
           e.ev \in InItem \union {"item_done"} => Within(out, e.at, "item_added", "item_done"),
           e.ev = "text" => Times(out, "part_added") = 1,
           e.ev = "item_done" => e.at = Times(out, "item_done"),
           e.ev \in {"text", "args"} => e.say \in Seq(Piece)
    PROVE  Items(Plus(out, e))
<1> DEFINE o == Plus(out, e)
<1>1. /\ Len(out) \in Nat /\ DOMAIN out = 1..Len(out) /\ DOMAIN o = 1..Len(out) + 1
      /\ \A i \in 1..Len(out) : o[i] = out[i]
      /\ o[Len(out) + 1] = e /\ IsSeq(o) /\ Len(o) = Len(out) + 1
  BY Appended DEF Items
<1>2. \A ev : \A i \in 1..Len(out) + 1 : Before(o, i, ev) = Before(out, i, ev)
  BY CountsGrow DEF Items
<1>3. Bracketed(o, "item_added", InItem, "item_done")
  BY BracketsGrow DEF Items
<1>4. SayPieces(o, "text") /\ SayPieces(o, "args")
  BY SaidGrows DEF Items
<1> HIDE DEF o
<1>5. Len(o) >= 2 /\ o[1].ev = "created" /\ o[2].ev = "in_progress"
  <2>1. 1 \in 1..Len(out) /\ 2 \in 1..Len(out)
    BY <1>1 DEF Items
  <2> QED BY <1>1, <2>1 DEF Items
<1>6. ASSUME NEW i \in DOMAIN o
      PROVE  /\ o[i].ev = "text" => Before(o, i, "part_added") = 1
             /\ o[i].ev = "item_done" => o[i].at = Before(o, i, "item_done")
  <2>0. i \in 1..Len(out) + 1
    BY <1>1
  <2>1. CASE i = Len(out) + 1
    BY <1>1, <1>2, <2>0, <2>1 DEF Times
  <2>2. CASE i # Len(out) + 1
    <3>1. i \in DOMAIN out /\ o[i] = out[i]
      BY <1>1, <2>0, <2>2
    <3> QED BY <1>2, <2>0, <3>1 DEF Items
  <2> QED BY <2>1, <2>2
<1>7. Items(o)
  BY <1>1, <1>3, <1>4, <1>5, <1>6 DEF Items
<1> QED BY <1>7 DEF o

\* Nothing has been closed.
NoneClosed(out) ==
    /\ Times(out, "item_done") = 0 /\ Times(out, "finish") = 0
    /\ \A i \in DOMAIN out : out[i].ev \notin {"text_done", "args_done"}

LEMMA NoneClosedGrow ==
    ASSUME NEW out, IsSeq(out), NoneClosed(out), NEW e,
           e.ev \notin {"item_done", "finish", "text_done", "args_done"}
    PROVE  NoneClosed(Plus(out, e))
<1>1. PICK o : o = Plus(out, e)
  OBVIOUS
<1>2. /\ Len(out) \in Nat /\ DOMAIN out = 1..Len(out) /\ DOMAIN o = 1..Len(out) + 1
      /\ \A i \in 1..Len(out) : o[i] = out[i]
      /\ o[Len(out) + 1] = e
  BY <1>1, Appended
<1>3. Times(o, "item_done") = 0 /\ Times(o, "finish") = 0
  BY <1>1, CountsGrow DEF NoneClosed
<1>4. ASSUME NEW i \in DOMAIN o PROVE o[i].ev \notin {"text_done", "args_done"}
  <2>1. CASE i = Len(out) + 1
    BY <1>2, <2>1
  <2>2. CASE i # Len(out) + 1
    <3>1. i \in DOMAIN out /\ o[i] = out[i]
      BY <1>2, <2>2
    <3> QED BY <3>1 DEF NoneClosed
  <2> QED BY <2>1, <2>2
<1> QED BY <1>1, <1>3, <1>4 DEF NoneClosed

\* What the client has been told of an item is what the converter remembers.
Remembered(c) ==
    /\ DOMAIN c.callArgs = DOMAIN c.tools
    /\ \A key \in DOMAIN c.tools : c.callArgs[key] = SaidIn(c.out, "args", c.tools[key])
    /\ \A at : SaidIn(c.out, "text", at) # << >> => at = c.msgOut /\ c.part
    /\ \A at : SaidIn(c.out, "args", at) # << >> => \E key \in DOMAIN c.tools : c.tools[key] = at

\* The items are those of the calls and of the message, one each.
Numbering(c) ==
    /\ c.next = Times(c.out, "item_added")
    /\ c.msgOut = None \/ c.msgOut \in 0..c.next - 1
    /\ \A key \in DOMAIN c.tools : c.tools[key] \in 0..c.next - 1 /\ c.tools[key] # c.msgOut
    /\ \A key, other \in DOMAIN c.tools : c.tools[key] = c.tools[other] => key = other
    /\ \A i \in 0..c.next - 1 : i = c.msgOut \/ \E key \in DOMAIN c.tools : c.tools[key] = i

ResponsesBegun(c) ==
    /\ Items(c.out) /\ NoneClosed(c.out) /\ Numbering(c) /\ Remembered(c)
    /\ \A i \in 0..c.next - 1 : Within(c.out, i, "item_added", "item_done")
    /\ Times(c.out, "part_added") = (IF c.part THEN 1 ELSE 0) /\ (c.part => c.msgOut # None)

ResponsesOpen(c) ==
    /\ Written(c) /\ c.started \in BOOLEAN /\ c.part \in BOOLEAN
    /\ IF c.started THEN ResponsesBegun(c)
       ELSE /\ c.out = << >> /\ DOMAIN c.tools = {} /\ DOMAIN c.callArgs = {}
            /\ c.msgOut = None /\ ~c.part /\ c.next = 0

LEMMA ResponsesKept == \A c, d : ResponsesOpen(c) /\ Kept(c, d) => ResponsesOpen(d)
<1> SUFFICES ASSUME NEW c, NEW d, ResponsesOpen(c), Kept(c, d) PROVE ResponsesOpen(d)
  OBVIOUS
<1>1. /\ d.out = c.out /\ d.tools = c.tools /\ d.next = c.next /\ d.msgOut = c.msgOut
      /\ d.part = c.part /\ d.callArgs = c.callArgs /\ d.started = c.started /\ Written(d)
  BY DEF Kept
<1>2. (Numbering(d) <=> Numbering(c)) /\ (Remembered(d) <=> Remembered(c))
  BY <1>1 DEF Numbering, Remembered
<1> QED BY <1>1, <1>2 DEF ResponsesOpen, ResponsesBegun

\* What an event of neither kind leaves alone.
LEMMA SaidStays ==
    ASSUME NEW out, Items(out), NEW e
    PROVE  /\ e.ev # "text" => \A at : SaidIn(Plus(out, e), "text", at) = SaidIn(out, "text", at)
           /\ e.ev # "args" => \A at : SaidIn(Plus(out, e), "args", at) = SaidIn(out, "args", at)
<1>1. ASSUME NEW ev \in {"text", "args"}, e.ev # ev, NEW at
      PROVE  SaidIn(Plus(out, e), ev, at) = SaidIn(out, ev, at)
  <2>1. IsSeq(out) /\ SayPieces(out, ev)
    BY DEF Items
  <2> QED BY <1>1, <2>1, SaidGrows
<1> QED BY <1>1

LEMMA ResponsesHeads ==
    ASSUME NEW c, ResponsesOpen(c)
    PROVE  LET d == responsesHead(c) IN
           /\ ResponsesOpen(d) /\ d.started /\ d.text = c.text /\ d.emitted = c.emitted
           /\ d.msgOut = c.msgOut /\ \A at : SaidIn(d.out, "text", at) = SaidIn(c.out, "text", at)
<1>1. CASE c.started
  BY <1>1 DEF responsesHead
<1>2. CASE ~c.started
  <2>0. /\ Written(c) /\ c.out = << >> /\ DOMAIN c.tools = {} /\ DOMAIN c.callArgs = {}
        /\ c.msgOut = None /\ ~c.part /\ c.next = 0
    BY <1>2 DEF ResponsesOpen
  <2>1. PICK e, f : e = Event("created", 0, << >>) /\ f = Event("in_progress", 0, << >>)
    OBVIOUS
  <2>2. PICK v, w : /\ v = [e EXCEPT !.seq = c.seq + 1 - 1] /\ w = [f EXCEPT !.seq = c.seq + 2 - 1]
                    /\ Numbered(c, <<e, f>>) = <<v, w>>
    BY <2>0, NumberedTwo
  <2>3. v.ev = "created" /\ w.ev = "in_progress"
    BY <2>1, <2>2 DEF Event
  <2>4. PICK x, y : x = Plus(<< >>, v) /\ y = Plus(x, w)
    OBVIOUS
  <2>5. IsSeq(x) /\ Len(x) = 1 /\ x[1] = v
    <3>1. /\ Len(<< >>) = 0 /\ IsSeq(x) /\ Len(x) = Len(<< >>) + 1 /\ x[Len(<< >>) + 1] = v
      BY <2>4, NothingYet, Appended
    <3>2. 0 + 1 = 1
      OBVIOUS
    <3> QED BY <3>1, <3>2
  <2>6. IsSeq(y) /\ Len(y) = 2 /\ y[1] = v /\ y[2] = w /\ DOMAIN y = 1..2
    <3>1. /\ IsSeq(y) /\ Len(y) = Len(x) + 1 /\ y[Len(x) + 1] = w /\ DOMAIN y = 1..Len(x) + 1
          /\ \A i \in 1..Len(x) : y[i] = x[i]
      BY <2>4, <2>5, Appended
    <3>2. 1 + 1 = 2 /\ 1 \in 1..1
      OBVIOUS
    <3> QED BY <2>5, <3>1, <3>2
  <2>7. \A ev \in {"item_added", "item_done", "finish", "part_added"} : Times(y, ev) = 0
    <3>1. ASSUME NEW ev \in {"item_added", "item_done", "finish", "part_added"} PROVE Times(y, ev) = 0
      <4>1. Times(x, ev) = 0
        BY <2>3, <2>4, <3>1, NothingYet, CountsGrow
      <4> QED BY <2>3, <2>4, <2>5, <3>1, <4>1, CountsGrow
    <3> QED BY <3>1
  <2>8. Bracketed(y, "item_added", InItem, "item_done")
    <3>1. Bracketed(x, "item_added", InItem, "item_done")
      BY <2>3, <2>4, NothingYet, BracketsGrow DEF InItem
    <3> QED BY <2>3, <2>4, <2>5, <3>1, BracketsGrow DEF InItem
  <2>9. /\ SayPieces(y, "text") /\ SayPieces(y, "args")
        /\ \A at : SaidIn(y, "text", at) = << >> /\ SaidIn(y, "args", at) = << >>
    <3>1. ASSUME NEW ev \in {"text", "args"}, NEW at
          PROVE  SayPieces(y, ev) /\ SaidIn(y, ev, at) = << >>
      <4>1. v.ev # ev /\ w.ev # ev
        BY <2>3
      <4>2. SayPieces(<< >>, ev) /\ SaidIn(<< >>, ev, at) = << >> /\ IsSeq(<< >>)
        BY NothingSaid, NothingYet
      <4>3. PICK z : z = << >>
        OBVIOUS
      <4>4. SayPieces(z, ev) /\ SaidIn(z, ev, at) = << >> /\ IsSeq(z) /\ x = Plus(z, v)
        BY <2>4, <4>2, <4>3
      <4>5. SayPieces(x, ev) /\ SaidIn(x, ev, at) = << >>
        BY <4>1, <4>4, SaidGrows
      <4>6. SayPieces(y, ev) /\ SaidIn(y, ev, at) = << >>
        BY <2>4, <2>5, <4>1, <4>5, SaidGrows
      <4> QED BY <4>6
    <3> QED BY <3>1
  <2>10. Items(y)
    <3>1. \A i \in DOMAIN y : y[i].ev \in {"created", "in_progress"}
      BY <2>3, <2>6
    <3> QED BY <2>3, <2>6, <2>8, <2>9, <3>1 DEF Items
  <2>11. NoneClosed(y)
    <3>1. \A i \in DOMAIN y : y[i].ev \in {"created", "in_progress"}
      BY <2>3, <2>6
    <3> QED BY <2>7, <3>1 DEF NoneClosed
  <2>12. PICK q : q = <<v, w>>
    OBVIOUS
  <2>13. PICK b : b = Emit(c, q)
    OBVIOUS
  <2>14. Written(b) /\ b.out = y /\ Rest(c, b)
    <3>1. Written(b) /\ b.out = << >> \o q
      BY <2>0, <2>13, EmitKept
    <3>2. << >> \o q = y
      BY <2>4, <2>12, NothingYet, OneByOne
    <3>3. Rest(c, b)
      BY <2>0, <2>13 DEF Emit, Written, Rest
    <3> QED BY <3>1, <3>2, <3>3
  <2>15. PICK d : d = responsesHead(c)
    OBVIOUS
  <2>16. \E n : d = [[b EXCEPT !.seq = n] EXCEPT !.started = TRUE]
    BY <1>2, <2>1, <2>2, <2>12, <2>13, <2>15 DEF responsesHead, EmitNumbered
  <2>17. /\ Written(d) /\ d.out = y /\ d.started = TRUE /\ d.text = c.text /\ d.emitted = c.emitted
         /\ d.tools = c.tools /\ d.next = c.next /\ d.msgOut = c.msgOut /\ d.part = c.part
         /\ d.callArgs = c.callArgs
    BY <2>14, <2>16 DEF Written, Rest
  <2>18. Numbering(d) /\ Remembered(d)
    <3>1. d.next = 0 /\ DOMAIN d.tools = {} /\ DOMAIN d.callArgs = {} /\ d.msgOut = None
      BY <2>0, <2>17
    <3>2. 0..d.next - 1 = {}
      BY <3>1
    <3>3. d.next = Times(d.out, "item_added")
      BY <2>7, <2>17, <3>1
    <3>4. Numbering(d)
      BY <3>1, <3>2, <3>3 DEF Numbering
    <3>5. \A at : SaidIn(d.out, "text", at) = << >> /\ SaidIn(d.out, "args", at) = << >>
      BY <2>9, <2>17
    <3>6. Remembered(d)
      BY <3>1, <3>5 DEF Remembered
    <3> QED BY <3>4, <3>6
  <2>19. ResponsesBegun(d)
    BY <2>0, <2>7, <2>10, <2>11, <2>17, <2>18 DEF ResponsesBegun
  <2>20. ResponsesOpen(d)
    BY <2>0, <2>17, <2>19 DEF ResponsesOpen
  <2> QED BY <2>0, <2>9, <2>15, <2>17, <2>20, NothingSaid
<1> QED BY <1>1, <1>2

-----------------------------------------------------------------------------
\* A text in two.
TextTo(s, n) == SubSeq(s, 1, n)
TextFrom(s, n) == SubSeq(s, n + 1, Len(s))

\* The text said is that taken so far.
Spoken(c) ==
    /\ c.text \in Seq(Piece) /\ c.emitted \in 0..Len(c.text)
    /\ SaidIn(c.out, "text", c.msgOut) = TextTo(c.text, c.emitted)

LEMMA TextParts ==
    ASSUME NEW S, NEW s \in Seq(S), NEW n \in 0..Len(s)
    PROVE  /\ TextTo(s, n) \o TextFrom(s, n) = s
           /\ TextTo(s, Len(s)) = s
           /\ TextFrom(s, n) \in Seq(S)
           /\ TextFrom(s, n) = << >> => n = Len(s)
           /\ \A r \in Seq(S) : n \in 0..Len(s \o r) /\ TextTo(s \o r, n) = TextTo(s, n)
<1>1. PICK k \in Nat : k = Len(s)
  OBVIOUS
<1>2. PICK a : a = SubSeq(s, 1, n)
  OBVIOUS
<1>3. PICK b : b = SubSeq(s, n + 1, Len(s))
  OBVIOUS
<1>4. a \in Seq(S) /\ Len(a) = n /\ \A i \in 1..n : a[i] = s[i]
  BY <1>1, <1>2, SubSeqProperties
<1>5. b \in Seq(S) /\ Len(b) = k - n /\ \A i \in 1..k - n : b[i] = s[n + i]
  BY <1>1, <1>3, SubSeqProperties
<1>6. PICK t : t = a \o b
  OBVIOUS
<1>7. t \in Seq(S) /\ Len(t) = k /\ \A i \in 1..k : t[i] = IF i <= n THEN a[i] ELSE b[i - n]
  BY <1>1, <1>4, <1>5, <1>6, ConcatProperties
<1>8. ASSUME NEW i \in 1..k PROVE t[i] = s[i]
  <2>1. CASE i <= n
    BY <1>4, <1>7, <2>1
  <2>2. CASE ~(i <= n)
    <3>1. i - n \in 1..k - n /\ n + (i - n) = i
      BY <1>1, <2>2
    <3> QED BY <1>5, <1>7, <2>2, <3>1
  <2> QED BY <2>1, <2>2
<1>9. t = s
  BY <1>1, <1>7, <1>8, SeqEqual
<1>10. SubSeq(s, 1, Len(s)) = s
  <2>1. PICK w : w = SubSeq(s, 1, Len(s))
    OBVIOUS
  <2>2. w \in Seq(S) /\ Len(w) = k /\ \A i \in 1..k : w[i] = s[i]
    BY <1>1, <2>1, SubSeqProperties
  <2>3. w = s
    BY <1>1, <2>2, SeqEqual
  <2> QED BY <2>1, <2>3
<1>11. b = << >> => n = Len(s)
  BY <1>1, <1>5
<1>12. ASSUME NEW r \in Seq(S)
       PROVE  n \in 0..Len(s \o r) /\ SubSeq(s \o r, 1, n) = SubSeq(s, 1, n)
  <2>1. PICK u : u = s \o r
    OBVIOUS
  <2>2. PICK m \in Nat : m = Len(u) /\ m >= k
    BY <1>1, <2>1, ConcatProperties, LenProperties
  <2>3. u \in Seq(S) /\ \A i \in 1..k : u[i] = s[i]
    BY <1>1, <2>1, <2>2, ConcatProperties
  <2>4. PICK w : w = SubSeq(u, 1, n)
    OBVIOUS
  <2>5. w \in Seq(S) /\ Len(w) = n /\ \A i \in 1..n : w[i] = u[i]
    <3>1. n \in Nat /\ n <= m /\ \A i \in 1..n : i \in 1..m
      BY <1>1, <2>2
    <3>2. \A i \in 1..n : u[i] \in S
      BY <2>2, <2>3, <3>1, ElementOfSeq
    <3>3. w \in Seq(S) /\ Len(w) = (IF 1 <= n THEN n - 1 + 1 ELSE 0) /\ \A i \in 1..n - 1 + 1 : w[i] = u[1 + i - 1]
      BY <2>4, <3>1, <3>2, SubSeqProperties
    <3> QED BY <3>1, <3>3
  <2>6. ASSUME NEW i \in 1..n PROVE w[i] = a[i]
    <3>1. i \in 1..k
      BY <1>1
    <3>2. w[i] = u[i] /\ u[i] = s[i] /\ a[i] = s[i]
      BY <1>4, <2>3, <2>5, <3>1
    <3> QED BY <3>2
  <2>7. w = a
    BY <1>4, <2>5, <2>6, SeqEqual
  <2>8. n \in 0..m
    BY <1>1, <2>2
  <2> QED BY <1>2, <2>1, <2>2, <2>4, <2>7, <2>8
<1>13. TextTo(s, n) = a /\ TextFrom(s, n) = b
  BY <1>2, <1>3 DEF TextTo, TextFrom
<1>14. TextTo(s, n) \o TextFrom(s, n) = s /\ TextFrom(s, n) \in Seq(S) /\ (TextFrom(s, n) = << >> => n = Len(s))
  BY <1>5, <1>6, <1>9, <1>11, <1>13
<1>15. TextTo(s, Len(s)) = s /\ \A r \in Seq(S) : n \in 0..Len(s \o r) /\ TextTo(s \o r, n) = TextTo(s, n)
  BY <1>10, <1>12 DEF TextTo
<1> QED BY <1>14, <1>15

\* One event more, that announces an item or is inside one.
LEMMA ItemsOpen ==
    ASSUME NEW c, ResponsesBegun(c), NEW v, v.ev \in {"item_added", "part_added", "text", "args"},
           v.ev = "item_added" => v.at = c.next,
           v.ev # "item_added" => v.at \in 0..c.next - 1,
           v.ev = "text" => c.part,
           v.ev \in {"text", "args"} => v.say \in Seq(Piece)
    PROVE  LET o == Plus(c.out, v) IN
           /\ Items(o) /\ NoneClosed(o)
           /\ \A i \in 0..c.next - 1 : Within(o, i, "item_added", "item_done")
           /\ v.ev = "item_added" => Within(o, c.next, "item_added", "item_done")
           /\ Times(o, "item_added") = IF v.ev = "item_added" THEN c.next + 1 ELSE c.next
           /\ Times(o, "part_added") = IF v.ev = "part_added" THEN Times(c.out, "part_added") + 1
                                       ELSE Times(c.out, "part_added")
           /\ c.next \in Nat
<1>0. Items(c.out) /\ IsSeq(c.out) /\ NoneClosed(c.out)
  BY DEF ResponsesBegun, Items
<1>1. PICK o : o = Plus(c.out, v)
  OBVIOUS
<1>2. /\ Times(o, "item_added") = IF v.ev = "item_added" THEN c.next + 1 ELSE c.next
      /\ Times(o, "part_added") = IF v.ev = "part_added" THEN Times(c.out, "part_added") + 1
                                       ELSE Times(c.out, "part_added")
      /\ c.next \in Nat /\ c.next = Times(c.out, "item_added")
  BY <1>0, <1>1, CountsGrow DEF ResponsesBegun, Numbering
<1>3. v.ev # "item_added" => Within(c.out, v.at, "item_added", "item_done")
  BY DEF ResponsesBegun
<1>4. v.ev = "text" => Times(c.out, "part_added") = 1
  BY DEF ResponsesBegun
<1>5. Items(o)
  BY <1>0, <1>1, <1>2, <1>3, <1>4, ItemsGrow DEF InItem
<1>6. NoneClosed(o)
  BY <1>0, <1>1, NoneClosedGrow
<1>7. /\ \A i \in 0..c.next - 1 : Within(o, i, "item_added", "item_done")
      /\ v.ev = "item_added" => Within(o, c.next, "item_added", "item_done")
  BY <1>0, <1>1, InsideGrows DEF ResponsesBegun
<1> QED BY <1>1, <1>2, <1>5, <1>6, <1>7

\* A call's item is announced.
CallAdded(c, d, key, v) ==
    /\ key \notin DOMAIN c.tools /\ v.ev = "item_added" /\ v.at = c.next
    /\ d.out = Plus(c.out, v) /\ d.next = c.next + 1 /\ d.msgOut = c.msgOut /\ d.part = c.part
    /\ DOMAIN d.tools = DOMAIN c.tools \union {key} /\ d.tools[key] = c.next
    /\ \A k \in DOMAIN c.tools : d.tools[k] = c.tools[k]
    /\ DOMAIN d.callArgs = DOMAIN c.callArgs \union {key} /\ d.callArgs[key] = << >>
    /\ \A k \in DOMAIN c.callArgs : k # key => d.callArgs[k] = c.callArgs[k]

LEMMA ResponsesCalls ==
    ASSUME NEW c, NEW d, NEW key, NEW v, ResponsesBegun(c), CallAdded(c, d, key, v)
    PROVE  ResponsesBegun(d) /\ \A at : SaidIn(d.out, "text", at) = SaidIn(c.out, "text", at)
<1> USE DEF CallAdded
<1>0. Items(c.out) /\ Numbering(c) /\ Remembered(c)
  BY DEF ResponsesBegun
<1>1. /\ Items(d.out) /\ NoneClosed(d.out) /\ c.next \in Nat
      /\ \A i \in 0..c.next - 1 : Within(d.out, i, "item_added", "item_done")
      /\ Within(d.out, c.next, "item_added", "item_done")
      /\ Times(d.out, "item_added") = c.next + 1 /\ Times(d.out, "part_added") = Times(c.out, "part_added")
  BY ItemsOpen
<1>2. \A at : /\ SaidIn(d.out, "text", at) = SaidIn(c.out, "text", at)
              /\ SaidIn(d.out, "args", at) = SaidIn(c.out, "args", at)
  BY <1>0, SaidStays
<1>3. \A i : i \in 0..d.next - 1 <=> i \in 0..c.next - 1 \/ i = c.next
  BY <1>1
<1>4. \A k \in DOMAIN c.tools : c.tools[k] \in 0..c.next - 1 /\ c.tools[k] # c.next
  BY <1>0, <1>1 DEF Numbering
<1>5. c.msgOut # c.next
  BY <1>0, <1>1 DEF Numbering, None
<1>6. Numbering(d)
  <2>1. d.next = Times(d.out, "item_added")
    BY <1>1
  <2>2. d.msgOut = None \/ d.msgOut \in 0..d.next - 1
    BY <1>0, <1>3 DEF Numbering
  <2>3. \A k \in DOMAIN d.tools : d.tools[k] \in 0..d.next - 1 /\ d.tools[k] # d.msgOut
    BY <1>0, <1>3, <1>4, <1>5 DEF Numbering
  <2>4. \A k, other \in DOMAIN d.tools : d.tools[k] = d.tools[other] => k = other
    BY <1>0, <1>4 DEF Numbering
  <2>5. \A i \in 0..d.next - 1 : i = d.msgOut \/ \E k \in DOMAIN d.tools : d.tools[k] = i
    BY <1>0, <1>3 DEF Numbering
  <2> QED BY <2>1, <2>2, <2>3, <2>4, <2>5 DEF Numbering
<1>7. SaidIn(c.out, "args", c.next) = << >>
  BY <1>0, <1>4 DEF Remembered
<1>8. Remembered(d)
  <2>1. DOMAIN d.callArgs = DOMAIN d.tools
    BY <1>0 DEF Remembered
  <2>2. ASSUME NEW k \in DOMAIN d.tools PROVE d.callArgs[k] = SaidIn(d.out, "args", d.tools[k])
    <3>1. CASE k = key
      BY <1>2, <1>7, <3>1
    <3>2. CASE k # key
      <4>1. k \in DOMAIN c.tools /\ k \in DOMAIN c.callArgs
        BY <1>0, <3>2 DEF Remembered
      <4> QED BY <1>0, <1>2, <3>2, <4>1 DEF Remembered
    <3> QED BY <3>1, <3>2
  <2>3. \A at : SaidIn(d.out, "text", at) # << >> => at = d.msgOut /\ d.part
    BY <1>0, <1>2 DEF Remembered
  <2>4. \A at : SaidIn(d.out, "args", at) # << >> => \E k \in DOMAIN d.tools : d.tools[k] = at
    BY <1>0, <1>2 DEF Remembered
  <2> QED BY <2>1, <2>2, <2>3, <2>4 DEF Remembered
<1>9. \A i \in 0..d.next - 1 : Within(d.out, i, "item_added", "item_done")
  BY <1>1, <1>3
<1>10. Times(d.out, "part_added") = (IF d.part THEN 1 ELSE 0) /\ (d.part => d.msgOut # None)
  BY <1>1 DEF ResponsesBegun
<1> QED BY <1>1, <1>2, <1>6, <1>8, <1>9, <1>10 DEF ResponsesBegun

\* Arguments of a call.
ArgsAdded(c, d, key, v) ==
    /\ key \in DOMAIN c.tools /\ v.ev = "args" /\ v.at = c.tools[key] /\ v.say \in Seq(Piece)
    /\ d.out = Plus(c.out, v) /\ d.next = c.next /\ d.msgOut = c.msgOut /\ d.part = c.part
    /\ d.tools = c.tools
    /\ DOMAIN d.callArgs = DOMAIN c.callArgs /\ d.callArgs[key] = c.callArgs[key] \o v.say
    /\ \A k \in DOMAIN c.callArgs : k # key => d.callArgs[k] = c.callArgs[k]

LEMMA ResponsesArgs ==
    ASSUME NEW c, NEW d, NEW key, NEW v, ResponsesBegun(c), ArgsAdded(c, d, key, v)
    PROVE  ResponsesBegun(d) /\ \A at : SaidIn(d.out, "text", at) = SaidIn(c.out, "text", at)
<1> USE DEF ArgsAdded
<1>0. Items(c.out) /\ Numbering(c) /\ Remembered(c) /\ v.at \in 0..c.next - 1 /\ IsSeq(c.out)
  BY DEF ResponsesBegun, Numbering, Items
<1>1. /\ Items(d.out) /\ NoneClosed(d.out)
      /\ \A i \in 0..c.next - 1 : Within(d.out, i, "item_added", "item_done")
      /\ Times(d.out, "item_added") = c.next /\ Times(d.out, "part_added") = Times(c.out, "part_added")
  BY <1>0, ItemsOpen
<1>2. \A at : SaidIn(d.out, "text", at) = SaidIn(c.out, "text", at)
  BY <1>0, SaidStays
<1>3. \A at : SaidIn(d.out, "args", at) =
                IF at = v.at THEN SaidIn(c.out, "args", at) \o v.say ELSE SaidIn(c.out, "args", at)
  <2>1. ASSUME NEW at
        PROVE  SaidIn(d.out, "args", at) =
                IF at = v.at THEN SaidIn(c.out, "args", at) \o v.say ELSE SaidIn(c.out, "args", at)
    <3>1. SayPieces(c.out, "args")
      BY <1>0 DEF Items
    <3>2. /\ SaidIn(d.out, "args", at) = SaidIn(c.out, "args", at) \o Share(v, "args", at)
          /\ v.at # at => SaidIn(d.out, "args", at) = SaidIn(c.out, "args", at)
      BY <1>0, <3>1, SaidGrows
    <3>3. v.at = at => Share(v, "args", at) = v.say
      BY DEF Share
    <3> QED BY <3>2, <3>3
  <2> QED BY <2>1
<1>4. Numbering(d)
  BY <1>0, <1>1 DEF Numbering
<1>5. Remembered(d)
  <2>1. DOMAIN d.callArgs = DOMAIN d.tools
    BY <1>0 DEF Remembered
  <2>2. ASSUME NEW k \in DOMAIN d.tools PROVE d.callArgs[k] = SaidIn(d.out, "args", d.tools[k])
    <3>1. CASE k = key
      <4>1. c.callArgs[key] = SaidIn(c.out, "args", v.at)
        BY <1>0 DEF Remembered
      <4>2. SaidIn(d.out, "args", v.at) = SaidIn(c.out, "args", v.at) \o v.say
        BY <1>3
      <4>3. d.tools[k] = v.at /\ d.callArgs[k] = c.callArgs[key] \o v.say
        BY <3>1
      <4> QED BY <4>1, <4>2, <4>3
    <3>2. CASE k # key
      <4>1. k \in DOMAIN c.callArgs /\ c.tools[k] # c.tools[key]
        BY <1>0, <3>2 DEF Remembered, Numbering
      <4> QED BY <1>0, <1>3, <3>2, <4>1 DEF Remembered
    <3> QED BY <3>1, <3>2
  <2>3. \A at : SaidIn(d.out, "text", at) # << >> => at = d.msgOut /\ d.part
    BY <1>0, <1>2 DEF Remembered
  <2>4. \A at : SaidIn(d.out, "args", at) # << >> => \E k \in DOMAIN d.tools : d.tools[k] = at
    BY <1>0, <1>3 DEF Remembered
  <2> QED BY <2>1, <2>2, <2>3, <2>4 DEF Remembered
<1>6. Times(d.out, "part_added") = (IF d.part THEN 1 ELSE 0) /\ (d.part => d.msgOut # None)
  BY <1>1 DEF ResponsesBegun
<1> QED BY <1>1, <1>2, <1>4, <1>5, <1>6 DEF ResponsesBegun

-----------------------------------------------------------------------------
\* d says of its text what c does.
SameSaid(c, d) ==
    /\ d.text = c.text /\ d.emitted = c.emitted /\ d.msgOut = c.msgOut
    /\ \A at : SaidIn(d.out, "text", at) = SaidIn(c.out, "text", at)

LEMMA SpokenStays == \A c, d : Spoken(c) /\ SameSaid(c, d) => Spoken(d)
  BY DEF Spoken, SameSaid

LEMMA ResponsesTools ==
    ASSUME NEW c, ResponsesOpen(c), c.started, NEW e, e.args \in Seq(Piece)
    PROVE  ResponsesOpen(responsesTool(c, e)) /\ responsesTool(c, e).started /\ SameSaid(c, responsesTool(c, e))
<1>0. Written(c) /\ ResponsesBegun(c) /\ c.part \in BOOLEAN /\ Remembered(c) /\ c.started = TRUE
  BY DEF ResponsesOpen, ResponsesBegun
<1>1. CASE e.kind = "start" /\ e.key \notin DOMAIN c.tools
  <2>1. PICK key : key = e.key
    OBVIOUS
  <2>2. PICK a : a = Announce(c, key)
    OBVIOUS
  <2>3. /\ Written(a) /\ a.started = c.started /\ a.out = c.out /\ a.next = c.next + 1
        /\ DOMAIN a.tools = DOMAIN c.tools \union {key} /\ a.tools[key] = c.next
        /\ \A k \in DOMAIN c.tools : k # key => a.tools[k] = c.tools[k]
    <3>1. Written(c)
      BY <1>0
    <3>2. Written(a) /\ a.started = c.started /\ a.out = c.out /\ a.next = c.next + 1
      BY <2>2, <3>1, Announced
    <3>3. /\ DOMAIN a.tools = DOMAIN c.tools \union {key} /\ a.tools[key] = c.next
          /\ \A k \in DOMAIN c.tools : k # key => a.tools[k] = c.tools[k]
      BY <2>2, <3>1, Announced
    <3> QED BY <3>2, <3>3
  <2>4. a.text = c.text /\ a.emitted = c.emitted /\ a.msgOut = c.msgOut /\ a.part = c.part
    BY <1>0, <2>2 DEF Announce, Written
  <2>5. PICK w : w = With(c.callArgs, key, << >>)
    OBVIOUS
  <2>6. /\ DOMAIN w = DOMAIN c.callArgs \union {key} /\ w[key] = << >>
        /\ \A k \in DOMAIN c.callArgs : k # key => w[k] = c.callArgs[k]
    BY <2>5 DEF With
  <2>7. PICK b : b = [a EXCEPT !.callArgs = w]
    OBVIOUS
  <2>8. /\ Written(b) /\ b.callArgs = w /\ b.started = a.started /\ b.out = a.out /\ b.next = a.next
        /\ b.tools = a.tools /\ b.text = a.text /\ b.emitted = a.emitted /\ b.msgOut = a.msgOut /\ b.part = a.part
    BY <2>3, <2>7 DEF Written
  <2>9. PICK d : d = EmitNumbered(b, <<Event("item_added", c.next, "call")>>)
    OBVIOUS
  <2>10. PICK v : v.ev = "item_added" /\ v.at = c.next /\ d.out = Plus(b.out, v) /\ Written(d) /\ Rest(b, d)
    BY <2>8, <2>9, NumberedOne
  <2>11. responsesTool(c, e) = d
    BY <1>1, <2>1, <2>2, <2>5, <2>7, <2>9 DEF responsesTool
  <2>12. /\ d.out = Plus(c.out, v) /\ d.next = c.next + 1 /\ d.msgOut = c.msgOut /\ d.part = c.part
         /\ d.tools = a.tools /\ d.callArgs = w /\ d.text = c.text /\ d.emitted = c.emitted
         /\ d.started = c.started
    BY <2>3, <2>4, <2>8, <2>10 DEF Rest
  <2>13. key \notin DOMAIN c.tools /\ \A k \in DOMAIN c.tools : d.tools[k] = c.tools[k]
    BY <1>1, <2>1, <2>3, <2>12
  <2>14. DOMAIN d.tools = DOMAIN c.tools \union {key} /\ d.tools[key] = c.next
    BY <2>3, <2>12
  <2>15. /\ DOMAIN d.callArgs = DOMAIN c.callArgs \union {key} /\ d.callArgs[key] = << >>
         /\ \A k \in DOMAIN c.callArgs : k # key => d.callArgs[k] = c.callArgs[k]
    BY <2>6, <2>12
  <2>16. ResponsesBegun(d) /\ \A at : SaidIn(d.out, "text", at) = SaidIn(c.out, "text", at)
    <3>1. CallAdded(c, d, key, v)
      BY <2>10, <2>12, <2>13, <2>14, <2>15 DEF CallAdded
    <3> QED BY <1>0, <3>1, ResponsesCalls
  <2>17. ResponsesOpen(d) /\ d.started /\ SameSaid(c, d)
    BY <1>0, <2>10, <2>12, <2>16 DEF ResponsesOpen, SameSaid
  <2> QED BY <2>11, <2>17
<1>2. CASE e.kind # "start" /\ e.key \in DOMAIN c.tools
  <2>1. PICK key : key = e.key /\ key \in DOMAIN c.tools /\ key \in DOMAIN c.callArgs
    BY <1>0, <1>2 DEF Remembered
  <2>2. PICK b : b = [c EXCEPT !.callArgs[key] = @ \o e.args]
    OBVIOUS
  <2>3. /\ Written(b) /\ b.started = c.started /\ b.out = c.out /\ b.next = c.next
        /\ b.tools = c.tools /\ b.text = c.text /\ b.emitted = c.emitted /\ b.msgOut = c.msgOut /\ b.part = c.part
    BY <1>0, <2>2 DEF Written
  <2>4. b.callArgs = [c.callArgs EXCEPT ![key] = @ \o e.args]
    BY <1>0, <2>2 DEF Written
  <2>5. /\ DOMAIN b.callArgs = DOMAIN c.callArgs /\ b.callArgs[key] = c.callArgs[key] \o e.args
        /\ \A k \in DOMAIN c.callArgs : k # key => b.callArgs[k] = c.callArgs[k]
    BY <2>1, <2>4
  <2>6. PICK d : d = EmitNumbered(b, <<Event("args", c.tools[key], e.args)>>)
    OBVIOUS
  <2>7. PICK v : v.ev = "args" /\ v.at = c.tools[key] /\ v.say = e.args /\ d.out = Plus(b.out, v) /\ Written(d) /\ Rest(b, d)
    BY <2>3, <2>6, NumberedOne
  <2>8. responsesTool(c, e) = d
    BY <1>2, <2>1, <2>2, <2>6 DEF responsesTool
  <2>9. /\ d.out = Plus(c.out, v) /\ d.next = c.next /\ d.msgOut = c.msgOut /\ d.part = c.part
        /\ d.tools = c.tools /\ d.callArgs = b.callArgs /\ d.text = c.text /\ d.emitted = c.emitted
        /\ d.started = c.started
    BY <2>3, <2>7 DEF Rest
  <2>10. /\ DOMAIN d.callArgs = DOMAIN c.callArgs /\ d.callArgs[key] = c.callArgs[key] \o v.say
         /\ \A k \in DOMAIN c.callArgs : k # key => d.callArgs[k] = c.callArgs[k]
    BY <2>5, <2>7, <2>9
  <2>11. ResponsesBegun(d) /\ \A at : SaidIn(d.out, "text", at) = SaidIn(c.out, "text", at)
    <3>1. ArgsAdded(c, d, key, v)
      BY <2>1, <2>7, <2>9, <2>10 DEF ArgsAdded
    <3> QED BY <1>0, <3>1, ResponsesArgs
  <2>12. ResponsesOpen(d) /\ d.started /\ SameSaid(c, d)
    BY <1>0, <2>7, <2>9, <2>11 DEF ResponsesOpen, SameSaid
  <2> QED BY <2>8, <2>12
<1>3. CASE (e.kind = "start") = (e.key \in DOMAIN c.tools)
  BY <1>3 DEF responsesTool, SameSaid
<1> QED BY <1>1, <1>2, <1>3

\* The message item is announced.
LEMMA ResponsesMessage ==
    ASSUME NEW c, ResponsesOpen(c), c.started
    PROVE  LET d == ensureMsg(c) IN
           /\ ResponsesOpen(d) /\ d.started /\ d.msgOut # None /\ d.text = c.text /\ d.emitted = c.emitted
           /\ SaidIn(d.out, "text", d.msgOut) = SaidIn(c.out, "text", c.msgOut)
<1>0. Written(c) /\ ResponsesBegun(c) /\ c.part \in BOOLEAN /\ c.started = TRUE
  BY DEF ResponsesOpen
<1>1. CASE c.msgOut # None
  BY <1>1 DEF ensureMsg
<1>2. CASE c.msgOut = None
  <2>0. Items(c.out) /\ Numbering(c) /\ Remembered(c) /\ ~c.part
    BY <1>2 DEF ResponsesOpen, ResponsesBegun
  <2>1. PICK b : b = [c EXCEPT !.msgOut = c.next, !.next = @ + 1]
    OBVIOUS
  <2>2. /\ Written(b) /\ b.started = c.started /\ b.out = c.out /\ b.next = c.next + 1 /\ b.msgOut = c.next
        /\ b.tools = c.tools /\ b.text = c.text /\ b.emitted = c.emitted /\ b.part = c.part /\ b.callArgs = c.callArgs
    BY <1>0, <2>1 DEF Written
  <2>3. PICK d : d = EmitNumbered(b, <<Event("item_added", c.next, "message")>>)
    OBVIOUS
  <2>4. PICK v : v.ev = "item_added" /\ v.at = c.next /\ d.out = Plus(b.out, v) /\ Written(d) /\ Rest(b, d)
    BY <2>2, <2>3, NumberedOne
  <2>5. ensureMsg(c) = d
    BY <1>2, <2>1, <2>3 DEF ensureMsg
  <2>6. /\ d.out = Plus(c.out, v) /\ d.next = c.next + 1 /\ d.msgOut = c.next /\ d.part = c.part
        /\ d.tools = c.tools /\ d.callArgs = c.callArgs /\ d.text = c.text /\ d.emitted = c.emitted
        /\ d.started = c.started
    BY <2>2, <2>4 DEF Rest
  <2>7. /\ Items(d.out) /\ NoneClosed(d.out) /\ c.next \in Nat
        /\ \A i \in 0..c.next - 1 : Within(d.out, i, "item_added", "item_done")
        /\ Within(d.out, c.next, "item_added", "item_done")
        /\ Times(d.out, "item_added") = c.next + 1 /\ Times(d.out, "part_added") = Times(c.out, "part_added")
    BY <1>0, <2>4, <2>6, ItemsOpen
  <2>8. \A at : /\ SaidIn(d.out, "text", at) = SaidIn(c.out, "text", at)
                /\ SaidIn(d.out, "args", at) = SaidIn(c.out, "args", at)
    BY <2>0, <2>4, <2>6, SaidStays
  <2>9. \A i : i \in 0..d.next - 1 <=> i \in 0..c.next - 1 \/ i = c.next
    BY <2>6, <2>7
  <2>10. \A k \in DOMAIN c.tools : c.tools[k] \in 0..c.next - 1 /\ c.tools[k] # c.next
    BY <2>0, <2>7 DEF Numbering
  <2>11. Numbering(d)
    <3>1. d.next = Times(d.out, "item_added")
      BY <2>6, <2>7
    <3>2. d.msgOut \in 0..d.next - 1
      BY <2>6, <2>9
    <3>3. \A k \in DOMAIN d.tools : d.tools[k] \in 0..d.next - 1 /\ d.tools[k] # d.msgOut
      BY <2>6, <2>9, <2>10
    <3>4. \A k, other \in DOMAIN d.tools : d.tools[k] = d.tools[other] => k = other
      BY <2>0, <2>6 DEF Numbering
    <3>5. \A i \in 0..d.next - 1 : i = d.msgOut \/ \E k \in DOMAIN d.tools : d.tools[k] = i
      <4>1. \A i \in 0..c.next - 1 : i # None
        BY <2>7 DEF None
      <4> QED BY <1>2, <2>0, <2>6, <2>9, <4>1 DEF Numbering
    <3> QED BY <3>1, <3>2, <3>3, <3>4, <3>5 DEF Numbering
  <2>12. \A at : SaidIn(c.out, "text", at) = << >>
    BY <2>0 DEF Remembered
  <2>13. Remembered(d)
    BY <2>0, <2>6, <2>8, <2>12 DEF Remembered
  <2>14. \A i \in 0..d.next - 1 : Within(d.out, i, "item_added", "item_done")
    BY <2>7, <2>9
  <2>15. Times(d.out, "part_added") = (IF d.part THEN 1 ELSE 0) /\ (d.part => d.msgOut # None)
    BY <1>0, <2>0, <2>6, <2>7 DEF ResponsesBegun
  <2>16. ResponsesBegun(d)
    BY <2>7, <2>11, <2>13, <2>14, <2>15 DEF ResponsesBegun
  <2>17. d.msgOut # None
    BY <2>6, <2>7 DEF None
  <2>18. SaidIn(d.out, "text", d.msgOut) = SaidIn(c.out, "text", c.msgOut)
    BY <2>8, <2>12
  <2>19. ResponsesOpen(d)
    BY <1>0, <2>4, <2>6, <2>16 DEF ResponsesOpen
  <2> QED BY <1>0, <2>5, <2>6, <2>17, <2>18, <2>19
<1> QED BY <1>1, <1>2

\* The part that holds the text is announced.
LEMMA ResponsesPart ==
    ASSUME NEW c, ResponsesOpen(c), c.started, c.msgOut # None
    PROVE  LET d == ensurePart(c) IN
           ResponsesOpen(d) /\ d.started /\ d.part /\ SameSaid(c, d)
<1>0. Written(c) /\ ResponsesBegun(c) /\ c.part \in BOOLEAN /\ c.started = TRUE
  BY DEF ResponsesOpen
<1>1. CASE c.part
  BY <1>1 DEF ensurePart, SameSaid
<1>2. CASE ~c.part
  <2>0. Items(c.out) /\ Numbering(c) /\ Remembered(c) /\ c.msgOut \in 0..c.next - 1
    BY <1>0 DEF ResponsesBegun, Numbering
  <2>1. PICK b : b = [c EXCEPT !.part = TRUE]
    OBVIOUS
  <2>2. /\ Written(b) /\ b.started = c.started /\ b.out = c.out /\ b.next = c.next /\ b.msgOut = c.msgOut
        /\ b.tools = c.tools /\ b.text = c.text /\ b.emitted = c.emitted /\ b.part = TRUE /\ b.callArgs = c.callArgs
    BY <1>0, <2>1 DEF Written
  <2>3. PICK d : d = EmitNumbered(b, <<Event("part_added", c.msgOut, << >>)>>)
    OBVIOUS
  <2>4. PICK v : v.ev = "part_added" /\ v.at = c.msgOut /\ d.out = Plus(b.out, v) /\ Written(d) /\ Rest(b, d)
    BY <2>2, <2>3, NumberedOne
  <2>5. ensurePart(c) = d
    BY <1>2, <2>1, <2>3 DEF ensurePart
  <2>6. /\ d.out = Plus(c.out, v) /\ d.next = c.next /\ d.msgOut = c.msgOut /\ d.part = TRUE
        /\ d.tools = c.tools /\ d.callArgs = c.callArgs /\ d.text = c.text /\ d.emitted = c.emitted
        /\ d.started = c.started
    BY <2>2, <2>4 DEF Rest
  <2>7. /\ Items(d.out) /\ NoneClosed(d.out)
        /\ \A i \in 0..c.next - 1 : Within(d.out, i, "item_added", "item_done")
        /\ Times(d.out, "item_added") = c.next /\ Times(d.out, "part_added") = Times(c.out, "part_added") + 1
    BY <1>0, <2>0, <2>4, <2>6, ItemsOpen
  <2>8. \A at : /\ SaidIn(d.out, "text", at) = SaidIn(c.out, "text", at)
                /\ SaidIn(d.out, "args", at) = SaidIn(c.out, "args", at)
    BY <2>0, <2>4, <2>6, SaidStays
  <2>9. Numbering(d)
    BY <2>0, <2>6, <2>7 DEF Numbering
  <2>10. Remembered(d)
    BY <2>0, <2>6, <2>8 DEF Remembered
  <2>11. Times(d.out, "part_added") = (IF d.part THEN 1 ELSE 0) /\ (d.part => d.msgOut # None)
    BY <1>0, <1>2, <2>6, <2>7 DEF ResponsesBegun
  <2>12. ResponsesBegun(d)
    BY <2>6, <2>7, <2>9, <2>10, <2>11 DEF ResponsesBegun
  <2>13. ResponsesOpen(d) /\ SameSaid(c, d)
    BY <1>0, <2>4, <2>6, <2>8, <2>12 DEF ResponsesOpen, SameSaid
  <2> QED BY <1>0, <2>5, <2>6, <2>13
<1> QED BY <1>1, <1>2

\* What is new of the text is said, all of it.
LEMMA ResponsesTexts ==
    ASSUME NEW c, ResponsesOpen(c), c.started, Spoken(c)
    PROVE  LET d == responsesText(c) IN
           ResponsesOpen(d) /\ d.started /\ Spoken(d) /\ d.emitted = Len(d.text)
<1>0. /\ c.text \in Seq(Piece) /\ c.emitted \in 0..Len(c.text) /\ Suffix(c) \in Seq(Piece)
      /\ SaidIn(c.out, "text", c.msgOut) \o Suffix(c) = c.text
      /\ TextTo(c.text, Len(c.text)) = c.text /\ Len(c.text) \in 0..Len(c.text)
      /\ Suffix(c) = << >> => c.emitted = Len(c.text)
  <2>1. c.text \in Seq(Piece) /\ c.emitted \in 0..Len(c.text) /\ Len(c.text) \in Nat
    BY LenProperties DEF Spoken
  <2>2. PICK s, n : s \in Seq(Piece) /\ n \in 0..Len(s) /\ s = c.text /\ n = c.emitted
    BY <2>1
  <2>3. /\ TextTo(s, n) \o TextFrom(s, n) = s /\ TextTo(s, Len(s)) = s
        /\ TextFrom(s, n) \in Seq(Piece)
        /\ TextFrom(s, n) = << >> => n = Len(s)
    BY <2>2, TextParts
  <2>4. Suffix(c) = TextFrom(s, n) /\ SaidIn(c.out, "text", c.msgOut) = TextTo(s, n)
    BY <2>2 DEF Suffix, Spoken, TextFrom
  <2>5. Len(c.text) \in 0..Len(c.text)
    BY <2>1
  <2> QED BY <2>1, <2>2, <2>3, <2>4, <2>5
<1>1. CASE Suffix(c) = << >>
  BY <1>0, <1>1 DEF responsesText
<1>2. CASE Suffix(c) # << >>
  <2>1. PICK m : m = ensureMsg(c)
    OBVIOUS
  <2>2. /\ ResponsesOpen(m) /\ m.started /\ m.msgOut # None /\ m.text = c.text /\ m.emitted = c.emitted
        /\ SaidIn(m.out, "text", m.msgOut) = SaidIn(c.out, "text", c.msgOut)
    BY <2>1, ResponsesMessage
  <2>3. PICK t : t = ensurePart(m)
    OBVIOUS
  <2>4. ResponsesOpen(t) /\ t.started /\ t.part /\ SameSaid(m, t)
    BY <2>2, <2>3, ResponsesPart
  <2>5. /\ t.text = c.text /\ t.emitted = c.emitted /\ t.msgOut # None
        /\ SaidIn(t.out, "text", t.msgOut) = SaidIn(c.out, "text", c.msgOut)
    BY <2>2, <2>4 DEF SameSaid
  <2>6. Suffix(t) = Suffix(c)
    BY <2>5 DEF Suffix
  <2>7. PICK b : b = EmitNumbered(t, <<Event("text", t.msgOut, Suffix(t))>>)
    OBVIOUS
  <2>8. Written(t) /\ ResponsesBegun(t) /\ t.started = TRUE
    BY <2>4 DEF ResponsesOpen
  <2>9. PICK v : v.ev = "text" /\ v.at = t.msgOut /\ v.say = Suffix(t) /\ b.out = Plus(t.out, v) /\ Written(b) /\ Rest(t, b)
    BY <2>7, <2>8, NumberedOne
  <2>10. PICK d : d = Taken(b)
    OBVIOUS
  <2>11. responsesText(c) = d
    BY <1>2, <2>1, <2>3, <2>7, <2>10 DEF responsesText
  <2>12. /\ Written(d) /\ d.out = b.out /\ d.next = b.next /\ d.msgOut = b.msgOut /\ d.part = b.part
         /\ d.tools = b.tools /\ d.callArgs = b.callArgs /\ d.text = b.text /\ d.emitted = Len(b.text)
         /\ d.started = b.started
    BY <2>9, <2>10 DEF Taken, Written
  <2>13. /\ d.out = Plus(t.out, v) /\ d.next = t.next /\ d.msgOut = t.msgOut /\ d.part = TRUE
         /\ d.tools = t.tools /\ d.callArgs = t.callArgs /\ d.text = c.text /\ d.emitted = Len(c.text)
         /\ d.started = TRUE
    BY <2>4, <2>5, <2>8, <2>9, <2>12 DEF Rest, ResponsesOpen
  <2>14. Items(t.out) /\ Numbering(t) /\ Remembered(t) /\ t.msgOut \in 0..t.next - 1 /\ IsSeq(t.out)
         /\ SayPieces(t.out, "text")
    BY <2>5, <2>8 DEF ResponsesBegun, Numbering, Items
  <2>15. v.say \in Seq(Piece)
    BY <1>0, <2>6, <2>9
  <2>16. /\ Items(d.out) /\ NoneClosed(d.out)
         /\ \A i \in 0..t.next - 1 : Within(d.out, i, "item_added", "item_done")
         /\ Times(d.out, "item_added") = t.next /\ Times(d.out, "part_added") = Times(t.out, "part_added")
    BY <2>4, <2>8, <2>9, <2>13, <2>14, <2>15, ItemsOpen
  <2>17. \A at : SaidIn(d.out, "args", at) = SaidIn(t.out, "args", at)
    BY <2>9, <2>13, <2>14, SaidStays
  <2>18. \A at : at # t.msgOut => SaidIn(d.out, "text", at) = SaidIn(t.out, "text", at)
    BY <2>9, <2>13, <2>14, <2>15, SaidGrows
  <2>19. SaidIn(d.out, "text", t.msgOut) = c.text
    <3>1. SaidIn(d.out, "text", t.msgOut) = SaidIn(t.out, "text", t.msgOut) \o Share(v, "text", t.msgOut)
      <4>1. PICK at, o : at = t.msgOut /\ o = t.out
        OBVIOUS
      <4>2. IsSeq(o) /\ SayPieces(o, "text") /\ v.ev = "text" /\ v.say \in Seq(Piece) /\ d.out = Plus(o, v)
        BY <2>9, <2>13, <2>14, <2>15, <4>1
      <4>3. SaidIn(Plus(o, v), "text", at) = SaidIn(o, "text", at) \o Share(v, "text", at)
        BY <4>2, SaidGrows
      <4> QED BY <4>1, <4>2, <4>3
    <3>2. Share(v, "text", t.msgOut) = Suffix(c)
      BY <2>6, <2>9 DEF Share
    <3> QED BY <1>0, <2>5, <3>1, <3>2
  <2>20. Numbering(d)
    BY <2>13, <2>14, <2>16 DEF Numbering
  <2>21. Remembered(d)
    BY <2>4, <2>13, <2>14, <2>17, <2>18 DEF Remembered
  <2>22. Times(d.out, "part_added") = (IF d.part THEN 1 ELSE 0) /\ (d.part => d.msgOut # None)
    BY <2>4, <2>5, <2>8, <2>13, <2>16 DEF ResponsesBegun
  <2>23. ResponsesBegun(d)
    BY <2>13, <2>16, <2>20, <2>21, <2>22 DEF ResponsesBegun
  <2>24. ResponsesOpen(d) /\ Spoken(d)
    BY <1>0, <2>12, <2>13, <2>19, <2>23 DEF ResponsesOpen, Spoken
  <2> QED BY <2>11, <2>13, <2>24
<1> QED BY <1>1, <1>2

-----------------------------------------------------------------------------
\* What was said in parts is repeated whole.
Repeated(out) ==
    \A i \in DOMAIN out :
        /\ out[i].ev = "text_done" => out[i].say = SaidIn(out, "text", out[i].at)
        /\ out[i].ev = "args_done" => out[i].say = SaidIn(out, "args", out[i].at)

\* The first n items have been closed.
Closing(c, out, n) ==
    /\ Items(out) /\ Repeated(out)
    /\ Times(out, "item_added") = c.next /\ Times(out, "item_done") = n /\ Times(out, "finish") = 0
    /\ \A i \in n..c.next - 1 : Within(out, i, "item_added", "item_done")
    /\ \A at : /\ SaidIn(out, "text", at) = SaidIn(c.out, "text", at)
               /\ SaidIn(out, "args", at) = SaidIn(c.out, "args", at)

LEMMA RepeatedGrow ==
    ASSUME NEW out, Items(out), Repeated(out), NEW v, v.ev \notin {"text", "args"},
           v.ev = "text_done" => v.say = SaidIn(out, "text", v.at),
           v.ev = "args_done" => v.say = SaidIn(out, "args", v.at)
    PROVE  /\ Repeated(Plus(out, v))
           /\ \A at : /\ SaidIn(Plus(out, v), "text", at) = SaidIn(out, "text", at)
                      /\ SaidIn(Plus(out, v), "args", at) = SaidIn(out, "args", at)
<1>1. PICK o : o = Plus(out, v)
  OBVIOUS
<1>2. PICK n \in Nat : n = Len(out) /\ DOMAIN out = 1..n /\ DOMAIN o = 1..n + 1
  BY <1>1, Appended DEF Items
<1>3. (\A i \in 1..n : o[i] = out[i]) /\ o[n + 1] = v
  BY <1>1, <1>2, Appended DEF Items
<1>4. \A at : /\ SaidIn(o, "text", at) = SaidIn(out, "text", at)
              /\ SaidIn(o, "args", at) = SaidIn(out, "args", at)
  BY <1>1, SaidStays
<1>5. ASSUME NEW i \in DOMAIN o
      PROVE  /\ o[i].ev = "text_done" => o[i].say = SaidIn(o, "text", o[i].at)
             /\ o[i].ev = "args_done" => o[i].say = SaidIn(o, "args", o[i].at)
  <2>1. CASE i = n + 1
    BY <1>3, <1>4, <2>1
  <2>2. CASE i # n + 1
    <3>1. i \in DOMAIN out /\ o[i] = out[i]
      BY <1>2, <1>3, <2>2
    <3> QED BY <1>4, <3>1 DEF Repeated
  <2> QED BY <2>1, <2>2
<1> QED BY <1>1, <1>4, <1>5 DEF Repeated

\* What is said whole of the item that is closed next.
LEMMA ClosingSays ==
    ASSUME NEW c, NEW out, NEW n, n \in Nat, c.next \in Nat, n < c.next, Closing(c, out, n),
           NEW v, v.ev \in {"text_done", "part_done", "args_done"}, v.at = n,
           v.ev = "text_done" => v.say = SaidIn(c.out, "text", n),
           v.ev = "args_done" => v.say = SaidIn(c.out, "args", n)
    PROVE  Closing(c, Plus(out, v), n)
<1>0. Items(out) /\ Repeated(out) /\ IsSeq(out)
  BY DEF Closing, Items
<1>1. PICK o : o = Plus(out, v)
  OBVIOUS
<1>2. Within(out, n, "item_added", "item_done")
  BY DEF Closing
<1>3. Items(o)
  BY <1>0, <1>1, <1>2, ItemsGrow DEF InItem
<1>4. /\ Repeated(o)
      /\ \A at : /\ SaidIn(o, "text", at) = SaidIn(out, "text", at)
                 /\ SaidIn(o, "args", at) = SaidIn(out, "args", at)
  <2>1. /\ v.ev = "text_done" => v.say = SaidIn(out, "text", v.at)
        /\ v.ev = "args_done" => v.say = SaidIn(out, "args", v.at)
    BY DEF Closing
  <2> QED BY <1>0, <1>1, <2>1, RepeatedGrow
<1>5. \A ev \in {"item_added", "item_done", "finish"} : Times(o, ev) = Times(out, ev)
  BY <1>0, <1>1, CountsGrow
<1>6. \A i : Within(out, i, "item_added", "item_done") => Within(o, i, "item_added", "item_done")
  BY <1>0, <1>1, InsideGrows
<1> QED BY <1>1, <1>3, <1>4, <1>5, <1>6 DEF Closing

LEMMA ClosingCloses ==
    ASSUME NEW c, NEW out, NEW n, n \in Nat, c.next \in Nat, n < c.next, Closing(c, out, n),
           NEW v, v.ev = "item_done", v.at = n
    PROVE  Closing(c, Plus(out, v), n + 1)
<1>0. Items(out) /\ Repeated(out) /\ IsSeq(out)
  BY DEF Closing, Items
<1>1. PICK o : o = Plus(out, v)
  OBVIOUS
<1>2. Within(out, n, "item_added", "item_done") /\ Times(out, "item_done") = n
  BY DEF Closing
<1>3. Items(o)
  BY <1>0, <1>1, <1>2, ItemsGrow DEF InItem
<1>4. /\ Repeated(o)
      /\ \A at : /\ SaidIn(o, "text", at) = SaidIn(out, "text", at)
                 /\ SaidIn(o, "args", at) = SaidIn(out, "args", at)
  BY <1>0, <1>1, RepeatedGrow
<1>5. /\ \A ev \in {"item_added", "finish"} : Times(o, ev) = Times(out, ev)
      /\ Times(o, "item_done") = n + 1
  BY <1>0, <1>1, <1>2, CountsGrow
<1>6. \A i \in n + 1..c.next - 1 : Within(o, i, "item_added", "item_done")
  <2>1. ASSUME NEW i \in n + 1..c.next - 1 PROVE Within(o, i, "item_added", "item_done")
    <3>1. i \in n..c.next - 1 /\ i # n
      OBVIOUS
    <3>2. Within(out, i, "item_added", "item_done")
      BY <3>1 DEF Closing
    <3> QED BY <1>0, <1>1, <3>1, <3>2, InsideGrows
  <2> QED BY <2>1
<1> QED BY <1>1, <1>3, <1>4, <1>5, <1>6 DEF Closing

-----------------------------------------------------------------------------
\* A pair and one more are three in a row.
LEMMA JoinedThree == \A e, f, g : <<e, f>> \o <<g>> = <<e, f, g>>
<1>1. ASSUME NEW e, NEW f, NEW g PROVE <<e, f>> \o <<g>> = <<e, f, g>>
  <2>1. PICK T : T = {e, f, g}
    OBVIOUS
  <2>2. <<e, f>> \in Seq(T) /\ <<g>> \in Seq(T) /\ <<e, f, g>> \in Seq(T)
    BY <2>1
  <2>3. PICK x, y : x = <<e, f>> \o <<g>> /\ y = <<e, f, g>>
    OBVIOUS
  <2>4. x \in Seq(T) /\ y \in Seq(T) /\ Len(x) = 3 /\ Len(y) = 3 /\ \A i \in 1..3 : x[i] = y[i]
    BY <2>2, <2>3, ConcatProperties
  <2>5. x = y
    BY <2>4, SeqEqual
  <2> QED BY <2>3, <2>5
<1> QED BY <1>1

\* The events that close an item.
Closers(c, i, q) ==
    \E w : /\ w.ev = "item_done" /\ w.at = i
           /\ \/ q = <<w>>
              \/ \E v : /\ v.ev = "args_done" /\ v.at = i /\ v.say = SaidIn(c.out, "args", i)
                        /\ q = <<v, w>>
              \/ \E v, u : /\ v.ev = "text_done" /\ v.at = i /\ v.say = SaidIn(c.out, "text", i)
                           /\ u.ev = "part_done" /\ u.at = i /\ q = <<v, u, w>>

LEMMA ClosersOf ==
    ASSUME NEW c, ResponsesBegun(c), Spoken(c), c.emitted = Len(c.text), c.part \in BOOLEAN,
           NEW i \in 0..c.next - 1
    PROVE  Closers(c, i, itemCloser(c, i))
<1>0. Numbering(c) /\ Remembered(c)
  BY DEF ResponsesBegun
<1>1. CASE i = c.msgOut
  <2>1. i # None
    BY <1>0 DEF None, Numbering
  <2>2. PICK w : w = Event("item_done", i, IF upstreamFinish(c) = "length" THEN "incomplete" ELSE "completed")
    OBVIOUS
  <2>3. w.ev = "item_done" /\ w.at = i
    BY <2>2 DEF Event
  <2>4. CASE ~c.part
    <3>1. messageCloser(c) = <<w>>
      <4>1. messageCloser(c) = << >> \o <<w>>
        BY <1>1, <2>1, <2>2, <2>4 DEF messageCloser
      <4> QED BY <4>1, Joined
    <3>2. PICK z : z = [w EXCEPT !.seq = c.seq + 1 - 1]
      OBVIOUS
    <3>3. z.ev = "item_done" /\ z.at = i
      BY <2>2, <3>2 DEF Event
    <3>4. itemCloser(c, i) = <<z>>
      <4>1. PICK q : q = <<w>> /\ DOMAIN q = {1}
        <5>1. DOMAIN <<w>> = {1}
          OBVIOUS
        <5> QED BY <5>1
      <4>2. Numbered(c, q) = <<z>>
        BY <3>2, <4>1 DEF Numbered
      <4> QED BY <1>1, <3>1, <4>1, <4>2 DEF itemCloser
    <3> QED BY <3>3, <3>4 DEF Closers
  <2>5. CASE c.part
    <3>0. PICK v, u : v = Event("text_done", i, c.text) /\ u = Event("part_done", i, c.text)
      OBVIOUS
    <3>1. messageCloser(c) = <<v, u, w>>
      <4>1. messageCloser(c) = <<v, u>> \o <<w>>
        BY <1>1, <2>1, <2>2, <2>5, <3>0 DEF messageCloser
      <4> QED BY <4>1, JoinedThree
    <3>2. PICK x, y, z : /\ x = [v EXCEPT !.seq = c.seq + 1 - 1] /\ y = [u EXCEPT !.seq = c.seq + 2 - 1]
                         /\ z = [w EXCEPT !.seq = c.seq + 3 - 1]
      OBVIOUS
    <3>3. /\ z.ev = "item_done" /\ z.at = i /\ y.ev = "part_done" /\ y.at = i
          /\ x.ev = "text_done" /\ x.at = i /\ x.say = c.text
      BY <2>2, <3>0, <3>2 DEF Event
    <3>4. itemCloser(c, i) = <<x, y, z>>
      <4>1. PICK q : q = <<v, u, w>> /\ DOMAIN q = {1, 2, 3}
        <5>1. DOMAIN <<v, u, w>> = {1, 2, 3}
          OBVIOUS
        <5> QED BY <5>1
      <4>2. Numbered(c, q) = <<x, y, z>>
        BY <3>2, <4>1 DEF Numbered
      <4> QED BY <1>1, <3>1, <4>1, <4>2 DEF itemCloser
    <3>5. c.text = SaidIn(c.out, "text", i)
      BY <1>1, TextParts DEF Spoken
    <3>6. x.say = SaidIn(c.out, "text", i)
      BY <3>3, <3>5
    <3> QED BY <3>3, <3>4, <3>6 DEF Closers
  <2> QED BY <2>4, <2>5
<1>2. CASE i # c.msgOut
  <2>1. PICK key : key = CHOOSE k \in DOMAIN c.tools : c.tools[k] = i
    OBVIOUS
  <2>2. key \in DOMAIN c.tools /\ c.tools[key] = i
    BY <1>0, <1>2, <2>1 DEF Numbering
  <2>3. itemCloser(c, i) = callCloser(c, key)
    BY <1>2, <2>1 DEF itemCloser
  <2>4. PICK e, f : e = Event("args_done", i, c.callArgs[key]) /\ f = Event("item_done", i, "completed")
    OBVIOUS
  <2>5. PICK d : callCloser(c, key) = Numbered(d, <<e, f>>)
    <3>1. \E d : callCloser(c, key) = Numbered(d, <<Event("args_done", c.tools[key], c.callArgs[key]),
                                                    Event("item_done", c.tools[key], "completed")>>)
      BY DEF callCloser
    <3> QED BY <2>2, <2>4, <3>1
  <2>6. PICK v, w : /\ v = [e EXCEPT !.seq = d.seq + 1 - 1] /\ w = [f EXCEPT !.seq = d.seq + 2 - 1]
                    /\ Numbered(d, <<e, f>>) = <<v, w>>
    <3>1. \E v, w : /\ v = [e EXCEPT !.seq = d.seq + 1 - 1] /\ w = [f EXCEPT !.seq = d.seq + 2 - 1]
                    /\ Numbered(d, <<e, f>>) = <<v, w>>
      BY NumberedTwo
    <3> QED BY <3>1
  <2>7. /\ v.ev = "args_done" /\ v.at = i /\ v.say = c.callArgs[key]
        /\ w.ev = "item_done" /\ w.at = i
    BY <2>4, <2>6 DEF Event
  <2>8. v.say = SaidIn(c.out, "args", i)
    BY <1>0, <2>2, <2>7 DEF Remembered
  <2> QED BY <2>3, <2>5, <2>6, <2>7, <2>8 DEF Closers
<1> QED BY <1>1, <1>2

\* An item more is closed.
LEMMA ClosingItem ==
    ASSUME NEW c, NEW out, NEW n, n \in Nat, c.next \in Nat, n < c.next, Closing(c, out, n),
           NEW q, Closers(c, n, q)
    PROVE  Closing(c, out \o q, n + 1)
<1>0. IsSeq(out)
  BY DEF Closing, Items
<1>1. PICK w : /\ w.ev = "item_done" /\ w.at = n
               /\ \/ q = <<w>>
                  \/ \E v : /\ v.ev = "args_done" /\ v.at = n /\ v.say = SaidIn(c.out, "args", n)
                            /\ q = <<v, w>>
                  \/ \E v, u : /\ v.ev = "text_done" /\ v.at = n /\ v.say = SaidIn(c.out, "text", n)
                               /\ u.ev = "part_done" /\ u.at = n /\ q = <<v, u, w>>
  BY DEF Closers
<1>2. CASE q = <<w>>
  <2>1. Closing(c, Plus(out, w), n + 1)
    BY <1>1, ClosingCloses
  <2> QED BY <1>0, <1>2, <2>1, OneByOne
<1>3. ASSUME NEW v, v.ev = "args_done", v.at = n, v.say = SaidIn(c.out, "args", n), q = <<v, w>>
      PROVE  Closing(c, out \o q, n + 1)
  <2>1. PICK x : x = Plus(out, v)
    OBVIOUS
  <2>2. Closing(c, x, n)
    BY <1>3, <2>1, ClosingSays
  <2>3. Closing(c, Plus(x, w), n + 1)
    BY <1>1, <2>2, ClosingCloses
  <2>4. out \o q = Plus(x, w)
    BY <1>0, <1>3, <2>1, OneByOne
  <2> QED BY <2>3, <2>4
<1>4. ASSUME NEW v, NEW u, v.ev = "text_done", v.at = n, v.say = SaidIn(c.out, "text", n),
             u.ev = "part_done", u.at = n, q = <<v, u, w>>
      PROVE  Closing(c, out \o q, n + 1)
  <2>1. PICK x, y : x = Plus(out, v) /\ y = Plus(x, u)
    OBVIOUS
  <2>2. Closing(c, x, n)
    BY <1>4, <2>1, ClosingSays
  <2>3. Closing(c, y, n)
    BY <1>4, <2>1, <2>2, ClosingSays
  <2>4. Closing(c, Plus(y, w), n + 1)
    BY <1>1, <2>3, ClosingCloses
  <2>5. out \o q = Plus(y, w)
    BY <1>0, <1>4, <2>1, OneByOne
  <2> QED BY <2>4, <2>5
<1> QED BY <1>1, <1>2, <1>3, <1>4

\* All items are closed, one after the other.
LEMMA ClosingAll ==
    ASSUME NEW c, ResponsesBegun(c), Spoken(c), c.emitted = Len(c.text), c.part \in BOOLEAN
    PROVE  Closing(c, c.out \o FlattenSeq([i \in 1..c.next |-> itemCloser(c, i - 1)]), c.next)
<1>0. /\ Items(c.out) /\ NoneClosed(c.out) /\ IsSeq(c.out) /\ c.next = Times(c.out, "item_added")
      /\ c.next \in Nat
  BY CountsGrow DEF ResponsesBegun, Numbering, Items
<1>1. PICK m \in Nat : m = c.next
  BY <1>0
<1>2. PICK A : c.out \in Seq(A)
  BY <1>0 DEF IsSeq
<1> DEFINE S == A \union {itemCloser(c, i)[k] : i \in Nat, k \in Nat}
           q(n) == [i \in 1..n |-> itemCloser(c, i - 1)]
           T == {n \in Nat : n <= m => Closing(c, c.out \o FlattenSeq(q(n)), n)}
<1>3. ASSUME NEW i \in Nat, i < m PROVE Closers(c, i, itemCloser(c, i)) /\ itemCloser(c, i) \in Seq(S)
  <2>1. Closers(c, i, itemCloser(c, i))
    BY <1>1, <1>3, ClosersOf
  <2>2. PICK r : r = itemCloser(c, i)
    OBVIOUS
  <2>3. r[1] \in S /\ r[2] \in S /\ r[3] \in S
    BY <2>2
  <2> HIDE DEF S
  <2>4. \/ \E w : r = <<w>>
        \/ \E v, w : r = <<v, w>>
        \/ \E v, u, w : r = <<v, u, w>>
    BY <2>1, <2>2 DEF Closers
  <2>5. r \in Seq(S)
    <3>1. ASSUME NEW w, r = <<w>> PROVE r \in Seq(S)
      BY <2>3, <3>1
    <3>2. ASSUME NEW v, NEW w, r = <<v, w>> PROVE r \in Seq(S)
      BY <2>3, <3>2
    <3>3. ASSUME NEW v, NEW u, NEW w, r = <<v, u, w>> PROVE r \in Seq(S)
      BY <2>3, <3>3
    <3> QED BY <2>4, <3>1, <3>2, <3>3
  <2> QED BY <2>1, <2>2, <2>5
<1>4. c.out \in Seq(S)
  BY <1>2, SeqMonotonic
<1> HIDE DEF S
<1>5. \A n \in Nat : n <= m => q(n) \in Seq(Seq(S)) /\ Len(q(n)) = n
  <2>1. ASSUME NEW n \in Nat, n <= m PROVE q(n) \in Seq(Seq(S)) /\ Len(q(n)) = n
    <3>1. \A i \in 1..n : i - 1 \in Nat /\ i - 1 < m
      BY <2>1
    <3>2. \A i \in 1..n : itemCloser(c, i - 1) \in Seq(S)
      BY <1>3, <3>1
    <3> QED BY <3>2
  <2> QED BY <2>1
<1>6. 0 \in T
  <2>1. q(0) = << >>
    OBVIOUS
  <2>2. c.out \o FlattenSeq(<< >>) = c.out
    <3>1. FlattenSeq(<< >>) = << >>
      BY FlatChosen
    <3> QED BY <1>4, <3>1, ConcatEmptySeq
  <2>3. Closing(c, c.out, 0)
    <3>1. Repeated(c.out)
      BY <1>0 DEF NoneClosed, Repeated
    <3> QED BY <1>0, <3>1 DEF Closing, NoneClosed, ResponsesBegun
  <2>4. c.out \o FlattenSeq(q(0)) = c.out
    BY <2>1, <2>2
  <2> HIDE DEF q
  <2> QED BY <2>3, <2>4
<1>7. ASSUME NEW n \in Nat, n \in T PROVE n + 1 \in T
  <2> SUFFICES ASSUME n + 1 <= m PROVE Closing(c, c.out \o FlattenSeq(q(n + 1)), n + 1)
    OBVIOUS
  <2>1. n < m /\ n <= m /\ n + 1 \in Nat
    OBVIOUS
  <2>2. PICK r : r = itemCloser(c, n)
    OBVIOUS
  <2>3. Closers(c, n, r) /\ r \in Seq(S)
    BY <1>3, <2>1, <2>2
  <2>4. PICK a, b : a = q(n) /\ b = q(n + 1)
    OBVIOUS
  <2>5. a \in Seq(Seq(S)) /\ Len(a) = n /\ b \in Seq(Seq(S)) /\ Len(b) = n + 1
    BY <1>5, <2>1, <2>4
  <2>6. (\A i \in 1..n : b[i] = a[i]) /\ b[n + 1] = r
    <3>1. \A i \in 1..n : i \in 1..n + 1
      OBVIOUS
    <3>2. n + 1 \in 1..n + 1 /\ n + 1 - 1 = n
      OBVIOUS
    <3> QED BY <2>2, <2>4, <3>1, <3>2
  <2>7. FlattenSeq(b) = FlattenSeq(a) \o r
    BY <2>5, <2>6, FlatGrows
  <2>8. PICK fa : fa = FlattenSeq(a)
    OBVIOUS
  <2>9. fa \in Seq(S)
    <3>1. a \in Seq(Seq(S))
      BY <2>5
    <3>2. FlattenSeq(a) \in Seq(S)
      BY <3>1, FlatType
    <3> QED BY <2>8, <3>2
  <2>10. c.out \o (fa \o r) = (c.out \o fa) \o r
    <3>1. PICK o \in Seq(S) : o = c.out
      BY <1>4
    <3>4. r \in Seq(S)
      BY <2>3
    <3>2. o \in Seq(S) /\ fa \in Seq(S) /\ r \in Seq(S)
      BY <2>9, <3>4
    <3>3. (o \o fa) \o r = o \o (fa \o r)
      BY <3>2, ConcatAssociative, SMTT(20)
    <3> QED BY <3>1, <3>3
  <2>11. Closing(c, c.out \o fa, n)
    BY <1>7, <2>1, <2>4, <2>8
  <2>12. Closing(c, (c.out \o fa) \o r, n + 1)
    BY <1>0, <1>1, <2>1, <2>3, <2>11, ClosingItem
  <2> QED BY <2>4, <2>7, <2>8, <2>10, <2>12
<1> HIDE DEF T
<1>8. m \in T
  BY <1>6, <1>7, NatRange
<1>9. Closing(c, c.out \o FlattenSeq(q(m)), m)
  BY <1>8 DEF T
<1> QED BY <1>1, <1>9

\* At the end.
ResponsesClosed(out) ==
    /\ Items(out) /\ Repeated(out)
    /\ out[Len(out)].ev = "finish" /\ Times(out, "finish") = 1
    /\ Times(out, "item_done") = Times(out, "item_added")

LEMMA ResponsesEnds ==
    ASSUME NEW c, ResponsesOpen(c), c.started, Spoken(c), c.emitted = Len(c.text)
    PROVE  ResponsesClosed(responsesFinalize(c).out)
<1>1. PICK p : p = responsesTail(c)
  OBVIOUS
<1>2. p = c
  <2>1. PICK n \in Nat : n = Len(c.text)
    BY LenProperties DEF Spoken
  <2>2. Suffix(c) = << >>
    <3>1. Suffix(c) = SubSeq(c.text, n + 1, n)
      BY <2>1 DEF Suffix
    <3>2. SubSeq(c.text, n + 1, n) = << >>
      BY SubSeqEmpty
    <3> QED BY <3>1, <3>2
  <2> QED BY <1>1, <2>2 DEF responsesTail
<1>3. PICK t : t = IF p.msgOut = None /\ ~AnyTool(p) THEN ensureMsg(p) ELSE p
  OBVIOUS
<1>4. ResponsesOpen(t) /\ t.started /\ Spoken(t) /\ t.emitted = Len(t.text)
  <2>1. CASE t = c
    BY <2>1
  <2>2. CASE t = ensureMsg(c)
    <3>1. /\ ResponsesOpen(t) /\ t.started /\ t.text = c.text /\ t.emitted = c.emitted
          /\ SaidIn(t.out, "text", t.msgOut) = SaidIn(c.out, "text", c.msgOut)
      BY <2>2, ResponsesMessage
    <3> QED BY <3>1 DEF Spoken
  <2> QED BY <1>2, <1>3, <2>1, <2>2
<1>5. Written(t) /\ ResponsesBegun(t) /\ t.part \in BOOLEAN
  BY <1>4 DEF ResponsesOpen
<1>6. PICK q : q = FlattenSeq([i \in 1..t.next |-> itemCloser(t, i - 1)])
  OBVIOUS
<1>7. Closing(t, t.out \o q, t.next)
  BY <1>4, <1>5, <1>6, ClosingAll
<1>8. PICK d : d = responsesClose(t)
  OBVIOUS
<1>9. Written(d) /\ d.out = t.out \o q
  <2>1. PICK b : b = Emit(t, q)
    OBVIOUS
  <2>2. Written(b) /\ b.out = t.out \o q
    BY <1>5, <2>1, EmitKept
  <2>3. \E n : d = [b EXCEPT !.seq = n]
    BY <1>6, <1>8, <2>1 DEF responsesClose, EmitClosing
  <2> QED BY <2>2, <2>3 DEF Written
<1>10. PICK at, say : responsesFinalize(c) = EmitNumbered(d, <<Event("finish", at, say)>>)
  <2>1. \E at, say : responsesFinalize(c) = EmitNumbered(d, <<Event("finish", at, say)>>)
    BY <1>1, <1>3, <1>8 DEF responsesFinalize
  <2> QED BY <2>1
<1>11. PICK v : v.ev = "finish" /\ responsesFinalize(c).out = Plus(d.out, v)
  <2>1. \E v : /\ v.ev = "finish" /\ v.at = at /\ v.say = say
               /\ EmitNumbered(d, <<Event("finish", at, say)>>).out = Plus(d.out, v)
    <3>1. Written(d)
      BY <1>9
    <3> QED BY <3>1, NumberedOne
  <2> QED BY <1>10, <2>1
<1>12. PICK x, y : x = d.out /\ y = Plus(x, v)
  OBVIOUS
<1>13. Closing(t, x, t.next)
  BY <1>7, <1>9, <1>12
<1>14. Items(x) /\ Repeated(x) /\ IsSeq(x)
  BY <1>13 DEF Closing, Items
<1>15. Items(y)
  BY <1>11, <1>12, <1>14, ItemsGrow DEF InItem
<1>16. Repeated(y)
  BY <1>11, <1>12, <1>14, RepeatedGrow
<1>17. Times(y, "finish") = 1 /\ Times(y, "item_done") = Times(y, "item_added")
  BY <1>11, <1>12, <1>13, <1>14, CountsGrow DEF Closing
<1>18. y[Len(y)].ev = "finish"
  BY <1>11, <1>12, <1>14, Appended
<1> QED BY <1>11, <1>12, <1>15, <1>16, <1>17, <1>18 DEF ResponsesClosed

-----------------------------------------------------------------------------
(* The framing of every client, through a payload and to the end *)

\* Between payloads: all text has been written.
Framing(c) ==
    /\ c.client = "chat" => ChatOpen(c)
    /\ c.client = "messages" => MessagesOpen(c)
    /\ c.client = "responses" => ResponsesOpen(c) /\ Spoken(c) /\ c.emitted = Len(c.text)

\* Within one, once the head has been written.
Feeding(c) ==
    /\ c.client = "chat" => ChatOpen(c)
    /\ c.client = "messages" => MessagesOpen(c) /\ c.started
    /\ c.client = "responses" => ResponsesOpen(c) /\ c.started /\ Spoken(c)

LEMMA ParseSpoken ==
    ASSUME NEW c, ConvType(c), Spoken(c), Written(c), NEW p, IsPayload(p)
    PROVE  Spoken(parse(c, p))
<1>1. PICK d : d = parse(c, p)
  OBVIOUS
<1>2. d.out = c.out /\ d.msgOut = c.msgOut
  BY <1>1, ParseKept DEF Kept
<1>3. d.text \in Seq(Piece)
  BY <1>1, ParseType DEF ConvType
<1>4. d.emitted = c.emitted /\ (d.text = c.text \/ \E r \in Seq(Piece) : d.text = c.text \o r)
  <2>1. CASE p = Torn
    BY <1>1, <2>1 DEF parse
  <2>2. CASE p # Torn
    <3>1. p.text \in Seq(Piece)
      BY <2>2 DEF IsPayload
    <3>2. openaiFeed(c, p).emitted = c.emitted /\ openaiFeed(c, p).text = c.text \o p.text
      BY DEF openaiFeed, Written
    <3>3. /\ anthropicFeed(c, p).emitted = c.emitted
          /\ anthropicFeed(c, p).text = c.text \/ anthropicFeed(c, p).text = c.text \o p.text
      BY DEF anthropicFeed, Written
    <3> QED BY <1>1, <2>2, <3>1, <3>2, <3>3 DEF parse
  <2> QED BY <2>1, <2>2
<1>5. PICK n : n = c.emitted /\ n \in 0..Len(c.text) /\ c.text \in Seq(Piece)
  BY DEF Spoken
<1>6. \A r \in Seq(Piece) : n \in 0..Len(c.text \o r) /\ TextTo(c.text \o r, n) = TextTo(c.text, n)
  BY <1>5, TextParts
<1>7. n \in 0..Len(d.text) /\ TextTo(d.text, n) = TextTo(c.text, n)
  BY <1>4, <1>5, <1>6
<1> QED BY <1>1, <1>2, <1>3, <1>4, <1>5, <1>7 DEF Spoken

LEMMA OpenFeeds ==
    ASSUME NEW c, ConvType(c), c.client # "native", Framing(c), NEW p, IsPayload(p)
    PROVE  Feeding(Open(parse(c, p)))
<1>1. PICK d : d = parse(c, p)
  OBVIOUS
<1>2. d.client = c.client /\ ConvType(d)
  BY <1>1, ParseType
<1>3. Open(d).client = c.client
  BY <1>2, SameOpen, SameSame DEF ConvType
<1>4. CASE c.client = "chat"
  <2>1. ChatOpen(d)
    BY <1>1, <1>4, ParseKept, ChatKept DEF Framing, ChatOpen
  <2>2. ChatOpen(Open(d))
    BY <1>2, <1>4, <2>1, ChatTexts DEF Open
  <2> QED BY <1>1, <1>3, <1>4, <2>2 DEF Feeding
<1>5. CASE c.client = "messages"
  <2>1. MessagesOpen(d)
    BY <1>1, <1>5, ParseKept, MessagesKept DEF Framing, MessagesOpen
  <2>2. MessagesOpen(Open(d)) /\ Open(d).started
    BY <1>2, <1>5, <2>1, MessagesHeads DEF Open
  <2> QED BY <1>1, <1>3, <1>5, <2>2 DEF Feeding
<1>6. CASE c.client = "responses"
  <2>1. ResponsesOpen(d) /\ Spoken(d)
    <3>1. Written(c) /\ ResponsesOpen(c) /\ Spoken(c)
      BY <1>6 DEF Framing, ResponsesOpen
    <3>2. Kept(c, d)
      BY <1>1, <3>1, ParseKept
    <3> QED BY <1>1, <3>1, <3>2, ResponsesKept, ParseSpoken
  <2>2. PICK o : o = responsesHead(d)
    OBVIOUS
  <2>3. /\ ResponsesOpen(o) /\ o.started /\ o.text = d.text /\ o.emitted = d.emitted
        /\ o.msgOut = d.msgOut /\ \A at : SaidIn(o.out, "text", at) = SaidIn(d.out, "text", at)
    BY <2>1, <2>2, ResponsesHeads
  <2>4. Spoken(o)
    BY <2>1, <2>3 DEF Spoken
  <2>5. Open(d) = o
    BY <1>2, <1>6, <2>2 DEF Open
  <2> QED BY <1>1, <1>3, <1>6, <2>3, <2>4, <2>5 DEF Feeding
<1> QED BY <1>4, <1>5, <1>6 DEF ConvType

LEMMA ToolFeeds ==
    ASSUME NEW c, Told(c), c.client \in {"chat", "messages", "responses"}, Feeding(c),
           NEW e, e.args \in Seq(Piece)
    PROVE  Feeding(Tool(c, e))
<1>1. Tool(c, e).client = c.client
  BY SameTool, SameSame
<1>2. CASE c.client = "chat"
  <2>1. ChatOpen(Tool(c, e))
    BY <1>2, ChatTools DEF Feeding, Tool
  <2> QED BY <1>1, <1>2, <2>1 DEF Feeding
<1>3. CASE c.client = "messages"
  <2>1. MessagesOpen(Tool(c, e)) /\ Tool(c, e).started
    BY <1>3, MessagesTools DEF Feeding, Tool
  <2> QED BY <1>1, <1>3, <2>1 DEF Feeding
<1>4. CASE c.client = "responses"
  <2>1. ResponsesOpen(c) /\ c.started /\ Spoken(c)
    BY <1>4 DEF Feeding
  <2>2. PICK d : d = responsesTool(c, e)
    OBVIOUS
  <2>3. ResponsesOpen(d) /\ d.started /\ SameSaid(c, d)
    BY <2>1, <2>2, ResponsesTools
  <2>4. Tool(c, e) = d
    BY <1>4, <2>2 DEF Tool
  <2> QED BY <1>1, <1>4, <2>1, <2>3, <2>4, SpokenStays DEF Feeding
<1> QED BY <1>2, <1>3, <1>4

LEMMA TextFeeds ==
    ASSUME NEW c, Told(c), c.client \in {"chat", "messages", "responses"}, Feeding(c)
    PROVE  Framing(Text(c))
<1>1. Text(c).client = c.client
  BY SameText, SameSame DEF Text
<1>2. CASE c.client = "chat"
  <2>1. ChatOpen(Text(c))
    BY <1>2, ChatTexts DEF Feeding, Text
  <2> QED BY <1>1, <1>2, <2>1 DEF Framing
<1>3. CASE c.client = "messages"
  <2>1. MessagesOpen(Text(c))
    BY <1>3, MessagesTexts DEF Feeding, Text
  <2> QED BY <1>1, <1>3, <2>1 DEF Framing
<1>4. CASE c.client = "responses"
  <2>1. ResponsesOpen(c) /\ c.started /\ Spoken(c)
    BY <1>4 DEF Feeding
  <2>2. PICK d : d = responsesText(c)
    OBVIOUS
  <2>3. ResponsesOpen(d) /\ Spoken(d) /\ d.emitted = Len(d.text)
    BY <2>1, <2>2, ResponsesTexts
  <2>4. Text(c) = d
    BY <1>4, <2>2 DEF Text
  <2> QED BY <1>1, <1>4, <2>3, <2>4 DEF Framing
<1> QED BY <1>2, <1>3, <1>4

LEMMA FeedFraming ==
    ASSUME NEW c, ConvType(c), Framing(c), NEW p, IsPayload(p)
    PROVE  Framing(Feed(c, p))
<1>1. CASE c.client = "native"
  <2>1. Feed(c, p).client = "native"
    BY <1>1, FeedType
  <2> QED BY <2>1 DEF Framing
<1>2. CASE c.client # "native"
  <2>1. PICK d : d = parse(c, p)
    OBVIOUS
  <2>2. ConvType(d) /\ d.client = c.client /\ d.client \in {"chat", "messages", "responses"}
    BY <1>2, <2>1, ParseType DEF ConvType
  <2>3. PICK n \in Nat : /\ DOMAIN extractToolEvents(p) = 1..n
                         /\ \A i \in 1..n : extractToolEvents(p)[i].args \in Seq(Piece)
    BY ToolEventsType
  <2>4. PICK q : q = extractToolEvents(p) /\ DOMAIN q = 1..n /\ \A i \in 1..n : q[i].args \in Seq(Piece)
    BY <2>3
  <2>5. PICK h : IsRun(h, Open(d), q, n)
    BY <2>4, FoldSteps
  <2> DEFINE T == {i \in Nat : i <= n => Same(d, h[i]) /\ Feeding(h[i])}
  <2>6. 0 \in T
    <3>1. h[0] = Open(d)
      BY <2>5 DEF IsRun
    <3>2. Same(d, Open(d))
      BY <2>2, SameOpen DEF ConvType
    <3>3. Feeding(Open(d))
      BY <1>2, <2>1, OpenFeeds
    <3> QED BY <3>1, <3>2, <3>3
  <2>7. ASSUME NEW i \in Nat, i \in T PROVE i + 1 \in T
    <3> SUFFICES ASSUME i + 1 <= n PROVE Same(d, h[i + 1]) /\ Feeding(h[i + 1])
      OBVIOUS
    <3>1. i < n /\ Same(d, h[i]) /\ Feeding(h[i]) /\ i + 1 \in 1..n
      BY <2>7
    <3>2. PICK x, e : x = h[i] /\ e = q[i + 1]
      OBVIOUS
    <3>3. Told(x) /\ x.client = d.client /\ Feeding(x) /\ e.args \in Seq(Piece)
      BY <2>4, <3>1, <3>2, SameSame
    <3>4. Same(x, Tool(x, e)) /\ Feeding(Tool(x, e))
      BY <2>2, <3>3, SameTool, ToolFeeds
    <3>5. h[i + 1] = Tool(x, e)
      BY <2>5, <3>1, <3>2 DEF IsRun
    <3> QED BY <3>1, <3>2, <3>4, <3>5, SameSame
  <2> HIDE DEF T
  <2>8. n \in T
    BY <2>6, <2>7, NatRange
  <2>9. Same(d, h[n]) /\ Feeding(h[n])
    BY <2>8 DEF T
  <2>10. Framing(Text(h[n]))
    <3>1. Told(h[n]) /\ h[n].client = d.client
      BY <2>9, SameSame
    <3> QED BY <2>2, <2>9, <3>1, TextFeeds
  <2>11. Feed(c, p) = Text(h[n])
    BY <1>2, <2>1, <2>4, <2>5, FeedTools DEF IsRun
  <2> QED BY <2>10, <2>11
<1> QED BY <1>1, <1>2

\* What the end writes does not begin a stream.
LEMMA StartedStays ==
    ASSUME NEW c, Written(c)
    PROVE  /\ \A events : /\ Written(Emit(c, events)) /\ Emit(c, events).started = c.started
                          /\ Written(EmitNumbered(c, events)) /\ EmitNumbered(c, events).started = c.started
           /\ Written(Taken(c)) /\ Taken(c).started = c.started
<1>1. \A events : Written(Emit(c, events)) /\ Emit(c, events).started = c.started
  BY EmitKept
<1>2. ASSUME NEW events PROVE Written(EmitNumbered(c, events)) /\ EmitNumbered(c, events).started = c.started
  <2>1. PICK d : d = Emit(c, Numbered(c, events))
    OBVIOUS
  <2>2. Written(d) /\ d.started = c.started
    BY <1>1, <2>1
  <2>3. EmitNumbered(c, events) = [d EXCEPT !.seq = @ + Len(events)]
    BY <2>1 DEF EmitNumbered
  <2> QED BY <2>2, <2>3 DEF Written
<1>3. Written(Taken(c)) /\ Taken(c).started = c.started
  BY ParseKept DEF Kept
<1> QED BY <1>1, <1>2, <1>3

LEMMA EndStarts ==
    ASSUME NEW c, Written(c)
    PROVE  messagesFinalize(c).started = c.started /\ responsesFinalize(c).started = c.started
<1>1. messagesFinalize(c).started = c.started
  <2>1. PICK t : t = messagesText(c)
    OBVIOUS
  <2>2. Written(t) /\ t.started = c.started
    BY <2>1, StartedStays DEF messagesText
  <2>3. PICK d : d = [t EXCEPT !.openTool = None, !.textOpen = FALSE]
    OBVIOUS
  <2>4. Written(d) /\ d.started = c.started
    BY <2>2, <2>3 DEF Written
  <2>5. \E ev : messagesFinalize(c) = Emit(d, ev)
    BY <2>1, <2>3 DEF messagesFinalize
  <2> QED BY <2>4, <2>5, StartedStays
<1>2. ASSUME NEW x, Written(x) PROVE Written(ensureMsg(x)) /\ ensureMsg(x).started = x.started
  <2>1. PICK d : d = [x EXCEPT !.msgOut = x.next, !.next = @ + 1]
    OBVIOUS
  <2>2. Written(d) /\ d.started = x.started
    BY <1>2, <2>1 DEF Written
  <2>3. ensureMsg(x) = x \/ \E ev : ensureMsg(x) = EmitNumbered(d, ev)
    BY <2>1 DEF ensureMsg
  <2> QED BY <1>2, <2>2, <2>3, StartedStays
<1>3. PICK p : p = responsesTail(c)
  OBVIOUS
<1>4. Written(p) /\ p.started = c.started
  <2>1. PICK m : m = ensureMsg(c)
    OBVIOUS
  <2>2. Written(m) /\ m.started = c.started
    BY <1>2, <2>1
  <2>3. p = c \/ \E ev : p = Taken(EmitNumbered(m, ev))
    BY <1>3, <2>1 DEF responsesTail
  <2> QED BY <2>2, <2>3, StartedStays
<1>5. PICK t : t = IF p.msgOut = None /\ ~AnyTool(p) THEN ensureMsg(p) ELSE p
  OBVIOUS
<1>6. Written(t) /\ t.started = c.started
  BY <1>2, <1>4, <1>5
<1>7. PICK d : d = responsesClose(t)
  OBVIOUS
<1>8. Written(d) /\ d.started = c.started
  <2>1. \E ev, n : d = [Emit(t, ev) EXCEPT !.seq = n]
    BY <1>7 DEF responsesClose, EmitClosing
  <2>2. PICK ev, n : d = [Emit(t, ev) EXCEPT !.seq = n]
    BY <2>1
  <2>3. PICK b : b = Emit(t, ev)
    OBVIOUS
  <2>4. Written(b) /\ b.started = c.started
    BY <1>6, <2>3, StartedStays
  <2> QED BY <2>2, <2>3, <2>4 DEF Written
<1>9. \E ev : responsesFinalize(c) = EmitNumbered(d, ev)
  BY <1>3, <1>5, <1>7 DEF responsesFinalize
<1> QED BY <1>1, <1>8, <1>9, StartedStays

\* What has been written to a client at the end.
Complete(c) ==
    /\ c.client = "chat" => ChatClosed(c.out)
    /\ c.client = "messages" /\ c.started => MessagesClosed(c.out)
    /\ c.client = "responses" /\ c.started => ResponsesClosed(c.out)

LEMMA EndCompletes ==
    ASSUME NEW c, ConvType(c), Framing(c)
    PROVE  Complete(Finalize(c))
<1>1. Finalize(c).client = c.client
  BY SameFinalize, SameSame DEF ConvType
<1>2. CASE c.client = "chat"
  <2>1. ChatClosed(Finalize(c).out)
    BY <1>2, ChatEnds DEF Framing, Finalize
  <2> QED BY <1>1, <1>2, <2>1 DEF Complete
<1>3. CASE c.client = "messages"
  <2>1. MessagesOpen(c) /\ Finalize(c) = messagesFinalize(c)
    BY <1>3 DEF Framing, Finalize
  <2>2. Finalize(c).started = c.started
    BY <2>1, EndStarts DEF MessagesOpen
  <2>3. c.started => MessagesClosed(Finalize(c).out)
    BY <2>1, MessagesEnds
  <2> QED BY <1>1, <1>3, <2>2, <2>3 DEF Complete
<1>4. CASE c.client = "responses"
  <2>1. ResponsesOpen(c) /\ Spoken(c) /\ c.emitted = Len(c.text) /\ Finalize(c) = responsesFinalize(c)
    BY <1>4 DEF Framing, Finalize
  <2>2. Finalize(c).started = c.started
    BY <2>1, EndStarts DEF ResponsesOpen
  <2>3. c.started => ResponsesClosed(Finalize(c).out)
    BY <2>1, ResponsesEnds
  <2> QED BY <1>1, <1>4, <2>2, <2>3 DEF Complete
<1>5. CASE c.client = "native"
  BY <1>1, <1>5 DEF Complete
<1> QED BY <1>2, <1>3, <1>4, <1>5 DEF ConvType

-----------------------------------------------------------------------------
\* The streams' framing: what has been written is open until the closing events,
\* and complete after them.  A stream the client broke off has none.
FramesInv ==
    /\ DOMAIN end = Stream
    /\ \A s \in Stream : IF Ended(s) THEN Complete(conv[s]) ELSE Framing(conv[s])

LEMMA NewFrames ==
    ASSUME NEW client, NEW up
    PROVE  Framing(NewConverter(client, up))
<1>1. PICK c : c = NewConverter(client, up)
  OBVIOUS
<1>2. /\ Written(c) /\ c.out = << >> /\ c.tools = << >> /\ c.callArgs = << >> /\ c.next = 0
      /\ c.started = FALSE /\ c.textOpen = FALSE /\ c.part = FALSE /\ c.msgOut = None
      /\ c.text = << >> /\ c.emitted = 0
  BY <1>1 DEF NewConverter, Written
<1>3. DOMAIN << >> = {}
  BY NothingYet
<1>4. ~AnyTool(c) /\ DOMAIN c.tools = {} /\ DOMAIN c.callArgs = {}
  BY <1>2, <1>3 DEF AnyTool
<1>5. ChatOpen(c)
  BY <1>2, <1>4, NothingYet DEF ChatOpen
<1>6. MessagesOpen(c)
  BY <1>2, <1>4 DEF MessagesOpen
<1>7. ResponsesOpen(c)
  BY <1>2, <1>4 DEF ResponsesOpen
<1>8. Spoken(c) /\ c.emitted = Len(c.text)
  <2>1. << >> \in Seq(Piece) /\ Len(<< >>) = 0
    BY EmptySeq
  <2>2. TextTo(<< >>, Len(<< >>)) = << >>
    <3>1. 0 \in 0..0
      OBVIOUS
    <3>2. PICK s : s = << >> /\ s \in Seq(Piece) /\ 0 \in 0..Len(s)
      BY <2>1, <3>1
    <3>3. TextTo(s, Len(s)) = s
      BY <3>2, TextParts
    <3> QED BY <3>2, <3>3
  <2>3. SaidIn(<< >>, "text", None) = << >>
    BY NothingSaid
  <2>4. TextTo(<< >>, 0) = << >> /\ 0 \in 0..0
    BY <2>1, <2>2
  <2> QED BY <1>2, <2>1, <2>3, <2>4 DEF Spoken
<1> QED BY <1>1, <1>5, <1>6, <1>7, <1>8 DEF Framing

LEMMA InitFrames == Init => FramesInv
<1> SUFFICES ASSUME Init PROVE FramesInv
  OBVIOUS
<1>1. DOMAIN end = Stream /\ phase = [s \in Stream |-> "new"]
      /\ conv = [s \in Stream |-> NewConverter(job[s].client, job[s].up)]
  BY DEF Init
<1>2. ASSUME NEW s \in Stream PROVE ~Ended(s) /\ Framing(conv[s])
  BY <1>1, NewFrames DEF Ended
<1> QED BY <1>1, <1>2 DEF FramesInv

LEMMA CallbackFrames ==
    ASSUME StreamsInv, NEW s \in Stream, Framing(conv[s]), NEW payloads, Callback(s, payloads),
           payloads # << >> => IsPayload(payloads[1])
    PROVE  Framing(conv'[s])
<1>1. CASE payloads = << >>
  BY <1>1 DEF Callback
<1>2. CASE payloads # << >>
  <2>1. PICK fed : fed = Feed(conv[s], payloads[1])
    OBVIOUS
  <2>2. Framing(fed)
    BY <1>2, <2>1, FeedFraming DEF StreamsInv
  <2>3. conv' = [conv EXCEPT ![s] = fed]
    BY <1>2, <2>1 DEF Callback
  <2> QED BY <2>2, <2>3 DEF StreamsInv
<1> QED BY <1>1, <1>2

LEMMA HandlingFrames ==
    ASSUME StreamsInv, NEW s \in Stream, Framing(conv[s]), WriteLine(s) \/ Flush(s)
    PROVE  Framing(conv'[s])
<1>0. \A i \in DOMAIN job[s].script : IsPayload(job[s].script[i])
  BY StreamRelayAssumption DEF StreamsInv
<1>1. \/ UNCHANGED conv
      \/ \E sp : Callback(s, lineYields(sp, job[s].script))
      \/ \E sp : Callback(s, flushYields(sp, job[s].script))
  BY DEF WriteLine, Flush
<1>2. CASE \E sp : Callback(s, lineYields(sp, job[s].script))
  BY <1>0, <1>2, YieldsType, CallbackFrames
<1>3. CASE \E sp : Callback(s, flushYields(sp, job[s].script))
  BY <1>0, <1>3, YieldsType, CallbackFrames
<1> QED BY <1>1, <1>2, <1>3

LEMMA StepFrames == StreamsInv /\ FramesInv /\ [Next]_vars => FramesInv'
<1> SUFFICES ASSUME StreamsInv, FramesInv, [Next]_vars PROVE FramesInv'
  OBVIOUS
<1>0. DOMAIN end = Stream /\ DOMAIN phase = Stream /\ DOMAIN conv = Stream
  BY DEF FramesInv, StreamsInv
<1>1. ASSUME NEW s \in Stream, Begin(s) PROVE FramesInv'
  <2>1. phase[s] = "new" /\ phase' = [phase EXCEPT ![s] = "relay"] /\ UNCHANGED <<conv, end>>
    BY <1>1 DEF Begin
  <2> QED BY <1>0, <2>1 DEF FramesInv, Ended
<1>2. ASSUME NEW s \in Stream, Read(s) \/ ClientLeaves(s) PROVE FramesInv'
  BY <1>2 DEF Read, ClientLeaves, FramesInv, Ended
<1>3. ASSUME NEW s \in Stream, WriteFails(s) \/ ReadEnds(s) PROVE FramesInv'
  <2>1. /\ phase[s] = "relay" /\ UNCHANGED <<conv, phase>>
        /\ \E how : end' = [end EXCEPT ![s] = how]
    BY <1>3 DEF WriteFails, ReadEnds, Reading
  <2> QED BY <1>0, <2>1 DEF FramesInv, Ended
<1>4. ASSUME NEW s \in Stream, WriteLine(s) \/ Flush(s) PROVE FramesInv'
  <2>1. /\ phase[s] = "relay" /\ UNCHANGED end
        /\ phase' = phase \/ phase' = [phase EXCEPT ![s] = "closing"]
    BY <1>4 DEF WriteLine, Flush
  <2>2. Framing(conv[s])
    BY <2>1 DEF FramesInv, Ended
  <2>3. Framing(conv'[s])
    BY <1>4, <2>2, HandlingFrames
  <2>4. \A z \in Stream : z # s => conv'[z] = conv[z]
    BY <1>4, HandlesPayloads
  <2>5. phase'[s] \in {"relay", "closing"} /\ \A z \in Stream : z # s => phase'[z] = phase[z]
    BY <1>0, <2>1
  <2> QED BY <2>1, <2>3, <2>4, <2>5 DEF FramesInv, Ended
<1>5. ASSUME NEW s \in Stream, Close(s) PROVE FramesInv'
  <2>1. /\ phase[s] = "closing" /\ phase' = [phase EXCEPT ![s] = "saved"] /\ UNCHANGED end
        /\ conv' = IF end[s] = "left" THEN conv ELSE [conv EXCEPT ![s] = Finalize(conv[s])]
    BY <1>5 DEF Close
  <2>2. Framing(conv[s]) /\ Complete(Finalize(conv[s]))
    BY <2>1, EndCompletes DEF FramesInv, Ended, StreamsInv
  <2>3. \A z \in Stream : z # s => conv'[z] = conv[z] /\ phase'[z] = phase[z]
    BY <1>0, <2>1
  <2>4. phase'[s] = "saved" /\ conv'[s] = IF end[s] = "left" THEN conv[s] ELSE Finalize(conv[s])
    BY <1>0, <2>1
  <2> QED BY <2>1, <2>2, <2>3, <2>4 DEF FramesInv, Ended
<1>6. ASSUME NEW s \in Stream, FinishSession(s) PROVE FramesInv'
  <2>1. phase[s] = "saved" /\ phase' = [phase EXCEPT ![s] = "done"] /\ UNCHANGED <<conv, end>>
    BY <1>6 DEF FinishSession
  <2> QED BY <1>0, <2>1 DEF FramesInv, Ended
<1>7. CASE Add \/ Tick \/ UNCHANGED vars
  BY <1>7 DEF Add, Tick, vars, relayVars, FramesInv, Ended
<1> QED BY <1>1, <1>2, <1>3, <1>4, <1>5, <1>6, <1>7 DEF Next

\* A chat client sees each call announced before its arguments and, whatever the
\* order of the upstream's payloads and wherever the upstream broke off, a
\* reason, the usage and [DONE] at the end, once each
\* (convert_stream.go:194-338).
THEOREM ChatIsFramed == Spec => []ChatFramed
<1>1. StreamsInv /\ FramesInv => ChatFramed
  <2> SUFFICES ASSUME StreamsInv, FramesInv, NEW s \in Stream, job[s].client = "chat"
               PROVE  LET out == conv[s].out IN
                      /\ Bracketed(out, "call", {"args"}, "none")
                      /\ IF Ended(s)
                         THEN /\ [i \in 1..3 |-> out[Len(out) - 3 + i].ev] = <<"finish", "usage", "done">>
                              /\ Times(out, "finish") = 1 /\ Times(out, "usage") = 1 /\ Times(out, "done") = 1
                         ELSE Times(out, "finish") = 0
    BY DEF ChatFramed
  <2>1. conv[s].client = "chat"
    BY DEF StreamsInv
  <2>2. CASE Ended(s)
    BY <2>1, <2>2 DEF FramesInv, Complete, ChatClosed
  <2>3. CASE ~Ended(s)
    BY <2>1, <2>3 DEF FramesInv, Framing, ChatOpen
  <2> QED BY <2>2, <2>3
<1> QED BY <1>1, InitStreams, StepStreams, InitFrames, StepFrames, PTL DEF Spec

\* A messages client that got anything sees one content block at a time, text
\* inside its block, a call's arguments after its block's start, and all blocks
\* closed before the message is (convert_stream.go:340-530).
THEOREM MessagesAreFramed == Spec => []MessagesFramed
<1>1. StreamsInv /\ FramesInv => MessagesFramed
  <2> SUFFICES ASSUME StreamsInv, FramesInv, NEW s \in Stream, job[s].client = "messages", conv[s].started
               PROVE  LET out == conv[s].out IN
                      /\ Blocks(out)
                      /\ Ended(s) =>
                           /\ Times(out, "block_start") = Times(out, "block_stop")
                           /\ [i \in 1..2 |-> out[Len(out) - 2 + i].ev] = <<"finish", "done">>
    BY DEF MessagesFramed, Blocks
  <2>1. conv[s].client = "messages"
    BY DEF StreamsInv
  <2>2. CASE Ended(s)
    <3>1. Times(conv[s].out, "block_stop") \in Nat
      BY <2>1, <2>2, CountsGrow DEF FramesInv, Complete, MessagesClosed, Blocks
    <3> QED BY <2>1, <2>2, <3>1 DEF FramesInv, Complete, MessagesClosed, OpenBlocks
  <2>3. CASE ~Ended(s)
    BY <2>1, <2>3 DEF FramesInv, Framing, MessagesOpen, MessagesBegun
  <2> QED BY <2>2, <2>3
<1> QED BY <1>1, InitStreams, StepStreams, InitFrames, StepFrames, PTL DEF Spec

\* A responses client sees items announced in order and closed in that order,
\* each with all that was said of it, and one terminal event, the last
\* (convert_stream.go:532-840).
THEOREM ResponsesAreFramed == Spec => []ResponsesFramed
<1>1. StreamsInv /\ FramesInv => ResponsesFramed
  <2> SUFFICES ASSUME StreamsInv, FramesInv, NEW s \in Stream, job[s].client = "responses", conv[s].started
               PROVE  LET out == conv[s].out IN
                      /\ Items(out) /\ Repeated(out)
                      /\ IF Ended(s)
                         THEN /\ out[Len(out)].ev = "finish" /\ Times(out, "finish") = 1
                              /\ Times(out, "item_done") = Times(out, "item_added")
                         ELSE Times(out, "finish") = 0
    BY DEF ResponsesFramed, Items, Repeated, InItem, Saying
  <2>1. conv[s].client = "responses"
    BY DEF StreamsInv
  <2>2. CASE Ended(s)
    BY <2>1, <2>2 DEF FramesInv, Complete, ResponsesClosed
  <2>3. CASE ~Ended(s)
    BY <2>1, <2>3 DEF FramesInv, Framing, ResponsesOpen, ResponsesBegun, NoneClosed, Repeated
  <2> QED BY <2>2, <2>3
<1> QED BY <1>1, InitStreams, StepStreams, InitFrames, StepFrames, PTL DEF Spec

\* What the client of a converted stream gets is framed as its protocol wants
\* it, whichever it is (convert_stream.go:194-840).
THEOREM StreamsAreFramed == Spec => []Framed
<1>1. ChatFramed /\ MessagesFramed /\ ResponsesFramed => Framed
  BY DEF Framed
<1> QED BY <1>1, ChatIsFramed, MessagesAreFramed, ResponsesAreFramed, PTL
-----------------------------------------------------------------------------
(* What a client is owed, payload by payload *)

\* One more in front of what follows.
LEMMA HeadGrows ==
    ASSUME NEW q, IsSeq(q), NEW p
    PROVE  /\ \A i \in 0..Len(q) : SubSeq(Plus(q, p), 1, i) = SubSeq(q, 1, i)
           /\ SubSeq(q, 1, Len(q)) = q
<1>1. PICK S : q \in Seq(S)
  BY DEF IsSeq
<1>2. PICK T : T = S \union {p}
  OBVIOUS
<1>3. q \in Seq(T) /\ <<p>> \in Seq(T)
  BY <1>1, <1>2, SeqMonotonic
<1>4. ASSUME NEW i \in 0..Len(q) PROVE TextTo(q \o <<p>>, i) = TextTo(q, i)
  <2>1. PICK r : r = <<p>> /\ r \in Seq(T)
    BY <1>3
  <2>2. \A x \in Seq(T) : TextTo(q \o x, i) = TextTo(q, i)
    BY <1>3, TextParts
  <2> QED BY <2>1, <2>2
<1>5. TextTo(q, Len(q)) = q
  <2>1. PICK n \in Nat : n = Len(q)
    BY <1>3, LenProperties
  <2>2. n \in 0..Len(q)
    BY <2>1
  <2> QED BY <1>3, <2>2, TextParts
<1> QED BY <1>4, <1>5 DEF TextTo, Plus

\* The next of a sequence.
LEMMA NextGrows ==
    ASSUME NEW S, NEW q \in Seq(S), NEW i \in Nat, i < Len(q)
    PROVE  /\ TextTo(q, i + 1) = Plus(TextTo(q, i), q[i + 1])
           /\ TextTo(q, i) \in Seq(S) /\ TextTo(q, i + 1) \in Seq(S) /\ Len(TextTo(q, i)) = i
           /\ q[i + 1] \in S
           /\ \A base \in Seq(S) : base \o TextTo(q, i + 1) = Plus(base \o TextTo(q, i), q[i + 1])
<1>1. PICK n \in Nat : n = Len(q)
  BY LenProperties
<1>2. q[i + 1] \in S
  BY <1>1, ElementOfSeq
<1>3. PICK a, b : a = SubSeq(q, 1, i) /\ b = SubSeq(q, 1, i + 1)
  OBVIOUS
<1>4. a \in Seq(S) /\ Len(a) = i /\ \A k \in 1..i : a[k] = q[k]
  BY <1>1, <1>3, SubSeqProperties
<1>5. b \in Seq(S) /\ Len(b) = i + 1 /\ \A k \in 1..i + 1 : b[k] = q[k]
  BY <1>1, <1>3, SubSeqProperties
<1>6. PICK c : c = a \o <<q[i + 1]>>
  OBVIOUS
<1>7. <<q[i + 1]>> \in Seq(S)
  BY <1>2
<1>8. c \in Seq(S) /\ Len(c) = i + 1 /\ \A k \in 1..i + 1 : c[k] = IF k <= i THEN a[k] ELSE q[i + 1]
  <2>1. Len(<<q[i + 1]>>) = 1 /\ <<q[i + 1]>>[1] = q[i + 1]
    OBVIOUS
  <2>2. /\ c \in Seq(S) /\ Len(c) = i + 1
        /\ \A k \in 1..i + 1 : c[k] = IF k <= i THEN a[k] ELSE <<q[i + 1]>>[k - i]
    BY <1>4, <1>6, <1>7, <2>1, ConcatProperties
  <2>3. \A k \in 1..i + 1 : ~(k <= i) => k - i = 1
    OBVIOUS
  <2> QED BY <2>1, <2>2, <2>3
<1>9. b = c
  <2>1. \A k \in 1..i + 1 : b[k] = c[k]
    <3>1. ASSUME NEW k \in 1..i + 1 PROVE b[k] = c[k]
      <4>1. k <= i => k \in 1..i
        OBVIOUS
      <4>2. ~(k <= i) => k = i + 1
        OBVIOUS
      <4> QED BY <1>4, <1>5, <1>8, <4>1, <4>2
    <3> QED BY <3>1
  <2> QED BY <1>5, <1>8, <2>1, SeqEqual
<1>10. \A base \in Seq(S) : base \o b = (base \o a) \o <<q[i + 1]>>
  BY <1>4, <1>6, <1>7, <1>9, ConcatAssociative
<1> QED BY <1>2, <1>3, <1>4, <1>5, <1>6, <1>9, <1>10 DEF TextTo, Plus

\* Payloads, and tool events.
Payloads(q) == IsSeq(q) /\ \A i \in DOMAIN q : IsPayload(q[i])
Said == [kind : {"start", "args"}, key : Key \union {""}, args : Seq(Piece)]

LEMMA ExtractType == \A p : IsPayload(p) => extractToolEvents(p) \in Seq(Said)
<1> SUFFICES ASSUME NEW p, IsPayload(p) PROVE extractToolEvents(p) \in Seq(Said)
  OBVIOUS
<1>1. << >> \in Seq(Said) /\ \A e \in Said : <<e>> \in Seq(Said)
  BY EmptySeq
<1>2. \A key \in Key \union {""}, args \in Seq(Piece) : ToolEvent("start", key, << >>) \in Said /\ ToolEvent("args", key, args) \in Said
  <2>1. << >> \in Seq(Piece)
    BY EmptySeq
  <2> QED BY <2>1 DEF ToolEvent, Said
<1>3. CASE p = Torn
  BY <1>1, <1>3 DEF extractToolEvents
<1>4. CASE p # Torn /\ p.type # "chat"
  <2>1. p.key \in Key \union {""} /\ p.args \in Seq(Piece)
    BY <1>4 DEF IsPayload
  <2>2. ToolEvent("start", p.key, << >>) \in Said /\ ToolEvent("args", p.key, p.args) \in Said
    BY <1>2, <2>1
  <2> QED BY <1>1, <1>4, <2>2 DEF extractToolEvents
<1>5. CASE p # Torn /\ p.type = "chat"
  <2> DEFINE of(tc) == (IF tc.named THEN <<ToolEvent("start", tc.key, << >>)>> ELSE << >>)
                       \o (IF tc.args # << >> THEN <<ToolEvent("args", tc.key, tc.args)>> ELSE << >>)
  <2>1. PICK n \in Nat : n = Len(p.calls) /\ DOMAIN p.calls = 1..n
    <3>1. Len(p.calls) \in Nat /\ DOMAIN p.calls = 1..Len(p.calls)
      BY <1>5, LenProperties DEF IsPayload
    <3> QED BY <3>1
  <2>2. ASSUME NEW i \in 1..n PROVE of(p.calls[i]) \in Seq(Said)
    <3>1. PICK tc \in [key : Key, named : BOOLEAN, args : Seq(Piece)] : tc = p.calls[i]
      BY <1>5, <2>1, ElementOfSeq DEF IsPayload
    <3>2. ToolEvent("start", tc.key, << >>) \in Said /\ ToolEvent("args", tc.key, tc.args) \in Said
      BY <1>2
    <3>3. PICK s1 : s1 = IF tc.named THEN <<ToolEvent("start", tc.key, << >>)>> ELSE << >>
      OBVIOUS
    <3>4. PICK s2 : s2 = IF tc.args # << >> THEN <<ToolEvent("args", tc.key, tc.args)>> ELSE << >>
      OBVIOUS
    <3>5. s1 \in Seq(Said) /\ s2 \in Seq(Said)
      BY <1>1, <3>2, <3>3, <3>4
    <3>6. s1 \o s2 \in Seq(Said)
      BY <3>5, ConcatProperties
    <3> QED BY <3>1, <3>3, <3>4, <3>6
  <2> HIDE DEF of
  <2>3. PICK q : q = [i \in DOMAIN p.calls |-> of(p.calls[i])]
    OBVIOUS
  <2>4. q \in Seq(Seq(Said))
    BY <2>1, <2>2, <2>3
  <2>5. FlattenSeq(q) \in Seq(Said)
    BY <2>4, FlatType
  <2> QED BY <1>5, <2>3, <2>5 DEF extractToolEvents, of
<1> QED BY <1>3, <1>4, <1>5

LEMMA ToolEventsGrow ==
    ASSUME NEW q, Payloads(q), NEW p, IsPayload(p)
    PROVE  /\ ToolEvents(q) \in Seq(Said)
           /\ ToolEvents(Plus(q, p)) = ToolEvents(q) \o extractToolEvents(p)
           /\ Payloads(Plus(q, p))
<1>1. PICK o : o = Plus(q, p)
  OBVIOUS
<1>2. PICK n \in Nat : n = Len(q)
  BY Appended DEF Payloads
<1>3. /\ DOMAIN q = 1..n /\ DOMAIN o = 1..n + 1 /\ o[n + 1] = p /\ IsSeq(o)
      /\ \A i \in 1..n : o[i] = q[i]
  BY <1>1, <1>2, Appended DEF Payloads
<1>4. \A i \in 1..n + 1 : i = n + 1 \/ i \in 1..n
  OBVIOUS
<1>5. Payloads(o)
  BY <1>3, <1>4 DEF Payloads
<1>6. PICK a, b : a = [i \in DOMAIN q |-> extractToolEvents(q[i])] /\ b = [i \in DOMAIN o |-> extractToolEvents(o[i])]
  OBVIOUS
<1>7. a \in Seq(Seq(Said)) /\ Len(a) = n
  BY <1>3, <1>6, ExtractType DEF Payloads
<1>8. b \in Seq(Seq(Said)) /\ Len(b) = n + 1
  BY <1>3, <1>5, <1>6, ExtractType, SMTT(20) DEF Payloads
<1>9. (\A i \in 1..n : b[i] = a[i]) /\ b[n + 1] = extractToolEvents(p)
  <2>1. n + 1 \in 1..n + 1 /\ \A i \in 1..n : i \in 1..n + 1
    OBVIOUS
  <2> QED BY <1>3, <1>6, <2>1
<1>10. FlattenSeq(b) = FlattenSeq(a) \o extractToolEvents(p) /\ FlattenSeq(a) \in Seq(Said)
  <2>1. FlattenSeq(b) = FlattenSeq(a) \o b[n + 1]
    BY <1>7, <1>8, <1>9, FlatGrows
  <2> QED BY <1>7, <1>9, <2>1, FlatType
<1> QED BY <1>1, <1>5, <1>6, <1>10 DEF ToolEvents

LEMMA CallsGrow ==
    ASSUME NEW said, IsSeq(said), NEW e
    PROVE  Calls(Plus(said, e)) = IF e.kind = "start" THEN Calls(said) \union {e.key} ELSE Calls(said)
<1>1. PICK o : o = Plus(said, e)
  OBVIOUS
<1>2. PICK n \in Nat : n = Len(said)
  BY Appended
<1>3. /\ DOMAIN said = 1..n /\ DOMAIN o = 1..n + 1 /\ o[n + 1] = e
      /\ \A i \in 1..n : o[i] = said[i]
  BY <1>1, <1>2, Appended
<1>4. \A i : i \in 1..n + 1 <=> i = n + 1 \/ i \in 1..n
  OBVIOUS
<1>5. \A key : key \in Calls(o) <=> \E i \in 1..n + 1 : o[i].kind = "start" /\ o[i].key = key
  BY <1>3 DEF Calls
<1>6. \A key : key \in Calls(said) <=> \E i \in 1..n : said[i].kind = "start" /\ said[i].key = key
  BY <1>3 DEF Calls
<1>7. \A key : key \in Calls(o) <=> key \in Calls(said) \/ (e.kind = "start" /\ key = e.key)
  BY <1>3, <1>4, <1>5, <1>6
<1> QED BY <1>1, <1>7

\* The arguments an event gives a call.
Given(said, e, key) == IF e.kind = "args" /\ e.key = key /\ key \in Calls(said) THEN e.args ELSE << >>

LEMMA OwedArgsGrow ==
    ASSUME NEW said \in Seq(Said), NEW e \in Said, NEW key
    PROVE  OwedArgs(Plus(said, e), key) = OwedArgs(said, key) \o Given(said, e, key)
<1>0. IsSeq(said)
  BY DEF IsSeq
<1>1. PICK o : o = Plus(said, e)
  OBVIOUS
<1>2. PICK n \in Nat : n = Len(said)
  BY LenProperties
<1>3. /\ DOMAIN said = 1..n /\ DOMAIN o = 1..n + 1 /\ o[n + 1] = e
      /\ \A i \in 1..n : o[i] = said[i]
  BY <1>0, <1>1, <1>2, Appended
<1> DEFINE part(q, i) == IF q[i].kind = "args" /\ q[i].key = key /\ \E k \in 1..(i - 1) : StartsIn(q, k, key)
                         THEN q[i].args ELSE << >>
<1>4. PICK a, b : a = [i \in DOMAIN said |-> part(said, i)] /\ b = [i \in DOMAIN o |-> part(o, i)]
  OBVIOUS
<1>5. << >> \in Seq(Piece) /\ \A x \in Said : x.args \in Seq(Piece)
  BY EmptySeq DEF Said
<1>6. (\A i \in 1..n : said[i] \in Said) /\ \A i \in 1..n + 1 : o[i] \in Said
  <2>1. \A i \in 1..n : said[i] \in Said
    BY <1>2, ElementOfSeq
  <2>2. \A i \in 1..n + 1 : i = n + 1 \/ i \in 1..n
    OBVIOUS
  <2> QED BY <1>3, <2>1, <2>2
<1>7. a \in Seq(Seq(Piece)) /\ Len(a) = n
  BY <1>3, <1>4, <1>5, <1>6
<1>8. b \in Seq(Seq(Piece)) /\ Len(b) = n + 1
  BY <1>3, <1>4, <1>5, <1>6
<1>9. \A i \in 1..n : b[i] = a[i]
  <2>1. ASSUME NEW i \in 1..n PROVE part(o, i) = part(said, i)
    <3>1. \A k \in 1..(i - 1) : k \in 1..n /\ o[k] = said[k]
      BY <1>3
    <3>2. (\E k \in 1..(i - 1) : StartsIn(o, k, key)) <=> (\E k \in 1..(i - 1) : StartsIn(said, k, key))
      BY <3>1 DEF StartsIn
    <3> QED BY <1>3, <3>2
  <2>2. \A i \in 1..n : i \in 1..n + 1
    OBVIOUS
  <2> HIDE DEF part
  <2> QED BY <1>3, <1>4, <2>1, <2>2
<1>10. b[n + 1] = Given(said, e, key)
  <2>1. n + 1 \in 1..n + 1 /\ n + 1 - 1 = n
    OBVIOUS
  <2>2. (\E k \in 1..n : StartsIn(o, k, key)) <=> key \in Calls(said)
    BY <1>3 DEF StartsIn, Calls
  <2>3. part(o, n + 1) = Given(said, e, key)
    BY <1>3, <2>1, <2>2 DEF Given
  <2> QED BY <1>3, <1>4, <2>1, <2>3
<1>11. FlattenSeq(b) = FlattenSeq(a) \o b[n + 1]
  BY <1>7, <1>8, <1>9, FlatGrows
<1> QED BY <1>1, <1>4, <1>10, <1>11 DEF OwedArgs

OwedMore(q, p, client, up) ==
    OwedText(Plus(q, p), client, up) =
        OwedText(q, client, up)
        \o (IF client = "messages" /\ Calls(ToolEvents(Plus(q, p))) # {} THEN << >> ELSE TextOf(p, up))

LEMMA OwedTextGrows == \A q, p, client, up : Payloads(q) /\ IsPayload(p) => OwedMore(q, p, client, up)
<1> SUFFICES ASSUME NEW q, Payloads(q), NEW p, IsPayload(p), NEW client, NEW up
             PROVE  OwedMore(q, p, client, up)
  OBVIOUS
<1>1. PICK o : o = Plus(q, p)
  OBVIOUS
<1>2. PICK n \in Nat : n = Len(q)
  BY Appended DEF Payloads
<1>3. /\ DOMAIN q = 1..n /\ DOMAIN o = 1..n + 1 /\ o[n + 1] = p /\ IsSeq(o) /\ Len(o) = n + 1
      /\ \A i \in 1..n : o[i] = q[i]
  BY <1>1, <1>2, Appended DEF Payloads
<1> DEFINE part(r, i) == IF client = "messages" /\ Calls(ToolEvents(SubSeq(r, 1, i))) # {} THEN << >>
                         ELSE TextOf(r[i], up)
<1>4. PICK a, b : a = [i \in DOMAIN q |-> part(q, i)] /\ b = [i \in DOMAIN o |-> part(o, i)]
  OBVIOUS
<1>5. << >> \in Seq(Piece) /\ \A x : IsPayload(x) => TextOf(x, up) \in Seq(Piece)
  BY EmptySeq DEF TextOf, IsPayload
<1>6. Payloads(o)
  BY <1>1, ToolEventsGrow
<1>7. a \in Seq(Seq(Piece)) /\ Len(a) = n
  BY <1>3, <1>4, <1>5 DEF Payloads
<1>8. b \in Seq(Seq(Piece)) /\ Len(b) = n + 1
  BY <1>3, <1>4, <1>5, <1>6 DEF Payloads
<1>9. \A i \in 1..n : b[i] = a[i]
  <2>1. \A i \in 1..n : SubSeq(o, 1, i) = SubSeq(q, 1, i)
    <3>1. \A i \in 0..n : SubSeq(o, 1, i) = SubSeq(q, 1, i)
      BY <1>1, <1>2, HeadGrows DEF Payloads
    <3> QED BY <3>1
  <2>2. ASSUME NEW i \in 1..n PROVE i \in 1..n + 1 /\ part(o, i) = part(q, i)
    <3>1. o[i] = q[i]
      BY <1>3
    <3>2. Calls(ToolEvents(SubSeq(o, 1, i))) = Calls(ToolEvents(SubSeq(q, 1, i)))
      BY <2>1
    <3>3. part(o, i) = part(q, i)
      BY <3>1, <3>2
    <3>4. i \in 1..n + 1
      OBVIOUS
    <3> QED BY <3>3, <3>4
  <2> HIDE DEF part
  <2> QED BY <1>3, <1>4, <2>2
<1>10. b[n + 1] = IF client = "messages" /\ Calls(ToolEvents(o)) # {} THEN << >> ELSE TextOf(p, up)
  <2>1. SubSeq(o, 1, n + 1) = o /\ n + 1 \in 1..n + 1
    BY <1>3, HeadGrows
  <2> QED BY <1>3, <1>4, <2>1
<1>11. FlattenSeq(b) = FlattenSeq(a) \o b[n + 1]
  BY <1>7, <1>8, <1>9, FlatGrows
<1> QED BY <1>1, <1>4, <1>10, <1>11 DEF OwedText, OwedMore

\* What p says of the stream's end.
Ends(p, up) == p # Torn /\ p.finish # "" /\ (up = "messages" => p.type = "message_delta")

LEMMA LastFinishGrows ==
    ASSUME NEW q, Payloads(q), NEW p, IsPayload(p), NEW up
    PROVE  LastFinish(Plus(q, p), up) = IF Ends(p, up) THEN p.finish ELSE LastFinish(q, up)
<1>1. PICK o : o = Plus(q, p)
  OBVIOUS
<1>2. PICK n \in Nat : n = Len(q)
  BY Appended DEF Payloads
<1>3. /\ DOMAIN q = 1..n /\ DOMAIN o = 1..n + 1 /\ o[n + 1] = p
      /\ \A i \in 1..n : o[i] = q[i]
  BY <1>1, <1>2, Appended DEF Payloads
<1>4. PICK g : g = {i \in DOMAIN q : Ends(q[i], up)}
  OBVIOUS
<1>5. PICK h : h = {i \in DOMAIN o : Ends(o[i], up)}
  OBVIOUS
<1>6. LastFinish(q, up) = IF g = {} THEN "" ELSE q[Max(g)].finish
  BY <1>4 DEF LastFinish, Ends
<1>7. LastFinish(o, up) = IF h = {} THEN "" ELSE o[Max(h)].finish
  BY <1>5 DEF LastFinish, Ends
<1>8. \A i : i \in h <=> i \in g \/ (i = n + 1 /\ Ends(p, up))
  <2>1. \A i : i \in 1..n + 1 <=> i = n + 1 \/ i \in 1..n
    OBVIOUS
  <2> QED BY <1>3, <1>4, <1>5, <2>1
<1>9. CASE Ends(p, up)
  <2>1. h \in SUBSET (1..n + 1) /\ n + 1 \in h /\ h # {}
    <3>1. h \in SUBSET (1..n + 1)
      BY <1>3, <1>5
    <3>2. n + 1 \in h
      BY <1>8, <1>9
    <3> QED BY <3>1, <3>2
  <2>2. Max(h) \in h /\ Max(h) >= n + 1
    <3>1. n + 1 \in Nat
      OBVIOUS
    <3>2. Max(h) \in h /\ \A y \in h : Max(h) >= y
      BY <2>1, <3>1, HasMax
    <3> QED BY <2>1, <3>2
  <2>3. Max(h) = n + 1
    <3>1. PICK x : x = Max(h)
      OBVIOUS
    <3>2. x \in 1..n + 1 /\ x >= n + 1
      BY <2>1, <2>2, <3>1
    <3>3. x = n + 1
      BY <3>2
    <3> QED BY <3>1, <3>3
  <2> QED BY <1>1, <1>3, <1>7, <1>9, <2>1, <2>3
<1>10. CASE ~Ends(p, up)
  <2>1. h = g
    BY <1>8, <1>10
  <2>2. g # {} => o[Max(g)] = q[Max(g)]
    <3>1. g \in SUBSET (1..n)
      BY <1>3, <1>4
    <3>2. g # {} => Max(g) \in g
      BY <3>1, HasMax
    <3> QED BY <1>3, <3>1, <3>2
  <2> QED BY <1>1, <1>6, <1>7, <1>10, <2>1, <2>2
<1> QED BY <1>9, <1>10

LEMMA NothingOwed ==
    /\ Payloads(<< >>) /\ ToolEvents(<< >>) = << >> /\ Calls(<< >>) = {}
    /\ \A key : OwedArgs(<< >>, key) = << >>
    /\ \A client, up : OwedText(<< >>, client, up) = << >>
    /\ \A up : LastFinish(<< >>, up) = ""
<1>0. DOMAIN << >> = {} /\ FlattenSeq(<< >>) = << >> /\ IsSeq(<< >>)
  BY NothingYet, FlatChosen
<1>1. Payloads(<< >>) /\ Calls(<< >>) = {}
  BY <1>0 DEF Payloads, Calls
<1>2. ToolEvents(<< >>) = << >>
  <2>1. [i \in DOMAIN << >> |-> extractToolEvents(<< >>[i])] = << >>
    OBVIOUS
  <2> QED BY <1>0, <2>1 DEF ToolEvents
<1>3. ASSUME NEW key PROVE OwedArgs(<< >>, key) = << >>
  <2>1. [i \in DOMAIN << >> |->
            IF << >>[i].kind = "args" /\ << >>[i].key = key /\ \E k \in 1..(i - 1) : StartsIn(<< >>, k, key)
            THEN << >>[i].args ELSE << >>] = << >>
    OBVIOUS
  <2> QED BY <1>0, <2>1 DEF OwedArgs
<1>4. ASSUME NEW client, NEW up PROVE OwedText(<< >>, client, up) = << >>
  <2>1. [i \in DOMAIN << >> |->
            IF client = "messages" /\ Calls(ToolEvents(SubSeq(<< >>, 1, i))) # {} THEN << >>
            ELSE TextOf(<< >>[i], up)] = << >>
    OBVIOUS
  <2> QED BY <1>0, <2>1 DEF OwedText
<1>5. \A up : LastFinish(<< >>, up) = ""
  BY <1>0 DEF LastFinish
<1> QED BY <1>1, <1>2, <1>3, <1>4, <1>5
-----------------------------------------------------------------------------
(* What a converter says of what it was told *)

\* Texts and arguments are pieces.
Pieces(out) == IsSeq(out) /\ SayPieces(out, "text") /\ SayPieces(out, "args")

\* o says of texts and arguments what out does.
Besides(out, o) ==
    /\ Pieces(o)
    /\ \A at : SaidIn(o, "text", at) = SaidIn(out, "text", at) /\ SaidIn(o, "args", at) = SaidIn(out, "args", at)

\* Every reason among the events is the one that is given.
Reasons(out, reason) == \A i \in DOMAIN out : out[i].ev = "finish" => out[i].say = reason

\* There is none.
Unended(out) == \A i \in DOMAIN out : out[i].ev # "finish"

LEMMA PlusBesides ==
    ASSUME NEW out, Pieces(out), NEW e
    PROVE  /\ e.ev \notin {"text", "args"} => Besides(out, Plus(out, e))
           /\ Unended(out) /\ e.ev # "finish" => Unended(Plus(out, e))
           /\ \A say : Reasons(out, say) /\ (e.ev = "finish" => e.say = say) => Reasons(Plus(out, e), say)
           /\ \A say : Unended(out) => Reasons(out, say)
<1>1. PICK o : o = Plus(out, e)
  OBVIOUS
<1>2. PICK n \in Nat : n = Len(out)
  BY Appended DEF Pieces
<1>3. /\ DOMAIN out = 1..n /\ DOMAIN o = 1..n + 1 /\ o[n + 1] = e /\ IsSeq(o)
      /\ \A i \in 1..n : o[i] = out[i]
  BY <1>1, <1>2, Appended DEF Pieces
<1>4. \A i \in 1..n + 1 : i = n + 1 \/ i \in 1..n
  OBVIOUS
<1>5. ASSUME e.ev \notin {"text", "args"} PROVE Besides(out, o)
  <2>1. ASSUME NEW ev \in {"text", "args"}, NEW at
        PROVE  SayPieces(o, ev) /\ SaidIn(o, ev, at) = SaidIn(out, ev, at)
    <3>1. IsSeq(out) /\ SayPieces(out, ev) /\ e.ev # ev
      BY <1>5 DEF Pieces
    <3> QED BY <1>1, <3>1, SaidGrows
  <2> QED BY <1>3, <2>1 DEF Besides, Pieces
<1>6. Unended(out) /\ e.ev # "finish" => Unended(o)
  BY <1>3, <1>4 DEF Unended
<1>7. \A say : Reasons(out, say) /\ (e.ev = "finish" => e.say = say) => Reasons(o, say)
  BY <1>3, <1>4 DEF Reasons
<1>8. \A say : Unended(out) => Reasons(out, say)
  BY DEF Reasons, Unended
<1> QED BY <1>1, <1>5, <1>6, <1>7, <1>8

LEMMA BesidesBesides == \A out, o, x : Besides(out, o) /\ Besides(o, x) => Besides(out, x)
  BY DEF Besides

\* What is said of a kind when an event is added.
Longer(out, e, kind) ==
    \A at : /\ SayPieces(Plus(out, e), kind)
            /\ SaidIn(Plus(out, e), kind, at) = SaidIn(out, kind, at) \o Share(e, kind, at)
            /\ e.ev # kind \/ e.at # at => SaidIn(Plus(out, e), kind, at) = SaidIn(out, kind, at)

LEMMA SaidMore == \A out, e : Pieces(out) /\ e.say \in Seq(Piece) => Longer(out, e, "text") /\ Longer(out, e, "args")
<1> SUFFICES ASSUME NEW out, Pieces(out), NEW e, e.say \in Seq(Piece)
             PROVE  Longer(out, e, "text") /\ Longer(out, e, "args")
  OBVIOUS
<1>1. IsSeq(out) /\ SayPieces(out, "text") /\ SayPieces(out, "args")
  BY DEF Pieces
<1>2. ASSUME NEW at
      PROVE  /\ SayPieces(Plus(out, e), "text")
             /\ SaidIn(Plus(out, e), "text", at) = SaidIn(out, "text", at) \o Share(e, "text", at)
             /\ e.ev # "text" \/ e.at # at => SaidIn(Plus(out, e), "text", at) = SaidIn(out, "text", at)
  BY <1>1, SaidGrows
<1>3. ASSUME NEW at
      PROVE  /\ SayPieces(Plus(out, e), "args")
             /\ SaidIn(Plus(out, e), "args", at) = SaidIn(out, "args", at) \o Share(e, "args", at)
             /\ e.ev # "args" \/ e.at # at => SaidIn(Plus(out, e), "args", at) = SaidIn(out, "args", at)
  BY <1>1, SaidGrows
<1> QED BY <1>2, <1>3 DEF Longer

\* A text, or arguments, more.
SaysOnly(out, e) ==
    /\ Pieces(Plus(out, e)) /\ (Unended(out) => Unended(Plus(out, e)))
    /\ \A at : SaidIn(Plus(out, e), e.ev, at) =
                 IF at = e.at THEN SaidIn(out, e.ev, at) \o e.say ELSE SaidIn(out, e.ev, at)
    /\ \A other \in {"text", "args"} : other # e.ev =>
         \A at : SaidIn(Plus(out, e), other, at) = SaidIn(out, other, at)

LEMMA PlusSays ==
    \A out, e : Pieces(out) /\ e.say \in Seq(Piece) /\ e.ev \in {"text", "args"} => SaysOnly(out, e)
<1> SUFFICES ASSUME NEW out, Pieces(out), NEW e, e.say \in Seq(Piece), e.ev \in {"text", "args"}
             PROVE  SaysOnly(out, e)
  OBVIOUS
<1>1. PICK o : o = Plus(out, e)
  OBVIOUS
<1>2. \A kind \in {"text", "args"} : \A at :
             /\ SayPieces(o, kind)
             /\ SaidIn(o, kind, at) = SaidIn(out, kind, at) \o Share(e, kind, at)
             /\ e.ev # kind \/ e.at # at => SaidIn(o, kind, at) = SaidIn(out, kind, at)
  <2>1. Longer(out, e, "text") /\ Longer(out, e, "args")
    BY SaidMore
  <2>2. ASSUME NEW kind \in {"text", "args"} PROVE Longer(out, e, kind)
    BY <2>1
  <2> QED BY <1>1, <2>2 DEF Longer
<1>3. Pieces(o)
  BY <1>1, <1>2, Appended DEF Pieces
<1>4. Unended(out) => Unended(o)
  BY <1>1, PlusBesides
<1>5. \A at : at = e.at => Share(e, e.ev, at) = e.say
  BY DEF Share
<1>6. ASSUME NEW at
      PROVE  SaidIn(o, e.ev, at) = IF at = e.at THEN SaidIn(out, e.ev, at) \o e.say ELSE SaidIn(out, e.ev, at)
  <2>1. /\ SaidIn(o, e.ev, at) = SaidIn(out, e.ev, at) \o Share(e, e.ev, at)
        /\ e.at # at => SaidIn(o, e.ev, at) = SaidIn(out, e.ev, at)
    BY <1>2
  <2>2. CASE at = e.at
    BY <1>5, <2>1, <2>2
  <2>3. CASE at # e.at
    BY <2>1, <2>3
  <2> QED BY <2>2, <2>3
<1>7. \A other \in {"text", "args"} : other # e.ev => \A at : SaidIn(o, other, at) = SaidIn(out, other, at)
  BY <1>2
<1> QED BY <1>1, <1>3, <1>4, <1>6, <1>7 DEF SaysOnly

\* The calls announced are those the upstream announced, numbered each for
\* itself, and each has been given the arguments it is owed.
Calling(c, said) ==
    /\ Pieces(c.out) /\ Unended(c.out) /\ c.next \in Nat
    /\ DOMAIN c.tools = Calls(said)
    /\ \A key \in DOMAIN c.tools : c.tools[key] \in Nat /\ c.tools[key] < c.next
    /\ \A key, other \in DOMAIN c.tools : c.tools[key] = c.tools[other] => key = other
    /\ \A at : SaidIn(c.out, "args", at) # << >> => \E key \in DOMAIN c.tools : c.tools[key] = at
    /\ \A key : OwedArgs(said, key) = IF key \in DOMAIN c.tools THEN SaidIn(c.out, "args", c.tools[key]) ELSE << >>

\* What a converter makes of a tool event: an announcement, arguments, nothing.
Announces(c, d, e) ==
    /\ e.kind = "start" /\ e.key \notin DOMAIN c.tools /\ d.next = c.next + 1
    /\ DOMAIN d.tools = DOMAIN c.tools \union {e.key} /\ d.tools[e.key] = c.next
    /\ \A k \in DOMAIN c.tools : k # e.key => d.tools[k] = c.tools[k]
    /\ Besides(c.out, d.out) /\ Unended(d.out)

Gives(c, d, e) ==
    /\ e.kind # "start" /\ e.key \in DOMAIN c.tools /\ d.next = c.next /\ d.tools = c.tools
    /\ \E v : v.ev = "args" /\ v.at = c.tools[e.key] /\ v.say = e.args /\ d.out = Plus(c.out, v)

Ignores(c, d, e) == d = c /\ (e.kind = "start") = (e.key \in DOMAIN c.tools)

LEMMA CallingKept ==
    ASSUME NEW c, NEW said, Calling(c, said), NEW d, d.tools = c.tools, d.next \in Nat,
           d.next >= c.next \/ DOMAIN c.tools = {}, Pieces(d.out), Unended(d.out),
           \A at : SaidIn(d.out, "args", at) = SaidIn(c.out, "args", at)
    PROVE  Calling(d, said)
<1>1. \A key \in DOMAIN c.tools : c.tools[key] < d.next
  BY DEF Calling
<1> QED BY <1>1 DEF Calling

LEMMA CallingTool ==
    ASSUME NEW c, NEW said \in Seq(Said), Calling(c, said), NEW d, NEW e \in Said,
           Announces(c, d, e) \/ Gives(c, d, e) \/ Ignores(c, d, e)
    PROVE  Calling(d, Plus(said, e))
<1>0. e.kind \in {"start", "args"} /\ e.args \in Seq(Piece) /\ IsSeq(said)
  BY DEF Said, IsSeq
<1>1. PICK more : more = Plus(said, e)
  OBVIOUS
<1>2. Calls(more) = IF e.kind = "start" THEN Calls(said) \union {e.key} ELSE Calls(said)
  BY <1>0, <1>1, CallsGrow
<1>3. /\ \A key : OwedArgs(more, key) = OwedArgs(said, key) \o Given(said, e, key)
      /\ \A at : SaidIn(c.out, "args", at) \in Seq(Piece)
  <2>1. \A key : OwedArgs(more, key) = OwedArgs(said, key) \o Given(said, e, key)
    BY <1>1, OwedArgsGrow
  <2>2. ASSUME NEW at PROVE SaidIn(c.out, "args", at) \in Seq(Piece)
    <3>1. PICK v : v.ev = "none"
      <4>1. [ev |-> "none"].ev = "none"
        OBVIOUS
      <4> QED BY <4>1
    <3>2. IsSeq(c.out) /\ SayPieces(c.out, "args")
      BY DEF Calling, Pieces
    <3> QED BY <3>1, <3>2, SaidGrows
  <2> QED BY <2>1, <2>2
<1>4. ASSUME NEW key, Given(said, e, key) = << >> PROVE OwedArgs(more, key) = OwedArgs(said, key)
  <2>1. OwedArgs(said, key) \in Seq(Piece)
    <3>1. << >> \in Seq(Piece)
      BY EmptySeq
    <3>2. OwedArgs(said, key) = IF key \in DOMAIN c.tools THEN SaidIn(c.out, "args", c.tools[key]) ELSE << >>
      BY DEF Calling
    <3> QED BY <1>3, <3>1, <3>2
  <2>2. OwedArgs(more, key) = OwedArgs(said, key) \o << >>
    BY <1>3, <1>4
  <2> QED BY <2>1, <2>2, ConcatEmptySeq
<1>5. CASE Announces(c, d, e)
  <2>1. \A key : OwedArgs(more, key) = OwedArgs(said, key)
    BY <1>4, <1>5 DEF Announces, Given
  <2>2. DOMAIN d.tools = Calls(more)
    BY <1>2, <1>5 DEF Announces, Calling
  <2>3. \A key \in DOMAIN d.tools : key = e.key \/ (key # e.key /\ key \in DOMAIN c.tools /\ d.tools[key] = c.tools[key])
    BY <1>5 DEF Announces
  <2>4. d.tools[e.key] = c.next /\ c.next \in Nat /\ d.next = c.next + 1
    BY <1>5 DEF Announces, Calling
  <2>5. \A key \in DOMAIN d.tools : d.tools[key] \in Nat /\ d.tools[key] < d.next
    BY <2>3, <2>4 DEF Calling
  <2>6. \A key \in DOMAIN c.tools : c.tools[key] # c.next
    BY <2>4 DEF Calling
  <2>7. \A key, other \in DOMAIN d.tools : d.tools[key] = d.tools[other] => key = other
    BY <2>3, <2>4, <2>6 DEF Calling
  <2>8. \A at : SaidIn(d.out, "args", at) = SaidIn(c.out, "args", at)
    BY <1>5 DEF Announces, Besides
  <2>9. SaidIn(c.out, "args", c.next) = << >>
    BY <2>6 DEF Calling
  <2>10. e.key \notin DOMAIN c.tools /\ \A k \in DOMAIN c.tools : k \in DOMAIN d.tools /\ d.tools[k] = c.tools[k]
    BY <1>5 DEF Announces
  <2>11. \A at : SaidIn(d.out, "args", at) # << >> => \E key \in DOMAIN d.tools : d.tools[key] = at
    BY <2>8, <2>10 DEF Calling
  <2>12. ASSUME NEW key
         PROVE  OwedArgs(more, key) = IF key \in DOMAIN d.tools THEN SaidIn(d.out, "args", d.tools[key]) ELSE << >>
    <3>1. CASE key = e.key
      <4>1. key \in DOMAIN d.tools /\ key \notin DOMAIN c.tools
        BY <1>5, <3>1 DEF Announces
      <4>2. OwedArgs(said, key) = << >>
        BY <4>1 DEF Calling
      <4> QED BY <2>1, <2>4, <2>8, <2>9, <3>1, <4>1, <4>2
    <3>2. CASE key # e.key
      <4>1. key \in DOMAIN d.tools <=> key \in DOMAIN c.tools
        BY <1>5, <3>2 DEF Announces
      <4> QED BY <2>1, <2>8, <2>10, <4>1 DEF Calling
    <3> QED BY <3>1, <3>2
  <2>13. Pieces(d.out) /\ Unended(d.out) /\ d.next \in Nat
    BY <1>5, <2>4 DEF Announces, Besides
  <2> QED BY <1>1, <2>2, <2>5, <2>7, <2>11, <2>12, <2>13 DEF Calling
<1>6. CASE Gives(c, d, e)
  <2>1. PICK v : v.ev = "args" /\ v.at = c.tools[e.key] /\ v.say = e.args /\ d.out = Plus(c.out, v)
    BY <1>6 DEF Gives
  <2>2. /\ Pieces(d.out) /\ Unended(d.out)
        /\ \A at : SaidIn(d.out, "args", at) =
                     IF at = v.at THEN SaidIn(c.out, "args", at) \o v.say ELSE SaidIn(c.out, "args", at)
    <3>1. Pieces(c.out) /\ Unended(c.out) /\ v.say \in Seq(Piece)
      BY <1>0, <2>1 DEF Calling
    <3>2. PICK out : out = c.out
      OBVIOUS
    <3>3. Pieces(out) /\ v.say \in Seq(Piece) /\ v.ev = "args"
      BY <2>1, <3>1, <3>2
    <3>4. v.ev \in {"text", "args"}
      BY <3>3
    <3>5. /\ Pieces(Plus(out, v)) /\ (Unended(out) => Unended(Plus(out, v)))
          /\ \A at : SaidIn(Plus(out, v), v.ev, at) =
                       IF at = v.at THEN SaidIn(out, v.ev, at) \o v.say ELSE SaidIn(out, v.ev, at)
      <4>1. SaysOnly(out, v)
        BY <3>3, <3>4, PlusSays
      <4> QED BY <4>1 DEF SaysOnly
    <3>6. \A at : SaidIn(Plus(out, v), "args", at) =
                       IF at = v.at THEN SaidIn(out, "args", at) \o v.say ELSE SaidIn(out, "args", at)
      BY <3>3, <3>5
    <3> QED BY <2>1, <3>1, <3>2, <3>5, <3>6
  <2>3. e.kind = "args" /\ e.key \in DOMAIN c.tools /\ d.tools = c.tools /\ d.next = c.next /\ e.key \in Calls(said)
    BY <1>0, <1>6 DEF Gives, Calling
  <2>4. DOMAIN d.tools = Calls(more)
    BY <1>2, <2>3 DEF Calling
  <2>5. \A at : SaidIn(d.out, "args", at) # << >> => \E key \in DOMAIN d.tools : d.tools[key] = at
    BY <2>1, <2>2, <2>3 DEF Calling
  <2>6. ASSUME NEW key
        PROVE  OwedArgs(more, key) = IF key \in DOMAIN d.tools THEN SaidIn(d.out, "args", d.tools[key]) ELSE << >>
    <3>1. CASE key = e.key
      <4>1. Given(said, e, key) = e.args
        BY <2>3, <3>1 DEF Given
      <4>2. OwedArgs(said, key) = SaidIn(c.out, "args", c.tools[key])
        BY <2>3, <3>1 DEF Calling
      <4>3. SaidIn(d.out, "args", d.tools[key]) = SaidIn(c.out, "args", c.tools[key]) \o e.args
        BY <2>1, <2>2, <2>3, <3>1
      <4> QED BY <1>3, <2>3, <3>1, <4>1, <4>2, <4>3
    <3>2. CASE key # e.key
      <4>1. OwedArgs(more, key) = OwedArgs(said, key)
        BY <1>4, <3>2 DEF Given
      <4>2. key \in DOMAIN c.tools => c.tools[key] # v.at
        BY <2>1, <2>3, <3>2 DEF Calling
      <4> QED BY <2>2, <2>3, <4>1, <4>2 DEF Calling
    <3> QED BY <3>1, <3>2
  <2> QED BY <1>1, <2>2, <2>3, <2>4, <2>5, <2>6 DEF Calling
<1>7. CASE Ignores(c, d, e)
  <2>1. d = c /\ Calls(more) = Calls(said)
    BY <1>2, <1>7 DEF Ignores, Calling
  <2>2. ASSUME NEW key PROVE OwedArgs(more, key) = OwedArgs(said, key)
    <3>1. Given(said, e, key) = << >>
      BY <1>7 DEF Ignores, Given, Calling
    <3> QED BY <1>4, <3>1
  <2> QED BY <1>1, <2>1, <2>2 DEF Calling
<1> QED BY <1>5, <1>6, <1>7
-----------------------------------------------------------------------------
(* What a converter makes of a payload *)

\* The item a client's text is said of.
Place(c) == IF c.client = "responses" THEN c.msgOut ELSE 0

\* d announces no call and says nothing that c has not.
Aside(c, d) ==
    /\ Written(d) /\ d.client = c.client /\ d.text = c.text /\ d.emitted = c.emitted /\ d.tools = c.tools
    /\ d.next \in Nat /\ (d.next >= c.next \/ DOMAIN c.tools = {})
    /\ Besides(c.out, d.out) /\ Unended(d.out)

LEMMA AsideCalls == \A c, d, said : Calling(c, said) /\ Aside(c, d) => Calling(d, said)
<1> SUFFICES ASSUME NEW c, NEW d, NEW said, Calling(c, said), Aside(c, d) PROVE Calling(d, said)
  OBVIOUS
<1>1. /\ d.tools = c.tools /\ d.next \in Nat /\ (d.next >= c.next \/ DOMAIN c.tools = {})
      /\ Pieces(d.out) /\ Unended(d.out)
      /\ \A at : SaidIn(d.out, "args", at) = SaidIn(c.out, "args", at)
  BY DEF Aside, Besides
<1> QED BY <1>1, CallingKept

LEMMA EmitRest ==
    ASSUME NEW c, Written(c), NEW events
    PROVE  Rest(c, Emit(c, events)) /\ Written(Emit(c, events))
  BY DEF Emit, Written, Rest

\* An announcement, with what is written for it.
LEMMA AnnouncesAll ==
    ASSUME NEW c, Written(c), NEW d, NEW e, e.kind = "start", e.key \notin DOMAIN c.tools,
           d.next = c.next + 1, d.tools = Announce(c, e.key).tools, Besides(c.out, d.out), Unended(d.out)
    PROVE  Announces(c, d, e)
<1>1. PICK key, a : key = e.key /\ a = Announce(c, key)
  OBVIOUS
<1>2. /\ DOMAIN a.tools = DOMAIN c.tools \union {key} /\ a.tools[key] = c.next
      /\ \A k \in DOMAIN c.tools : k # key => a.tools[k] = c.tools[k]
  BY <1>1, Announced
<1> QED BY <1>1, <1>2 DEF Announces

\* What an announcement leaves alone.
LEMMA AnnounceRest ==
    ASSUME NEW c, Written(c), NEW key
    PROVE  LET a == Announce(c, key) IN
           /\ Written(a) /\ a.out = c.out /\ a.next = c.next + 1 /\ a.text = c.text /\ a.emitted = c.emitted
           /\ a.msgOut = c.msgOut
  BY DEF Announce, Written

\* d is what a converter makes of a tool event.
Tooled(c, d, e) ==
    /\ Announces(c, d, e) \/ Gives(c, d, e) \/ Ignores(c, d, e)
    /\ Written(d) /\ d.text = c.text /\ d.emitted = c.emitted /\ d.msgOut = c.msgOut

LEMMA EmitGives ==
    ASSUME NEW c, Written(c), NEW e, e.kind # "start", e.key \in DOMAIN c.tools
    PROVE  Tooled(c, Emit(c, <<Event("args", c.tools[e.key], e.args)>>), e)
<1>1. PICK v : v = Event("args", c.tools[e.key], e.args)
  OBVIOUS
<1>2. v.ev = "args" /\ v.at = c.tools[e.key] /\ v.say = e.args
  BY <1>1 DEF Event
<1>3. PICK d : d = Emit(c, <<v>>)
  OBVIOUS
<1>4. Written(d) /\ d.out = Plus(c.out, v) /\ d.tools = c.tools /\ d.next = c.next
  BY <1>3, EmitOne
<1>5. d.text = c.text /\ d.emitted = c.emitted /\ d.msgOut = c.msgOut
  BY <1>3, EmitRest DEF Rest
<1> QED BY <1>1, <1>2, <1>3, <1>4, <1>5 DEF Tooled, Gives

LEMMA ChatToolWrites ==
    ASSUME NEW c, Written(c), Pieces(c.out), Unended(c.out), NEW e
    PROVE  Tooled(c, chatTool(c, e), e)
<1>1. CASE e.kind = "start" /\ e.key \notin DOMAIN c.tools
  <2>1. PICK a : a = Announce(c, e.key)
    OBVIOUS
  <2>2. PICK v : v = Event("call", c.next, << >>)
    OBVIOUS
  <2>3. v.ev = "call"
    BY <2>2 DEF Event
  <2>4. PICK d : d = Emit(a, <<v>>)
    OBVIOUS
  <2>5. /\ Written(a) /\ a.out = c.out /\ a.next = c.next + 1 /\ a.text = c.text /\ a.emitted = c.emitted
        /\ a.msgOut = c.msgOut
    BY <2>1, AnnounceRest
  <2>6. Written(d) /\ d.out = Plus(c.out, v) /\ d.tools = a.tools /\ d.next = c.next + 1
    BY <2>4, <2>5, EmitOne
  <2>7. d.text = c.text /\ d.emitted = c.emitted /\ d.msgOut = c.msgOut
    BY <2>4, <2>5, EmitRest DEF Rest
  <2>8. Besides(c.out, d.out) /\ Unended(d.out)
    BY <2>3, <2>6, PlusBesides
  <2>9. Announces(c, d, e)
    BY <1>1, <2>1, <2>6, <2>8, AnnouncesAll
  <2>10. chatTool(c, e) = d
    BY <1>1, <2>1, <2>2, <2>4 DEF chatTool
  <2> QED BY <2>6, <2>7, <2>9, <2>10 DEF Tooled
<1>2. CASE e.kind # "start" /\ e.key \in DOMAIN c.tools
  BY <1>2, EmitGives DEF chatTool
<1>3. CASE (e.kind = "start") = (e.key \in DOMAIN c.tools)
  BY <1>3 DEF chatTool, Tooled, Ignores
<1> QED BY <1>1, <1>2, <1>3

LEMMA MessagesToolWrites ==
    ASSUME NEW c, Written(c), MessagesBegun(c), Pieces(c.out), Unended(c.out), NEW e
    PROVE  Tooled(c, messagesTool(c, e), e)
<1>1. CASE e.kind = "start" /\ e.key \notin DOMAIN c.tools
  <2>1. PICK b : b = Announce(c, e.key)
    OBVIOUS
  <2>2. PICK a : a = [b EXCEPT !.textOpen = FALSE, !.openTool = c.next]
    OBVIOUS
  <2>3. PICK v, w : /\ v = Event("block_stop", IF c.textOpen THEN 0 ELSE c.openTool, << >>)
                    /\ w = Event("block_start", c.next, "tool")
    OBVIOUS
  <2>4. v.ev = "block_stop" /\ w.ev = "block_start"
    BY <2>3 DEF Event
  <2>5. PICK q : q = <<v, w>>
    OBVIOUS
  <2>6. messagesTool(c, e) = Emit(a, q)
    <3>1. PICK q1 : q1 = IF c.textOpen THEN <<Event("block_stop", 0, << >>)>> ELSE << >>
      OBVIOUS
    <3>2. PICK q2 : q2 = IF c.openTool >= 0 THEN <<Event("block_stop", c.openTool, << >>)>> ELSE << >>
      OBVIOUS
    <3>3. messagesTool(c, e) = Emit(a, q1 \o q2 \o <<w>>)
      BY <1>1, <2>1, <2>2, <2>3, <3>1, <3>2 DEF messagesTool
    <3>4. q1 \o q2 = <<v>>
      <4>1. CASE c.textOpen
        <5>1. q1 = <<v>> /\ q2 = << >>
          BY <2>3, <3>1, <3>2, <4>1 DEF MessagesBegun, None
        <5> QED BY <5>1, Joined
      <4>2. CASE ~c.textOpen
        <5>1. q1 = << >> /\ q2 = <<v>>
          BY <2>3, <3>1, <3>2, <4>2 DEF MessagesBegun
        <5> QED BY <5>1, Joined
      <4> QED BY <4>1, <4>2
    <3>5. q1 \o q2 \o <<w>> = q
      BY <2>5, <3>4, Joined
    <3> QED BY <3>3, <3>5
  <2>7. /\ Written(b) /\ b.out = c.out /\ b.next = c.next + 1 /\ b.text = c.text /\ b.emitted = c.emitted
        /\ b.msgOut = c.msgOut
    BY <2>1, AnnounceRest
  <2>8. /\ Written(a) /\ a.out = c.out /\ a.next = c.next + 1 /\ a.text = c.text /\ a.emitted = c.emitted
        /\ a.msgOut = c.msgOut /\ a.tools = b.tools
    BY <2>2, <2>7 DEF Written
  <2>9. PICK d : d = Emit(a, q)
    OBVIOUS
  <2>10. PICK o : o = Plus(c.out, v)
    OBVIOUS
  <2>11. d.out = Plus(o, w)
    <3>1. d.out = c.out \o q
      <4>1. Written(a) /\ a.out = c.out
        BY <2>8
      <4>2. Emit(a, q).out = a.out \o q
        BY <4>1, EmitKept
      <4> QED BY <2>9, <4>1, <4>2
    <3>2. IsSeq(c.out)
      BY DEF Pieces
    <3> QED BY <2>5, <2>10, <3>1, <3>2, OneByOne
  <2>12. Written(d) /\ d.tools = b.tools /\ d.next = c.next + 1 /\ d.text = c.text /\ d.emitted = c.emitted
         /\ d.msgOut = c.msgOut
    BY <2>8, <2>9, EmitRest DEF Rest
  <2>13. Besides(c.out, o) /\ Unended(o) /\ Pieces(o)
    BY <2>4, <2>10, PlusBesides DEF Besides
  <2>14. Besides(o, d.out) /\ Unended(d.out)
    BY <2>4, <2>11, <2>13, PlusBesides
  <2>15. Besides(c.out, d.out)
    BY <2>13, <2>14, BesidesBesides
  <2>16. Announces(c, d, e)
    BY <1>1, <2>1, <2>12, <2>14, <2>15, AnnouncesAll
  <2> QED BY <2>6, <2>9, <2>12, <2>16 DEF Tooled
<1>2. CASE e.kind # "start" /\ e.key \in DOMAIN c.tools
  BY <1>2, EmitGives DEF messagesTool
<1>3. CASE (e.kind = "start") = (e.key \in DOMAIN c.tools)
  BY <1>3 DEF messagesTool, Tooled, Ignores
<1> QED BY <1>1, <1>2, <1>3

LEMMA ResponsesToolWrites ==
    ASSUME NEW c, Written(c), DOMAIN c.callArgs = DOMAIN c.tools, Pieces(c.out), Unended(c.out), NEW e
    PROVE  Tooled(c, responsesTool(c, e), e)
<1>1. CASE e.kind = "start" /\ e.key \notin DOMAIN c.tools
  <2>1. PICK a : a = Announce(c, e.key)
    OBVIOUS
  <2>2. PICK b : b = [a EXCEPT !.callArgs = With(c.callArgs, e.key, << >>)]
    OBVIOUS
  <2>3. /\ Written(a) /\ a.out = c.out /\ a.next = c.next + 1 /\ a.text = c.text /\ a.emitted = c.emitted
        /\ a.msgOut = c.msgOut
    BY <2>1, AnnounceRest
  <2>4. /\ Written(b) /\ b.out = c.out /\ b.next = c.next + 1 /\ b.text = c.text /\ b.emitted = c.emitted
        /\ b.msgOut = c.msgOut /\ b.tools = a.tools
    BY <2>2, <2>3 DEF Written
  <2>5. PICK d : d = EmitNumbered(b, <<Event("item_added", c.next, "call")>>)
    OBVIOUS
  <2>6. PICK v : v.ev = "item_added" /\ d.out = Plus(b.out, v) /\ Written(d) /\ Rest(b, d)
    BY <2>4, <2>5, NumberedOne
  <2>7. responsesTool(c, e) = d
    BY <1>1, <2>1, <2>2, <2>5 DEF responsesTool
  <2>8. /\ d.out = Plus(c.out, v) /\ d.tools = a.tools /\ d.next = c.next + 1
        /\ d.text = c.text /\ d.emitted = c.emitted /\ d.msgOut = c.msgOut
    BY <2>4, <2>6 DEF Rest
  <2>9. Besides(c.out, d.out) /\ Unended(d.out)
    BY <2>6, <2>8, PlusBesides
  <2>10. Announces(c, d, e)
    BY <1>1, <2>1, <2>8, <2>9, AnnouncesAll
  <2> QED BY <2>6, <2>7, <2>8, <2>10 DEF Tooled
<1>2. CASE e.kind # "start" /\ e.key \in DOMAIN c.tools
  <2>1. PICK b : b = [c EXCEPT !.callArgs[e.key] = @ \o e.args]
    OBVIOUS
  <2>2. /\ Written(b) /\ b.out = c.out /\ b.next = c.next /\ b.text = c.text /\ b.emitted = c.emitted
        /\ b.msgOut = c.msgOut /\ b.tools = c.tools
    BY <2>1 DEF Written
  <2>3. PICK d : d = EmitNumbered(b, <<Event("args", c.tools[e.key], e.args)>>)
    OBVIOUS
  <2>4. PICK v : v.ev = "args" /\ v.at = c.tools[e.key] /\ v.say = e.args /\ d.out = Plus(b.out, v) /\ Written(d) /\ Rest(b, d)
    BY <2>2, <2>3, NumberedOne
  <2>5. responsesTool(c, e) = d
    BY <1>2, <2>1, <2>3 DEF responsesTool
  <2>6. /\ d.out = Plus(c.out, v) /\ d.tools = c.tools /\ d.next = c.next
        /\ d.text = c.text /\ d.emitted = c.emitted /\ d.msgOut = c.msgOut
    BY <2>2, <2>4 DEF Rest
  <2>7. Gives(c, d, e)
    BY <1>2, <2>4, <2>6 DEF Gives
  <2> QED BY <2>4, <2>5, <2>6, <2>7 DEF Tooled
<1>3. CASE (e.kind = "start") = (e.key \in DOMAIN c.tools)
  BY <1>3 DEF responsesTool, Tooled, Ignores
<1> QED BY <1>1, <1>2, <1>3

\* A tool event, whoever the client is.
LEMMA ToolHeeds ==
    ASSUME NEW c, c.client \in {"chat", "messages", "responses"}, Feeding(c), Told(c),
           NEW said \in Seq(Said), Calling(c, said), NEW e \in Said
    PROVE  LET d == Tool(c, e) IN
           /\ Written(d) /\ Calling(d, Plus(said, e)) /\ d.emitted = c.emitted
           /\ SaidIn(d.out, "text", Place(d)) = SaidIn(c.out, "text", Place(c))
<1>1. PICK d : d = Tool(c, e)
  OBVIOUS
<1>2. Written(c) /\ Pieces(c.out) /\ Unended(c.out)
  BY DEF Feeding, ChatOpen, MessagesOpen, ResponsesOpen, Calling
<1>3. Tooled(c, d, e)
  <2>1. CASE c.client = "chat"
    BY <1>1, <1>2, <2>1, ChatToolWrites DEF Tool
  <2>2. CASE c.client = "messages"
    <3>1. MessagesBegun(c)
      BY <2>2 DEF Feeding, MessagesOpen
    <3> QED BY <1>1, <1>2, <2>2, <3>1, MessagesToolWrites DEF Tool
  <2>3. CASE c.client = "responses"
    <3>1. DOMAIN c.callArgs = DOMAIN c.tools
      BY <2>3 DEF Feeding, ResponsesOpen, ResponsesBegun, Remembered
    <3> QED BY <1>1, <1>2, <2>3, <3>1, ResponsesToolWrites DEF Tool
  <2> QED BY <2>1, <2>2, <2>3
<1>4. Calling(d, Plus(said, e))
  BY <1>3, CallingTool DEF Tooled
<1>5. \A at : SaidIn(d.out, "text", at) = SaidIn(c.out, "text", at)
  <2>1. CASE Announces(c, d, e)
    BY <2>1 DEF Announces, Besides
  <2>2. CASE Gives(c, d, e)
    <3>1. PICK v : v.ev = "args" /\ v.say = e.args /\ d.out = Plus(c.out, v)
      BY <2>2 DEF Gives
    <3>2. v.say \in Seq(Piece) /\ v.ev \in {"text", "args"} /\ "text" # v.ev
      BY <3>1 DEF Said
    <3>3. SaysOnly(c.out, v)
      BY <1>2, <3>2, PlusSays
    <3> QED BY <3>1, <3>2, <3>3 DEF SaysOnly
  <2>3. CASE Ignores(c, d, e)
    BY <2>3 DEF Ignores
  <2> QED BY <1>3, <2>1, <2>2, <2>3 DEF Tooled
<1>6. Place(d) = Place(c)
  <2>1. d.client = c.client
    BY <1>1, SameTool DEF Same
  <2> QED BY <1>3, <2>1 DEF Place, Tooled
<1> QED BY <1>1, <1>3, <1>4, <1>5, <1>6 DEF Tooled
-----------------------------------------------------------------------------
\* An event that is neither text nor arguments nor the reason.
LEMMA OneBeside ==
    ASSUME NEW c, Pieces(c.out), Unended(c.out), c.next \in Nat,
           NEW d, Written(d), d.client = c.client, d.text = c.text, d.emitted = c.emitted, d.tools = c.tools,
           d.next \in Nat, d.next >= c.next, NEW v, v.ev \notin {"text", "args", "finish"}, d.out = Plus(c.out, v)
    PROVE  Aside(c, d)
<1>1. Besides(c.out, d.out) /\ Unended(d.out)
  BY PlusBesides
<1> QED BY <1>1 DEF Aside

LEMMA MessagesHeadAside ==
    ASSUME NEW c, MessagesOpen(c), Pieces(c.out), Unended(c.out), c.next \in Nat
    PROVE  Aside(c, messagesHead(c)) /\ messagesHead(c).msgOut = c.msgOut
<1>0. Written(c) /\ Besides(c.out, c.out)
  BY DEF MessagesOpen, Besides
<1>1. CASE c.started
  BY <1>0, <1>1 DEF messagesHead, Aside
<1>2. CASE ~c.started
  <2>1. PICK v, w : v = Event("message_start", 0, << >>) /\ w = Event("block_start", 0, "text")
    OBVIOUS
  <2>2. v.ev = "message_start" /\ w.ev = "block_start"
    BY <2>1 DEF Event
  <2>3. PICK q : q = <<v, w>>
    OBVIOUS
  <2>4. PICK b : b = Emit(c, q)
    OBVIOUS
  <2>5. PICK d : d = [b EXCEPT !.started = TRUE, !.textOpen = TRUE, !.openTool = None, !.next = 1]
    OBVIOUS
  <2>6. messagesHead(c) = d
    BY <1>2, <2>1, <2>3, <2>4, <2>5 DEF messagesHead
  <2>7. Written(b) /\ Rest(c, b) /\ b.out = c.out \o q
    BY <1>0, <2>4, EmitRest, EmitKept
  <2>8. /\ Written(d) /\ d.client = c.client /\ d.text = c.text /\ d.emitted = c.emitted /\ d.tools = c.tools
        /\ d.msgOut = c.msgOut /\ d.next = 1 /\ d.out = c.out \o q
    BY <2>5, <2>7 DEF Written, Rest
  <2>9. PICK o : o = Plus(c.out, v)
    OBVIOUS
  <2>10. d.out = Plus(o, w)
    <3>1. PICK out : out = c.out /\ IsSeq(out)
      BY DEF Pieces
    <3>2. out \o <<v, w>> = Plus(Plus(out, v), w)
      BY <3>1, OneByOne
    <3> QED BY <2>3, <2>8, <2>9, <3>1, <3>2
  <2>11. Besides(c.out, o) /\ Unended(o) /\ Pieces(o)
    BY <2>2, <2>9, PlusBesides DEF Besides
  <2>12. Besides(o, d.out) /\ Unended(d.out)
    BY <2>2, <2>10, <2>11, PlusBesides
  <2>13. Besides(c.out, d.out)
    BY <2>11, <2>12, BesidesBesides
  <2>14. DOMAIN c.tools = {}
    BY <1>2 DEF MessagesOpen, AnyTool
  <2> QED BY <2>6, <2>8, <2>12, <2>13, <2>14 DEF Aside
<1> QED BY <1>1, <1>2

LEMMA ResponsesHeadAside ==
    ASSUME NEW c, Written(c), Pieces(c.out), Unended(c.out), c.next \in Nat
    PROVE  Aside(c, responsesHead(c)) /\ responsesHead(c).msgOut = c.msgOut
<1>0. Besides(c.out, c.out)
  BY DEF Besides
<1>1. CASE c.started
  BY <1>0, <1>1 DEF responsesHead, Aside
<1>2. CASE ~c.started
  <2>1. PICK e, f : e = Event("created", 0, << >>) /\ f = Event("in_progress", 0, << >>)
    OBVIOUS
  <2>2. PICK v, w : /\ v = [e EXCEPT !.seq = c.seq + 1 - 1] /\ w = [f EXCEPT !.seq = c.seq + 2 - 1]
                    /\ Numbered(c, <<e, f>>) = <<v, w>>
    <3>1. \E v, w : /\ v = [e EXCEPT !.seq = c.seq + 1 - 1] /\ w = [f EXCEPT !.seq = c.seq + 2 - 1]
                    /\ Numbered(c, <<e, f>>) = <<v, w>>
      BY NumberedTwo
    <3> QED BY <3>1
  <2>3. v.ev = "created" /\ w.ev = "in_progress"
    BY <2>1, <2>2 DEF Event
  <2>4. PICK q : q = <<v, w>>
    OBVIOUS
  <2>5. PICK b : b = Emit(c, q)
    OBVIOUS
  <2>6. PICK d : d = responsesHead(c)
    OBVIOUS
  <2>7. \E n : d = [[b EXCEPT !.seq = n] EXCEPT !.started = TRUE]
    BY <1>2, <2>1, <2>2, <2>4, <2>5, <2>6 DEF responsesHead, EmitNumbered
  <2>8. Written(b) /\ Rest(c, b) /\ b.out = c.out \o q
    BY <2>5, EmitRest, EmitKept
  <2>9. /\ Written(d) /\ d.client = c.client /\ d.text = c.text /\ d.emitted = c.emitted /\ d.tools = c.tools
        /\ d.msgOut = c.msgOut /\ d.next = c.next /\ d.out = c.out \o q
    BY <2>7, <2>8 DEF Written, Rest
  <2>10. PICK o : o = Plus(c.out, v)
    OBVIOUS
  <2>11. d.out = Plus(o, w)
    <3>1. PICK out : out = c.out /\ IsSeq(out)
      BY DEF Pieces
    <3>2. out \o <<v, w>> = Plus(Plus(out, v), w)
      BY <3>1, OneByOne
    <3> QED BY <2>4, <2>9, <2>10, <3>1, <3>2
  <2>12. Besides(c.out, o) /\ Unended(o) /\ Pieces(o)
    BY <2>3, <2>10, PlusBesides DEF Besides
  <2>13. Besides(o, d.out) /\ Unended(d.out)
    BY <2>3, <2>11, <2>12, PlusBesides
  <2>14. Besides(c.out, d.out)
    BY <2>12, <2>13, BesidesBesides
  <2> QED BY <2>6, <2>9, <2>13, <2>14 DEF Aside
<1> QED BY <1>1, <1>2

\* The head of a stream says nothing.
LEMMA OpenAside ==
    ASSUME NEW c, c.client \in {"chat", "messages", "responses"}, Written(c), Pieces(c.out), Unended(c.out),
           c.next \in Nat, c.client = "messages" => MessagesOpen(c)
    PROVE  Aside(c, Open(c)) /\ Open(c).msgOut = c.msgOut
<1>1. CASE c.client = "chat"
  <2>1. PICK d : d = chatHead(c)
    OBVIOUS
  <2>2. /\ Written(d) /\ d.client = c.client /\ d.text = c.text /\ d.emitted = c.emitted /\ d.tools = c.tools
        /\ d.msgOut = c.msgOut /\ d.next = c.next /\ d.out = c.out
    BY <2>1 DEF chatHead, Written
  <2>3. Besides(c.out, d.out) /\ Unended(d.out)
    BY <2>2 DEF Besides
  <2>4. Open(c) = d
    BY <1>1, <2>1 DEF Open
  <2> QED BY <2>2, <2>3, <2>4 DEF Aside
<1>2. CASE c.client = "messages"
  BY <1>2, MessagesHeadAside DEF Open
<1>3. CASE c.client = "responses"
  BY <1>3, ResponsesHeadAside DEF Open
<1> QED BY <1>1, <1>2, <1>3

\* So do the announcements of the message item and of its part.
LEMMA MessageAside ==
    ASSUME NEW c, Written(c), Pieces(c.out), Unended(c.out), c.next \in Nat
    PROVE  Aside(c, ensureMsg(c)) /\ Aside(c, ensurePart(c))
<1>0. Aside(c, c)
  BY DEF Aside, Besides
<1>1. Aside(c, ensureMsg(c))
  <2>1. CASE c.msgOut # None
    BY <1>0, <2>1 DEF ensureMsg
  <2>2. CASE c.msgOut = None
    <3>1. PICK b : b = [c EXCEPT !.msgOut = c.next, !.next = @ + 1]
      OBVIOUS
    <3>2. /\ Written(b) /\ b.client = c.client /\ b.out = c.out /\ b.next = c.next + 1
          /\ b.tools = c.tools /\ b.text = c.text /\ b.emitted = c.emitted
      BY <3>1 DEF Written
    <3>3. PICK d : d = EmitNumbered(b, <<Event("item_added", c.next, "message")>>)
      OBVIOUS
    <3>4. PICK v : v.ev = "item_added" /\ d.out = Plus(b.out, v) /\ Written(d) /\ Rest(b, d)
      BY <3>2, <3>3, NumberedOne
    <3>5. /\ d.client = c.client /\ d.text = c.text /\ d.emitted = c.emitted /\ d.tools = c.tools
          /\ d.next \in Nat /\ d.next >= c.next /\ d.out = Plus(c.out, v)
      BY <3>2, <3>4 DEF Rest
    <3>6. Aside(c, d)
      BY <3>4, <3>5, OneBeside
    <3> QED BY <2>2, <3>1, <3>3, <3>6 DEF ensureMsg
  <2> QED BY <2>1, <2>2
<1>2. Aside(c, ensurePart(c))
  <2>1. CASE c.part
    BY <1>0, <2>1 DEF ensurePart
  <2>2. CASE ~c.part
    <3>1. PICK b : b = [c EXCEPT !.part = TRUE]
      OBVIOUS
    <3>2. /\ Written(b) /\ b.client = c.client /\ b.out = c.out /\ b.next = c.next
          /\ b.tools = c.tools /\ b.text = c.text /\ b.emitted = c.emitted
      BY <3>1 DEF Written
    <3>3. PICK d : d = EmitNumbered(b, <<Event("part_added", c.msgOut, << >>)>>)
      OBVIOUS
    <3>4. PICK v : v.ev = "part_added" /\ d.out = Plus(b.out, v) /\ Written(d) /\ Rest(b, d)
      BY <3>2, <3>3, NumberedOne
    <3>5. /\ d.client = c.client /\ d.text = c.text /\ d.emitted = c.emitted /\ d.tools = c.tools
          /\ d.next \in Nat /\ d.next >= c.next /\ d.out = Plus(c.out, v)
      BY <3>2, <3>4 DEF Rest
    <3>6. Aside(c, d)
      BY <3>4, <3>5, OneBeside
    <3> QED BY <2>2, <3>1, <3>3, <3>6 DEF ensurePart
  <2> QED BY <2>1, <2>2
<1> QED BY <1>1, <1>2

\* A text that is written.
MoreText(c, said, d, v) ==
    /\ Calling(c, said) /\ d.tools = c.tools /\ d.next = c.next
    /\ v.ev = "text" /\ v.say \in Seq(Piece) /\ d.out = Plus(c.out, v)
TextGrown(c, d, v) ==
    \A at : SaidIn(d.out, "text", at) =
              IF at = v.at THEN SaidIn(c.out, "text", at) \o v.say ELSE SaidIn(c.out, "text", at)

LEMMA SayText == \A c, said, d, v : MoreText(c, said, d, v) => Calling(d, said) /\ TextGrown(c, d, v)
<1> SUFFICES ASSUME NEW c, NEW said, Calling(c, said), NEW d, d.tools = c.tools, d.next = c.next,
                    NEW v, v.ev = "text", v.say \in Seq(Piece), d.out = Plus(c.out, v)
             PROVE  Calling(d, said) /\ TextGrown(c, d, v)
  BY DEF MoreText
<1>1. PICK out : out = c.out
  OBVIOUS
<1>2. Pieces(out) /\ Unended(out) /\ v.ev \in {"text", "args"} /\ c.next \in Nat
  BY <1>1 DEF Calling
<1>3. /\ Pieces(Plus(out, v)) /\ (Unended(out) => Unended(Plus(out, v)))
      /\ \A at : SaidIn(Plus(out, v), v.ev, at) =
                   IF at = v.at THEN SaidIn(out, v.ev, at) \o v.say ELSE SaidIn(out, v.ev, at)
      /\ \A other \in {"text", "args"} : other # v.ev =>
           \A at : SaidIn(Plus(out, v), other, at) = SaidIn(out, other, at)
  <2>1. SaysOnly(out, v)
    BY <1>2, PlusSays
  <2> QED BY <2>1 DEF SaysOnly
<1>4. \A at : SaidIn(d.out, "args", at) = SaidIn(c.out, "args", at)
  BY <1>1, <1>3
<1>5. Pieces(d.out) /\ Unended(d.out)
  BY <1>1, <1>2, <1>3
<1>6. Calling(d, said)
  BY <1>2, <1>4, <1>5, CallingKept
<1>7. \A at : SaidIn(d.out, "text", at) =
                IF at = v.at THEN SaidIn(c.out, "text", at) \o v.say ELSE SaidIn(c.out, "text", at)
  BY <1>1, <1>3
<1> QED BY <1>6, <1>7 DEF TextGrown
-----------------------------------------------------------------------------
\* What is pending.
LEMMA Pending ==
    ASSUME NEW c, c.text \in Seq(Piece), c.emitted \in 0..Len(c.text)
    PROVE  /\ Suffix(c) \in Seq(Piece) /\ (Suffix(c) = << >> => c.emitted = Len(c.text))
           /\ TextTo(c.text, c.emitted) \o Suffix(c) = c.text
           /\ c.emitted = Len(c.text) => Suffix(c) = << >>
<1>1. PICK s, n : s \in Seq(Piece) /\ n \in 0..Len(s) /\ s = c.text /\ n = c.emitted
  OBVIOUS
<1>2. /\ TextTo(s, n) \o TextFrom(s, n) = s /\ TextFrom(s, n) \in Seq(Piece)
      /\ TextFrom(s, n) = << >> => n = Len(s)
  BY <1>1, TextParts
<1>3. Suffix(c) = TextFrom(s, n)
  BY <1>1 DEF Suffix, TextFrom
<1>4. n = Len(s) => SubSeq(s, n + 1, Len(s)) = << >>
  <2>1. PICK m \in Nat : m = Len(s)
    BY <1>1, LenProperties
  <2>2. SubSeq(s, m + 1, m) = << >>
    BY <2>1, SubSeqEmpty
  <2> QED BY <2>1, <2>2
<1> QED BY <1>1, <1>2, <1>3, <1>4 DEF TextFrom

\* A text written at once.
LEMMA EmitText ==
    ASSUME NEW c, Written(c), NEW said, Calling(c, said), Suffix(c) \in Seq(Piece)
    PROVE  LET d == Taken(Emit(c, <<Event("text", 0, Suffix(c))>>)) IN
           /\ Written(d) /\ Calling(d, said) /\ d.client = c.client /\ d.emitted = Len(d.text)
           /\ SaidIn(d.out, "text", 0) = SaidIn(c.out, "text", 0) \o Suffix(c)
<1>1. PICK v : v = Event("text", 0, Suffix(c))
  OBVIOUS
<1>2. v.ev = "text" /\ v.at = 0 /\ v.say = Suffix(c)
  BY <1>1 DEF Event
<1>3. PICK b : b = Emit(c, <<v>>)
  OBVIOUS
<1>4. Written(b) /\ b.out = Plus(c.out, v) /\ b.tools = c.tools /\ b.next = c.next /\ b.client = c.client
  BY <1>3, EmitOne
<1>5. PICK d : d = Taken(b)
  OBVIOUS
<1>6. /\ Written(d) /\ d.out = Plus(c.out, v) /\ d.tools = c.tools /\ d.next = c.next /\ d.client = c.client
      /\ d.emitted = Len(d.text)
  BY <1>4, <1>5 DEF Taken, Written
<1>7. /\ Calling(d, said)
      /\ \A at : SaidIn(d.out, "text", at) =
                   IF at = v.at THEN SaidIn(c.out, "text", at) \o v.say ELSE SaidIn(c.out, "text", at)
  <2>1. v.ev = "text" /\ v.say \in Seq(Piece)
    BY <1>2
  <2>2. Calling(c, said) /\ d.tools = c.tools /\ d.next = c.next /\ d.out = Plus(c.out, v)
    BY <1>6
  <2>3. MoreText(c, said, d, v)
    BY <2>1, <2>2 DEF MoreText
  <2>4. Calling(d, said) /\ TextGrown(c, d, v)
    BY <2>3, SayText
  <2> QED BY <2>4 DEF TextGrown
<1>8. SaidIn(d.out, "text", 0) = SaidIn(c.out, "text", 0) \o Suffix(c)
  BY <1>2, <1>7
<1> QED BY <1>1, <1>3, <1>5, <1>6, <1>7, <1>8

LEMMA TakenRest ==
    ASSUME NEW c, Written(c), NEW said, Calling(c, said)
    PROVE  LET d == Taken(c) IN
           /\ Written(d) /\ Calling(d, said) /\ d.client = c.client /\ d.emitted = Len(d.text)
           /\ d.out = c.out /\ d.tools = c.tools /\ d.msgOut = c.msgOut
<1>1. PICK d : d = Taken(c)
  OBVIOUS
<1>2. /\ Written(d) /\ d.client = c.client /\ d.emitted = Len(d.text) /\ d.next = c.next
      /\ d.out = c.out /\ d.tools = c.tools /\ d.msgOut = c.msgOut
  BY <1>1 DEF Taken, Written
<1>3. Calling(d, said)
  BY <1>2 DEF Calling
<1> QED BY <1>1, <1>2, <1>3

\* What is new of the text is written, all of it.
Unsaid(c, said) ==
    /\ c.client \in {"chat", "messages", "responses"} /\ Feeding(c) /\ Told(c) /\ Calling(c, said)
    /\ c.text \in Seq(Piece) /\ c.emitted \in 0..Len(c.text)

TextSaid(c, d, said) ==
    /\ Written(d) /\ Calling(d, said) /\ d.emitted = Len(d.text)
    /\ SaidIn(d.out, "text", Place(d)) =
         SaidIn(c.out, "text", Place(c)) \o (IF c.client = "messages" /\ AnyTool(c) THEN << >> ELSE Suffix(c))

LEMMA TextSays == \A c, said : Unsaid(c, said) => TextSaid(c, Text(c), said)
<1> USE DEF Unsaid, TextSaid
<1> SUFFICES ASSUME NEW c, NEW said, Unsaid(c, said) PROVE TextSaid(c, Text(c), said)
  OBVIOUS
<1>1. PICK d : d = Text(c)
  OBVIOUS
<1>2. Suffix(c) \in Seq(Piece) /\ (Suffix(c) = << >> => c.emitted = Len(c.text))
  BY Pending
<1>3. Written(c) /\ SayPieces(c.out, "text") /\ IsSeq(c.out)
  BY DEF Feeding, ChatOpen, MessagesOpen, ResponsesOpen, Calling, Pieces
<1>4. \A at : SaidIn(c.out, "text", at) \o << >> = SaidIn(c.out, "text", at)
  <2>1. ASSUME NEW at PROVE SaidIn(c.out, "text", at) \in Seq(Piece)
    <3>1. PICK v : v.ev = "none"
      <4>1. [ev |-> "none"].ev = "none"
        OBVIOUS
      <4> QED BY <4>1
    <3> QED BY <1>3, <3>1, SaidGrows
  <2> QED BY <2>1, ConcatEmptySeq
<1>5. CASE c.client = "chat"
  <2>1. Place(c) = 0
    BY <1>5 DEF Place
  <2>2. CASE Suffix(c) = << >>
    <3>1. d = c
      BY <1>1, <1>5, <2>2 DEF Text, chatText
    <3> QED BY <1>1, <1>2, <1>3, <1>4, <1>5, <2>2, <3>1
  <2>3. CASE Suffix(c) # << >>
    <3>1. d = Taken(Emit(c, <<Event("text", 0, Suffix(c))>>))
      BY <1>1, <1>5, <2>3 DEF Text, chatText
    <3>2. /\ Written(d) /\ Calling(d, said) /\ d.client = c.client /\ d.emitted = Len(d.text)
          /\ SaidIn(d.out, "text", 0) = SaidIn(c.out, "text", 0) \o Suffix(c)
      BY <1>2, <1>3, <2>1, <3>1, EmitText
    <3>3. Place(d) = 0
      BY <1>5, <3>2 DEF Place
    <3> QED BY <1>1, <1>5, <2>1, <3>2, <3>3
  <2> QED BY <2>2, <2>3
<1>6. CASE c.client = "messages"
  <2>1. Place(c) = 0
    BY <1>6 DEF Place
  <2>2. CASE Suffix(c) # << >> /\ ~AnyTool(c)
    <3>1. d = Taken(Emit(c, <<Event("text", 0, Suffix(c))>>))
      BY <1>1, <1>6, <2>2 DEF Text, messagesText
    <3>2. /\ Written(d) /\ Calling(d, said) /\ d.client = c.client /\ d.emitted = Len(d.text)
          /\ SaidIn(d.out, "text", 0) = SaidIn(c.out, "text", 0) \o Suffix(c)
      BY <1>2, <1>3, <2>1, <3>1, EmitText
    <3>3. Place(d) = 0
      BY <1>6, <3>2 DEF Place
    <3> QED BY <1>1, <2>1, <2>2, <3>2, <3>3
  <2>3. CASE Suffix(c) = << >> \/ AnyTool(c)
    <3>1. d = Taken(c)
      BY <1>1, <1>6, <2>3 DEF Text, messagesText
    <3>2. /\ Written(d) /\ Calling(d, said) /\ d.client = c.client /\ d.emitted = Len(d.text)
          /\ d.out = c.out
      BY <1>3, <3>1, TakenRest
    <3>3. Place(d) = 0
      BY <1>6, <3>2 DEF Place
    <3> QED BY <1>1, <1>4, <1>6, <2>1, <2>3, <3>2, <3>3
  <2> QED BY <2>2, <2>3
<1>7. CASE c.client = "responses"
  <2>1. ResponsesOpen(c) /\ c.started /\ Spoken(c) /\ d = responsesText(c)
    BY <1>1, <1>7 DEF Feeding, Text
  <2>2. ResponsesOpen(d) /\ Spoken(d) /\ d.emitted = Len(d.text)
    BY <2>1, ResponsesTexts
  <2>3. d.text = c.text /\ d.client = c.client
    BY <2>1, SameText DEF Same
  <2>4. SaidIn(d.out, "text", Place(d)) = SaidIn(c.out, "text", Place(c)) \o Suffix(c)
    <3>1. SaidIn(c.out, "text", c.msgOut) \o Suffix(c) = c.text
      BY <2>1, Pending DEF Spoken
    <3>2. SaidIn(d.out, "text", d.msgOut) = d.text
      BY <2>2, TextParts DEF Spoken
    <3> QED BY <1>7, <2>3, <3>1, <3>2 DEF Place
  <2>5. Calling(d, said)
    <3>1. CASE Suffix(c) = << >>
      BY <2>1, <3>1 DEF responsesText
    <3>2. CASE Suffix(c) # << >>
      <4>1. PICK m : m = ensureMsg(c)
        OBVIOUS
      <4>2. Aside(c, m)
        BY <1>3, <4>1, MessageAside DEF Calling
      <4>3. Calling(m, said) /\ Written(m)
        BY <4>2, AsideCalls DEF Aside
      <4>4. PICK t : t = ensurePart(m)
        OBVIOUS
      <4>5. Aside(m, t)
        BY <4>3, <4>4, MessageAside DEF Calling
      <4>6. Calling(t, said) /\ Written(t) /\ t.text = c.text /\ t.emitted = c.emitted
        BY <4>2, <4>3, <4>5, AsideCalls DEF Aside
      <4>7. Suffix(t) = Suffix(c)
        BY <4>6 DEF Suffix
      <4>8. PICK b : b = EmitNumbered(t, <<Event("text", t.msgOut, Suffix(t))>>)
        OBVIOUS
      <4>9. PICK v : v.ev = "text" /\ v.say = Suffix(t) /\ b.out = Plus(t.out, v) /\ Written(b) /\ Rest(t, b)
        BY <4>6, <4>8, NumberedOne
      <4>10. v.say \in Seq(Piece) /\ b.tools = t.tools /\ b.next = t.next
        BY <1>2, <4>7, <4>9 DEF Rest
      <4>11. Calling(b, said)
        <5>1. MoreText(t, said, b, v)
          BY <4>6, <4>9, <4>10 DEF MoreText
        <5> QED BY <5>1, SayText
      <4>12. d = Taken(b)
        BY <2>1, <3>2, <4>1, <4>4, <4>8 DEF responsesText
      <4> QED BY <4>9, <4>11, <4>12, TakenRest
    <3> QED BY <3>1, <3>2
  <2>6. Written(d)
    BY <2>2 DEF ResponsesOpen
  <2> QED BY <1>1, <1>7, <2>2, <2>4, <2>5, <2>6
<1> QED BY <1>5, <1>6, <1>7

\* What is parsed of a payload.
LEMMA ParseHeeds ==
    ASSUME NEW c, Written(c), c.text \in Seq(Piece), c.finish \in Finish, NEW p, IsPayload(p)
    PROVE  LET d == parse(c, p) IN
           /\ d.text = c.text \o TextOf(p, c.up) /\ TextOf(p, c.up) \in Seq(Piece)
           /\ d.emitted = c.emitted /\ d.up = c.up
           /\ d.finish = (IF Ends(p, c.up) THEN p.finish ELSE c.finish) /\ d.finish \in Finish
<1>1. c.text \o << >> = c.text /\ << >> \in Seq(Piece)
  BY ConcatEmptySeq, EmptySeq
<1>2. PICK d : d = parse(c, p)
  OBVIOUS
<1>3. CASE p = Torn
  BY <1>1, <1>3 DEF parse, TextOf, Ends
<1>4. CASE p # Torn /\ c.up # "messages"
  <2>1. p.text \in Seq(Piece) /\ p.finish \in Finish
    BY <1>4 DEF IsPayload
  <2>2. d = openaiFeed(c, p)
    BY <1>2, <1>4 DEF parse
  <2>3. /\ d.text = c.text \o p.text /\ d.emitted = c.emitted /\ d.up = c.up
        /\ d.finish = IF p.finish # "" THEN p.finish ELSE c.finish
    BY <2>2 DEF openaiFeed, Written
  <2> QED BY <1>2, <1>4, <2>1, <2>3 DEF TextOf, Ends
<1>5. CASE p # Torn /\ c.up = "messages"
  <2>1. p.text \in Seq(Piece) /\ p.finish \in Finish
    BY <1>5 DEF IsPayload
  <2>2. d = anthropicFeed(c, p)
    BY <1>2, <1>5 DEF parse
  <2>3. CASE p.type = "content_block_delta"
    <3>1. d.text = c.text \o p.text /\ d.emitted = c.emitted /\ d.up = c.up /\ d.finish = c.finish
      BY <2>2, <2>3 DEF anthropicFeed, Written
    <3> QED BY <1>2, <1>5, <2>1, <2>3, <3>1 DEF TextOf, Ends
  <2>4. CASE p.type = "message_delta"
    <3>1. /\ d.text = c.text /\ d.emitted = c.emitted /\ d.up = c.up
          /\ d.finish = IF p.finish # "" THEN p.finish ELSE c.finish
      BY <2>2, <2>4 DEF anthropicFeed, Written
    <3> QED BY <1>1, <1>2, <1>5, <2>1, <2>4, <3>1 DEF TextOf, Ends
  <2>5. CASE p.type \notin {"content_block_delta", "message_delta"}
    <3>1. d.text = c.text /\ d.emitted = c.emitted /\ d.up = c.up /\ d.finish = c.finish
      BY <2>2, <2>5 DEF anthropicFeed, Written
    <3> QED BY <1>1, <1>2, <1>5, <2>1, <2>5, <3>1 DEF TextOf, Ends
  <2> QED BY <2>3, <2>4, <2>5
<1> QED BY <1>3, <1>4, <1>5
-----------------------------------------------------------------------------
\* Between payloads: what was heard of the upstream has been told the client,
\* and the reason it gave is known.
Heeds(c, ps) ==
    /\ Written(c) /\ Calling(c, ToolEvents(ps)) /\ c.emitted = Len(c.text)
    /\ SaidIn(c.out, "text", Place(c)) = OwedText(ps, c.client, c.up)
    /\ c.finish = LastFinish(ps, c.up) /\ c.finish \in Finish

LEMMA SuffixIs ==
    ASSUME NEW S, NEW s \in Seq(S), NEW r \in Seq(S)
    PROVE  SubSeq(s \o r, Len(s) + 1, Len(s \o r)) = r /\ Len(s) \in 0..Len(s \o r)
<1>1. PICK k \in Nat : k = Len(s)
  OBVIOUS
<1>2. PICK m \in Nat : m = Len(r)
  OBVIOUS
<1>3. PICK t : t = s \o r
  OBVIOUS
<1>4. t \in Seq(S) /\ Len(t) = k + m /\ \A i \in 1..k + m : t[i] = IF i <= k THEN s[i] ELSE r[i - k]
  BY <1>1, <1>2, <1>3, ConcatProperties
<1>5. PICK u : u = SubSeq(t, k + 1, k + m)
  OBVIOUS
<1>6. u \in Seq(S) /\ Len(u) = m /\ \A i \in 1..m : u[i] = t[k + i]
  BY <1>4, <1>5, SubSeqProperties
<1>7. ASSUME NEW i \in 1..m PROVE u[i] = r[i]
  <2>1. k + i \in 1..k + m /\ ~(k + i <= k) /\ k + i - k = i
    OBVIOUS
  <2>2. PICK j : j = k + i
    OBVIOUS
  <2>3. t[j] = r[i]
    BY <1>4, <2>1, <2>2
  <2> QED BY <1>6, <2>2, <2>3
<1>8. u = r
  BY <1>2, <1>6, <1>7, SeqEqual
<1>9. k \in 0..k + m
  OBVIOUS
<1> QED BY <1>1, <1>3, <1>4, <1>5, <1>8, <1>9

LEMMA AsidePlace ==
    ASSUME NEW c, NEW d, Aside(c, d), d.msgOut = c.msgOut
    PROVE  SaidIn(d.out, "text", Place(d)) = SaidIn(c.out, "text", Place(c))
<1>1. Place(d) = Place(c)
  BY DEF Aside, Place
<1>2. \A at : SaidIn(d.out, "text", at) = SaidIn(c.out, "text", at)
  BY DEF Aside, Besides
<1> QED BY <1>1, <1>2

LEMMA FeedHeeds ==
    ASSUME NEW c, ConvType(c), c.client # "native", Framing(c), NEW ps, Payloads(ps), Heeds(c, ps),
           NEW p, IsPayload(p)
    PROVE  Heeds(Feed(c, p), Plus(ps, p)) /\ Feed(c, p).up = c.up
<1>0. PICK d, base, more : d = parse(c, p) /\ base = ToolEvents(ps) /\ more = Plus(ps, p)
  OBVIOUS
<1>1. Written(c) /\ c.text \in Seq(Piece) /\ c.finish \in Finish /\ c.emitted = Len(c.text)
  BY DEF Heeds, ConvType
<1>2. ConvType(d) /\ d.client = c.client /\ d.client \in {"chat", "messages", "responses"}
  BY <1>0, ParseType DEF ConvType
<1>3. Kept(c, d)
  BY <1>0, <1>1, ParseKept
<1>4. /\ d.text = c.text \o TextOf(p, c.up) /\ TextOf(p, c.up) \in Seq(Piece)
      /\ d.emitted = c.emitted /\ d.up = c.up
      /\ d.finish = (IF Ends(p, c.up) THEN p.finish ELSE c.finish) /\ d.finish \in Finish
  BY <1>0, <1>1, ParseHeeds
<1>5. Calling(d, base) /\ Written(d) /\ d.msgOut = c.msgOut /\ d.out = c.out
  BY <1>0, <1>3 DEF Heeds, Calling, Kept
<1>6. PICK o : o = Open(d)
  OBVIOUS
<1>7. Aside(d, o) /\ o.msgOut = d.msgOut
  <2>1. d.client = "messages" => MessagesOpen(d)
    BY <1>2, <1>3, MessagesKept DEF Framing
  <2>2. Pieces(d.out) /\ Unended(d.out) /\ d.next \in Nat
    BY <1>5 DEF Calling
  <2> QED BY <1>2, <1>5, <1>6, <2>1, <2>2, OpenAside
<1>8. Feeding(o) /\ Same(d, o)
  BY <1>0, <1>2, <1>6, OpenFeeds, SameOpen DEF ConvType
<1>9. Calling(o, base) /\ o.emitted = c.emitted /\ Written(o)
  BY <1>4, <1>5, <1>7, AsideCalls DEF Aside
<1>10. SaidIn(o.out, "text", Place(o)) = SaidIn(c.out, "text", Place(c))
  <2>1. SaidIn(o.out, "text", Place(o)) = SaidIn(d.out, "text", Place(d))
    BY <1>7, AsidePlace
  <2>2. Place(d) = Place(c)
    BY <1>2, <1>5 DEF Place
  <2> QED BY <1>5, <2>1, <2>2
<1>11. PICK q : q = extractToolEvents(p) /\ q \in Seq(Said)
  <2>1. IsPayload(p)
    BY <1>0
  <2>2. extractToolEvents(p) \in Seq(Said)
    BY <2>1, ExtractType, ZenonT(30)
  <2> QED BY <2>2
<1>12. PICK n \in Nat : n = Len(q) /\ DOMAIN q = 1..n
  <2>1. Len(q) \in Nat /\ DOMAIN q = 1..Len(q)
    BY <1>11, LenProperties
  <2> QED BY <2>1
<1>13. PICK h : IsRun(h, o, q, n)
  BY <1>12, FoldSteps
<1>14. base \in Seq(Said) /\ ToolEvents(more) = base \o q /\ Payloads(more)
  BY <1>0, <1>11, ToolEventsGrow
<1> DEFINE Going(x, i) == /\ Same(d, x) /\ Feeding(x) /\ Calling(x, base \o TextTo(q, i)) /\ x.emitted = c.emitted
                          /\ SaidIn(x.out, "text", Place(x)) = SaidIn(c.out, "text", Place(c))
           T == {i \in Nat : i <= n => Going(h[i], i)}
<1>15. 0 \in T
  <2>1. h[0] = o
    BY <1>13 DEF IsRun
  <2>2. base \o TextTo(q, 0) = base
    <3>1. TextTo(q, 0) = << >>
      BY SubSeqEmpty DEF TextTo
    <3> QED BY <1>14, <3>1, ConcatEmptySeq
  <2> QED BY <1>8, <1>9, <1>10, <2>1, <2>2
<1>16. ASSUME NEW i \in Nat, i \in T PROVE i + 1 \in T
  <2> SUFFICES ASSUME i + 1 <= n PROVE Going(h[i + 1], i + 1)
    OBVIOUS
  <2>1. PICK x, e, said : x = h[i] /\ e = q[i + 1] /\ said = base \o TextTo(q, i)
    OBVIOUS
  <2>2. i < n /\ Going(x, i)
    BY <1>16, <2>1
  <2>3. Told(x) /\ x.client = d.client
    BY <2>2, SameSame
  <2>4. /\ e \in Said /\ TextTo(q, i) \in Seq(Said)
        /\ \A b \in Seq(Said) : b \o TextTo(q, i + 1) = Plus(b \o TextTo(q, i), e)
    <3>1. i \in Nat /\ i < Len(q) /\ q \in Seq(Said)
      BY <1>11, <1>12, <2>2
    <3>2. /\ TextTo(q, i) \in Seq(Said) /\ q[i + 1] \in Said
          /\ \A b \in Seq(Said) : b \o TextTo(q, i + 1) = Plus(b \o TextTo(q, i), q[i + 1])
      BY <3>1, NextGrows
    <3> QED BY <2>1, <3>2
  <2>5. base \o TextTo(q, i + 1) = Plus(said, e)
    BY <1>14, <2>1, <2>4
  <2>6. said \in Seq(Said)
    BY <1>14, <2>1, <2>4, ConcatProperties
  <2>7. e.args \in Seq(Piece)
    BY <2>4 DEF Said
  <2>8. PICK y : y = Tool(x, e)
    OBVIOUS
  <2>9. Feeding(y) /\ Same(x, y)
    BY <1>2, <2>2, <2>3, <2>7, <2>8, ToolFeeds, SameTool
  <2>10. /\ Written(y) /\ Calling(y, Plus(said, e)) /\ y.emitted = x.emitted
         /\ SaidIn(y.out, "text", Place(y)) = SaidIn(x.out, "text", Place(x))
    <3>1. Calling(x, said) /\ Feeding(x) /\ x.client \in {"chat", "messages", "responses"}
      BY <1>2, <2>1, <2>2, <2>3
    <3> QED BY <2>3, <2>4, <2>6, <2>8, <3>1, ToolHeeds
  <2>11. Same(d, y)
    BY <2>2, <2>9, SameSame
  <2>12. h[i + 1] = y
    BY <1>13, <2>1, <2>2, <2>8 DEF IsRun
  <2> QED BY <2>2, <2>5, <2>9, <2>10, <2>11, <2>12
<1> HIDE DEF T
<1>17. n \in T
  BY <1>15, <1>16, NatRange
<1>18. PICK x : x = h[n]
  OBVIOUS
<1>19. Going(x, n)
  BY <1>17, <1>18 DEF T
<1>20. Calling(x, ToolEvents(more))
  <2>1. TextTo(q, n) = q
    <3>1. n \in 0..Len(q)
      BY <1>12
    <3> QED BY <1>11, <1>12, <3>1, TextParts
  <2> QED BY <1>14, <1>19, <2>1
<1>21. /\ Told(x) /\ x.client = c.client /\ x.up = c.up /\ x.text = d.text /\ x.finish = d.finish
       /\ x.emitted = Len(c.text)
  BY <1>1, <1>2, <1>4, <1>19 DEF Same
<1>22. x.text \in Seq(Piece) /\ x.emitted \in 0..Len(x.text) /\ Suffix(x) = TextOf(p, c.up)
  <2>1. PICK s, r : s \in Seq(Piece) /\ r \in Seq(Piece) /\ s = c.text /\ r = TextOf(p, c.up)
    BY <1>1, <1>4
  <2>2. s \o r \in Seq(Piece) /\ SubSeq(s \o r, Len(s) + 1, Len(s \o r)) = r /\ Len(s) \in 0..Len(s \o r)
    <3>1. s \in Seq(Piece) /\ r \in Seq(Piece)
      BY <2>1
    <3>2. s \o r \in Seq(Piece)
      BY <3>1, ConcatProperties
    <3>3. SubSeq(s \o r, Len(s) + 1, Len(s \o r)) = r /\ Len(s) \in 0..Len(s \o r)
      BY <3>1, SuffixIs
    <3> QED BY <3>2, <3>3
  <2>3. x.text = s \o r /\ x.emitted = Len(s)
    BY <1>4, <1>21, <2>1
  <2> QED BY <2>1, <2>2, <2>3 DEF Suffix
<1>23. PICK y : y = Text(x)
  OBVIOUS
<1>24. Same(x, y)
  BY <1>2, <1>21, <1>23, SameText DEF Text
<1>25. /\ Written(y) /\ Calling(y, ToolEvents(more)) /\ y.emitted = Len(y.text)
       /\ SaidIn(y.out, "text", Place(y)) =
            SaidIn(x.out, "text", Place(x)) \o (IF x.client = "messages" /\ AnyTool(x) THEN << >> ELSE Suffix(x))
  <2>1. x.client \in {"chat", "messages", "responses"} /\ Feeding(x)
    BY <1>2, <1>19, <1>21
  <2>2. PICK said : said = ToolEvents(more) /\ Calling(x, said)
    BY <1>20
  <2>3. Unsaid(x, said)
    BY <1>21, <1>22, <2>1, <2>2 DEF Unsaid
  <2>4. TextSaid(x, y, said)
    BY <1>23, <2>3, TextSays
  <2> QED BY <2>2, <2>4 DEF TextSaid
<1>26. SaidIn(y.out, "text", Place(y)) = OwedText(more, y.client, y.up)
  <2>1. AnyTool(x) <=> Calls(ToolEvents(more)) # {}
    BY <1>20 DEF Calling, AnyTool
  <2>2. OwedText(more, c.client, c.up) =
          OwedText(ps, c.client, c.up)
          \o (IF c.client = "messages" /\ Calls(ToolEvents(more)) # {} THEN << >> ELSE TextOf(p, c.up))
    <3>1. Payloads(ps) /\ IsPayload(p) /\ more = Plus(ps, p)
      BY <1>0
    <3>2. OwedMore(ps, p, c.client, c.up)
      BY <3>1, OwedTextGrows
    <3> QED BY <3>1, <3>2 DEF OwedMore
  <2>3. SaidIn(x.out, "text", Place(x)) = OwedText(ps, c.client, c.up)
    BY <1>19 DEF Heeds
  <2>4. y.client = c.client /\ y.up = c.up
    BY <1>21, <1>24 DEF Same
  <2> QED BY <1>21, <1>22, <1>25, <2>1, <2>2, <2>3, <2>4
<1>27. y.finish = LastFinish(more, y.up) /\ y.finish \in Finish
  <2>1. y.finish = d.finish /\ y.up = c.up
    BY <1>21, <1>24 DEF Same
  <2>2. LastFinish(more, c.up) = IF Ends(p, c.up) THEN p.finish ELSE LastFinish(ps, c.up)
    BY <1>0, LastFinishGrows
  <2> QED BY <1>4, <2>1, <2>2 DEF Heeds
<1>28. Feed(c, p) = y
  BY <1>0, <1>6, <1>11, <1>13, <1>18, <1>23, FeedTools DEF IsRun
<1>29. y.up = c.up
  BY <1>21, <1>24 DEF Same
<1> QED BY <1>0, <1>25, <1>26, <1>27, <1>28, <1>29 DEF Heeds

\* A payload that is torn says nothing.
LEMMA TornHeeds ==
    ASSUME NEW c, ConvType(c), c.client # "native", Framing(c), NEW ps, Payloads(ps), Heeds(c, ps)
    PROVE  Heeds(Feed(c, Torn), ps) /\ Feed(c, Torn).up = c.up
<1>1. PICK d, more : d = Feed(c, Torn) /\ more = Plus(ps, Torn)
  OBVIOUS
<1>2. IsPayload(Torn)
  BY DEF IsPayload
<1>3. Heeds(d, more)
  BY <1>1, <1>2, FeedHeeds
<1>4. ToolEvents(more) = ToolEvents(ps)
  <2>1. extractToolEvents(Torn) = << >>
    BY DEF extractToolEvents
  <2>2. ToolEvents(ps) \in Seq(Said) /\ ToolEvents(more) = ToolEvents(ps) \o << >>
    BY <1>1, <1>2, <2>1, ToolEventsGrow
  <2> QED BY <2>2, ConcatEmptySeq
<1>5. d.client = c.client
  BY <1>1, <1>2, FeedType
<1>6. \A up : OwedText(more, c.client, up) = OwedText(ps, c.client, up) \o << >>
  <2>1. ASSUME NEW up PROVE OwedText(more, c.client, up) = OwedText(ps, c.client, up) \o << >>
    <3>1. TextOf(Torn, up) = << >>
      BY DEF TextOf
    <3>2. OwedText(more, c.client, up) =
             OwedText(ps, c.client, up)
             \o (IF c.client = "messages" /\ Calls(ToolEvents(more)) # {} THEN << >> ELSE TextOf(Torn, up))
      <4>1. PICK client, p : client = c.client /\ p = Torn /\ IsPayload(p)
        BY <1>2
      <4>2. OwedText(Plus(ps, p), client, up) =
               OwedText(ps, client, up)
               \o (IF client = "messages" /\ Calls(ToolEvents(Plus(ps, p))) # {} THEN << >> ELSE TextOf(p, up))
        <5>1. OwedMore(ps, p, client, up)
          BY <4>1, OwedTextGrows
        <5> QED BY <5>1 DEF OwedMore
      <4> QED BY <1>1, <4>1, <4>2
    <3> QED BY <3>1, <3>2
  <2> QED BY <2>1
<1>7. d.up = c.up
  BY <1>1, <1>2, FeedHeeds
<1>8. OwedText(ps, c.client, c.up) \o << >> = OwedText(ps, c.client, c.up)
  <2>1. OwedText(ps, c.client, c.up) = SaidIn(c.out, "text", Place(c))
    BY DEF Heeds
  <2>2. SaidIn(c.out, "text", Place(c)) \in Seq(Piece)
    <3>1. PICK v : v.ev = "none"
      <4>1. [ev |-> "none"].ev = "none"
        OBVIOUS
      <4> QED BY <4>1
    <3>2. IsSeq(c.out) /\ SayPieces(c.out, "text")
      BY DEF Heeds, Calling, Pieces
    <3> QED BY <3>1, <3>2, SaidGrows
  <2> QED BY <2>1, <2>2, ConcatEmptySeq
<1>9. \A up : LastFinish(more, up) = LastFinish(ps, up)
  BY <1>1, <1>2, LastFinishGrows DEF Ends
<1> QED BY <1>1, <1>3, <1>4, <1>5, <1>6, <1>7, <1>8, <1>9 DEF Heeds
-----------------------------------------------------------------------------
(* What the client has been told at the end *)

\* The reason is one for the upstream's last and for whether there was a call.
Right(client, say, last, any) ==
    LET cut == last \in {"length", "max_tokens"}
        called == any \/ last \in {"tool_calls", "tool_use"}
    IN  /\ cut <=> say \in {"length", "max_tokens", "incomplete"}
        /\ client # "responses" => ((called /\ ~cut) <=> say \in {"tool_calls", "tool_use"})

Rightly(c, ps) ==
    \A i \in DOMAIN c.out : c.out[i].ev = "finish" =>
        Right(c.client, c.out[i].say, LastFinish(ps, c.up), Calls(ToolEvents(ps)) # {})

Faith(c, ps) ==
    /\ SaidIn(c.out, "text", Place(c)) = OwedText(ps, c.client, c.up)
    /\ DOMAIN c.tools = Calls(ToolEvents(ps))
    /\ \A key \in DOMAIN c.tools : SaidIn(c.out, "args", c.tools[key]) = OwedArgs(ToolEvents(ps), key)
    /\ Rightly(c, ps)

LEMMA HeedsFaith == \A c, ps : Heeds(c, ps) => Faith(c, ps)
<1> SUFFICES ASSUME NEW c, NEW ps, Heeds(c, ps) PROVE Faith(c, ps)
  OBVIOUS
<1>1. PICK said : said = ToolEvents(ps) /\ Calling(c, said)
  BY DEF Heeds
<1>2. DOMAIN c.tools = Calls(said)
  BY <1>1 DEF Calling
<1>3. \A key \in DOMAIN c.tools : SaidIn(c.out, "args", c.tools[key]) = OwedArgs(said, key)
  BY <1>1 DEF Calling
<1>4. Rightly(c, ps)
  BY <1>1 DEF Calling, Unended, Rightly
<1> QED BY <1>1, <1>2, <1>3, <1>4 DEF Heeds, Faith

\* The reasons each converter gives.
LEMMA ReasonsRight ==
    ASSUME NEW c, c.finish \in Finish
    PROVE  /\ Right("chat", chatReason(c), c.finish, AnyTool(c))
           /\ Right("messages", messagesReason(c), c.finish, AnyTool(c))
           /\ \A any : Right("responses", IF upstreamFinish(c) = "length" THEN "incomplete" ELSE "completed", c.finish, any)
<1>1. /\ c.finish \in {"max_tokens", "length"} => upstreamFinish(c) = "length"
      /\ c.finish \in {"tool_use", "tool_calls"} => upstreamFinish(c) = "tool_calls"
      /\ c.finish \in {"end_turn", "stop", ""} => upstreamFinish(c) = "stop"
  BY DEF upstreamFinish
<1>2. c.finish \in {"", "stop", "length", "tool_calls", "end_turn", "max_tokens", "tool_use"}
  BY DEF Finish
<1>3. mapStop("length") = "max_tokens" /\ mapStop("tool_calls") = "tool_use" /\ mapStop("stop") = "end_turn"
  BY DEF mapStop
<1>4. PICK u : u = upstreamFinish(c)
  OBVIOUS
<1>5. Right("chat", chatReason(c), c.finish, AnyTool(c))
  BY <1>1, <1>2, <1>4 DEF Right, chatReason
<1>6. Right("messages", messagesReason(c), c.finish, AnyTool(c))
  BY <1>1, <1>2, <1>3, <1>4 DEF Right, messagesReason
<1>7. \A any : Right("responses", IF upstreamFinish(c) = "length" THEN "incomplete" ELSE "completed", c.finish, any)
  BY <1>1, <1>2 DEF Right
<1> QED BY <1>5, <1>6, <1>7

\* What says no more, and gives the right reason.
LEMMA BesidesFaith ==
    ASSUME NEW c, NEW ps, Heeds(c, ps), NEW d, d.client = c.client, d.up = c.up, d.tools = c.tools,
           \A at : SaidIn(d.out, "args", at) = SaidIn(c.out, "args", at),
           SaidIn(d.out, "text", Place(d)) = SaidIn(c.out, "text", Place(c)),
           NEW reason, Reasons(d.out, reason), Right(c.client, reason, c.finish, AnyTool(c))
    PROVE  Faith(d, ps)
<1>1. PICK said : said = ToolEvents(ps) /\ Calling(c, said)
  BY DEF Heeds
<1>2. DOMAIN d.tools = Calls(said)
  BY <1>1 DEF Calling
<1>3. \A key \in DOMAIN d.tools : SaidIn(d.out, "args", d.tools[key]) = OwedArgs(said, key)
  BY <1>1 DEF Calling
<1>4. AnyTool(c) = (Calls(said) # {})
  BY <1>1 DEF Calling, AnyTool
<1>5. Right(c.client, reason, LastFinish(ps, c.up), Calls(said) # {})
  <2>1. c.finish = LastFinish(ps, c.up)
    BY DEF Heeds
  <2>2. PICK any \in BOOLEAN : any = AnyTool(c)
    BY DEF AnyTool
  <2>3. any = (Calls(said) # {})
    BY <1>4, <2>2
  <2>4. Right(c.client, reason, c.finish, any)
    BY <2>2
  <2> QED BY <2>1, <2>3, <2>4
<1>6. Rightly(d, ps)
  BY <1>1, <1>5 DEF Reasons, Rightly
<1>7. SaidIn(d.out, "text", Place(d)) = OwedText(ps, d.client, d.up)
  BY DEF Heeds
<1> QED BY <1>1, <1>2, <1>3, <1>6, <1>7 DEF Faith

\* The reason, and two events after it or before it.
LEMMA ChatFaith ==
    ASSUME NEW c, c.client = "chat", c.text \in Seq(Piece), NEW ps, Heeds(c, ps), Told(c)
    PROVE  Faith(Finalize(c), ps)
<1>0. Written(c) /\ Pieces(c.out) /\ Unended(c.out) /\ c.finish \in Finish
  BY DEF Heeds, Calling
<1>1. Suffix(c) = << >>
  <2>1. Len(c.text) \in Nat /\ c.emitted = Len(c.text)
    BY LenProperties DEF Heeds
  <2>2. c.emitted \in 0..Len(c.text)
    BY <2>1
  <2> QED BY <2>1, <2>2, Pending
<1>2. chatText(c) = c
  BY <1>1 DEF chatText
<1>3. PICK e, f, g : /\ e = Event("finish", 0, chatReason(c)) /\ f = Event("usage", 0, finalizeUsage(c))
                     /\ g = Event("done", 0, << >>)
  OBVIOUS
<1>4. e.ev = "finish" /\ f.ev = "usage" /\ g.ev = "done" /\ e.say = chatReason(c)
  BY <1>3 DEF Event
<1>5. PICK o, x, y : o = c.out /\ x = Plus(o, e) /\ y = Plus(x, f)
  OBVIOUS
<1>6. PICK d : d = Emit(c, <<e, f, g>>)
  OBVIOUS
<1>7. d.out = Plus(y, g) /\ d.tools = c.tools /\ d.client = c.client
  <2>1. d.out = c.out \o <<e, f, g>> /\ d.tools = c.tools /\ d.client = c.client
    BY <1>0, <1>6, EmitKept
  <2>2. IsSeq(o)
    BY <1>0, <1>5 DEF Pieces
  <2>3. o \o <<e, f, g>> = Plus(Plus(Plus(o, e), f), g)
    BY <2>2, OneByOne
  <2> QED BY <1>5, <2>1, <2>3
<1>8. Finalize(c) = d
  BY <1>2, <1>3, <1>6 DEF Finalize, chatFinalize
<1>9. Besides(o, x) /\ Pieces(x) /\ Reasons(x, chatReason(c))
  BY <1>0, <1>4, <1>5, PlusBesides DEF Besides
<1>10. Besides(x, y) /\ Pieces(y) /\ Reasons(y, chatReason(c))
  BY <1>4, <1>5, <1>9, PlusBesides DEF Besides
<1>11. Besides(y, d.out) /\ Reasons(d.out, chatReason(c))
  BY <1>4, <1>7, <1>10, PlusBesides
<1>12. Besides(c.out, d.out)
  BY <1>5, <1>9, <1>10, <1>11, BesidesBesides
<1>13. d.up = c.up
  BY <1>6, SameEmit DEF Same
<1>14. Place(d) = Place(c)
  BY <1>7 DEF Place
<1>15. Right(c.client, chatReason(c), c.finish, AnyTool(c))
  BY <1>0, ReasonsRight
<1>16. /\ \A at : SaidIn(d.out, "args", at) = SaidIn(c.out, "args", at)
       /\ SaidIn(d.out, "text", Place(d)) = SaidIn(c.out, "text", Place(c))
  BY <1>12, <1>14 DEF Besides
<1> QED BY <1>7, <1>8, <1>11, <1>13, <1>15, <1>16, BesidesFaith

LEMMA MessagesFaith ==
    ASSUME NEW c, c.client = "messages", c.text \in Seq(Piece), NEW ps, Heeds(c, ps), Told(c)
    PROVE  Faith(Finalize(c), ps)
<1>0. Written(c) /\ Pieces(c.out) /\ Unended(c.out) /\ c.finish \in Finish
  BY DEF Heeds, Calling
<1>1. Suffix(c) = << >>
  <2>1. Len(c.text) \in Nat /\ c.emitted = Len(c.text)
    BY LenProperties DEF Heeds
  <2>2. c.emitted \in 0..Len(c.text)
    BY <2>1
  <2> QED BY <2>1, <2>2, Pending
<1>2. PICK t : t = messagesText(c)
  OBVIOUS
<1>3. /\ Written(t) /\ t.out = c.out /\ t.tools = c.tools /\ t.client = c.client /\ t.up = c.up
      /\ t.finish = c.finish
  <2>1. t = Taken(c)
    BY <1>1, <1>2 DEF messagesText
  <2> QED BY <1>0, <2>1 DEF Taken, Written
<1>4. PICK u : u = [t EXCEPT !.openTool = None, !.textOpen = FALSE]
  OBVIOUS
<1>5. Written(u) /\ u.out = c.out /\ u.tools = c.tools /\ u.client = c.client /\ u.up = c.up
  BY <1>3, <1>4 DEF Written
<1>6. PICK reason, e, f : /\ reason = messagesReason(t) /\ e = Event("finish", finalizeUsage(t), reason)
                          /\ f = Event("done", 0, << >>)
  OBVIOUS
<1>7. e.ev = "finish" /\ f.ev = "done" /\ e.say = reason
  BY <1>6 DEF Event
<1>8. PICK q : q = IF t.openTool >= 0 THEN <<Event("block_stop", t.openTool, << >>)>>
                   ELSE IF t.textOpen \/ ~AnyTool(t) THEN <<Event("block_stop", 0, << >>)>>
                   ELSE << >>
  OBVIOUS
<1>9. q = << >> \/ \E v : v.ev = "block_stop" /\ q = <<v>>
  BY <1>8 DEF Event
<1>10. PICK d : d = Emit(u, q \o <<e, f>>)
  OBVIOUS
<1>11. Finalize(c) = d
  BY <1>2, <1>4, <1>6, <1>8, <1>10 DEF Finalize, messagesFinalize
<1>12. PICK w : Besides(c.out, w) /\ Unended(w) /\ d.out = Plus(Plus(w, e), f)
  <2>0. PICK o : o = c.out /\ IsSeq(o) /\ Pieces(o) /\ Unended(o)
    BY <1>0 DEF Pieces
  <2>1. d.out = o \o (q \o <<e, f>>)
    <3>1. PICK r : r = q \o <<e, f>>
      OBVIOUS
    <3>2. Emit(u, r).out = u.out \o r
      BY <1>5, EmitKept
    <3> QED BY <1>5, <1>10, <2>0, <3>1, <3>2
  <2>2. CASE q = << >>
    <3>1. q \o <<e, f>> = <<e, f>>
      <4>1. PICK T : T = {e, f}
        OBVIOUS
      <4>2. <<e, f>> \in Seq(T)
        BY <4>1
      <4> QED BY <2>2, <4>2, ConcatEmptySeq
    <3>2. o \o <<e, f>> = Plus(Plus(o, e), f)
      BY <2>0, OneByOne
    <3>3. Besides(o, o)
      BY <2>0 DEF Besides
    <3> QED BY <2>0, <2>1, <3>1, <3>2, <3>3
  <2>3. ASSUME NEW v, v.ev = "block_stop", q = <<v>>
        PROVE  \E w : Besides(c.out, w) /\ Unended(w) /\ d.out = Plus(Plus(w, e), f)
    <3>1. q \o <<e, f>> = <<v, e, f>>
      BY <2>3, Joined
    <3>4. IsSeq(o)
      BY <2>0
    <3>2. o \o <<v, e, f>> = Plus(Plus(Plus(o, v), e), f)
      BY <3>4, OneByOne
    <3>3. Besides(o, Plus(o, v)) /\ Unended(Plus(o, v))
      BY <2>0, <2>3, PlusBesides
    <3> QED BY <2>0, <2>1, <3>1, <3>2, <3>3
  <2> QED BY <1>9, <2>2, <2>3
<1>13. PICK x : x = Plus(w, e)
  OBVIOUS
<1>14. Besides(w, x) /\ Pieces(x) /\ Reasons(x, reason)
  <2>1. Pieces(w)
    BY <1>12 DEF Besides
  <2> QED BY <1>7, <1>12, <1>13, <2>1, PlusBesides DEF Besides
<1>15. Besides(x, d.out) /\ Reasons(d.out, reason)
  BY <1>7, <1>12, <1>13, <1>14, PlusBesides
<1>16. Besides(c.out, d.out)
  BY <1>12, <1>14, <1>15, BesidesBesides
<1>17. d.tools = c.tools /\ d.client = c.client /\ d.up = c.up
  BY <1>5, <1>10 DEF Emit, Written
<1>18. Place(d) = Place(c)
  BY <1>17 DEF Place
<1>19. Right(c.client, reason, c.finish, AnyTool(c))
  <2>1. Right("messages", messagesReason(t), t.finish, AnyTool(t))
    BY <1>0, <1>3, ReasonsRight
  <2>2. AnyTool(t) = AnyTool(c)
    BY <1>3 DEF AnyTool
  <2> QED BY <1>3, <1>6, <2>1, <2>2
<1>20. /\ \A at : SaidIn(d.out, "args", at) = SaidIn(c.out, "args", at)
       /\ SaidIn(d.out, "text", Place(d)) = SaidIn(c.out, "text", Place(c))
  BY <1>16, <1>18 DEF Besides
<1> QED BY <1>11, <1>15, <1>17, <1>19, <1>20, BesidesFaith
-----------------------------------------------------------------------------
\* An event that has not happened is not among those written.
LEMMA NeverSaid ==
    ASSUME NEW out, IsSeq(out), Times(out, "finish") = 0
    PROVE  Unended(out)
<1>1. PICK n \in Nat : n = Len(out) /\ DOMAIN out = 1..n
  BY DEF IsSeq
<1>2. PICK K : K = {k \in 1..n : out[k].ev = "finish"}
  OBVIOUS
<1>3. Cardinality(K) = 0 /\ IsFiniteSet(K)
  <2>1. n + 1 - 1 = n
    OBVIOUS
  <2>2. Times(out, "finish") = Cardinality(K)
    BY <1>1, <1>2, <2>1 DEF Times, Before
  <2>3. IsFiniteSet(1..n) /\ K \subseteq 1..n
    BY <1>2, FS_Interval
  <2> QED BY <2>2, <2>3, FS_Subset
<1>4. K = {}
  BY <1>3, FS_EmptySet
<1> QED BY <1>1, <1>2, <1>4 DEF Unended

\* What closes the items says nothing new.
LEMMA ClosingAside ==
    ASSUME NEW c, NEW out, NEW n, Closing(c, out, n)
    PROVE  Besides(c.out, out) /\ Unended(out)
<1>1. IsSeq(out) /\ SayPieces(out, "text") /\ SayPieces(out, "args") /\ Times(out, "finish") = 0
  BY DEF Closing, Items
<1>2. Unended(out)
  BY <1>1, NeverSaid
<1> QED BY <1>1, <1>2 DEF Closing, Besides, Pieces

\* The message item of a stream of which nothing has been heard.
LEMMA AloneAside ==
    ASSUME NEW t, Written(t), Pieces(t.out), Unended(t.out), t.next = 1, t.msgOut = 0, ~t.part
    PROVE  LET q == FlattenSeq([i \in 1..t.next |-> itemCloser(t, i - 1)]) IN
           Besides(t.out, t.out \o q) /\ Unended(t.out \o q)
<1>1. PICK w : w = Event("item_done", 0, IF upstreamFinish(t) = "length" THEN "incomplete" ELSE "completed")
  OBVIOUS
<1>2. messageCloser(t) = <<w>>
  <2>1. messageCloser(t) = << >> \o <<w>>
    BY <1>1 DEF messageCloser, None
  <2> QED BY <2>1, Joined
<1>3. PICK z : z = [w EXCEPT !.seq = t.seq + 1 - 1]
  OBVIOUS
<1>4. z.ev = "item_done"
  BY <1>1, <1>3 DEF Event
<1>5. itemCloser(t, 0) = <<z>>
  <2>1. PICK q : q = <<w>> /\ DOMAIN q = {1}
    <3>1. DOMAIN <<w>> = {1}
      OBVIOUS
    <3> QED BY <3>1
  <2>2. Numbered(t, q) = <<z>>
    BY <1>3, <2>1 DEF Numbered
  <2> QED BY <1>2, <2>1, <2>2 DEF itemCloser
<1>6. PICK r : r = [i \in 1..t.next |-> itemCloser(t, i - 1)]
  OBVIOUS
<1>7. PICK S : S = {z}
  OBVIOUS
<1>8. r \in Seq(Seq(S)) /\ Len(r) = 1 /\ r[1] = <<z>>
  <2>1. <<z>> \in Seq(S)
    BY <1>7
  <2>2. r = [i \in 1..1 |-> <<z>>]
    <3>1. \A i \in 1..1 : i - 1 = 0
      OBVIOUS
    <3>2. [i \in 1..1 |-> itemCloser(t, i - 1)] = [i \in 1..1 |-> itemCloser(t, 0)]
      BY <3>1
    <3> QED BY <1>5, <1>6, <3>2
  <2> QED BY <2>1, <2>2
<1>9. FlattenSeq(r) = <<z>>
  <2>1. PICK e : e = << >> /\ e \in Seq(Seq(S)) /\ Len(e) = 0
    BY EmptySeq
  <2>2. FlattenSeq(e) = e
    BY <2>1, FlatChosen
  <2>3. FlattenSeq(r) = FlattenSeq(e) \o r[1]
    <3>1. PICK m \in Nat : m = 0 /\ m + 1 = 1
      OBVIOUS
    <3>2. (\A i \in 1..m : r[i] = e[i]) /\ Len(e) = m /\ Len(r) = m + 1
      BY <1>8, <2>1, <3>1
    <3>3. FlattenSeq(r) = FlattenSeq(e) \o r[m + 1]
      BY <1>8, <2>1, <3>2, FlatGrows
    <3> QED BY <3>1, <3>3
  <2> QED BY <1>8, <2>1, <2>2, <2>3, Joined
<1>10. PICK o : o = t.out
  OBVIOUS
<1>11. o \o <<z>> = Plus(o, z)
  BY <1>10, OneByOne DEF Pieces
<1>12. Besides(o, Plus(o, z)) /\ Unended(Plus(o, z))
  BY <1>4, <1>10, PlusBesides
<1> QED BY <1>6, <1>9, <1>10, <1>11, <1>12

LEMMA ResponsesFaith ==
    ASSUME NEW c, c.client = "responses", Told(c), c.text \in Seq(Piece), Framing(c), NEW ps, Heeds(c, ps)
    PROVE  Faith(Finalize(c), ps)
<1>0. /\ Written(c) /\ Pieces(c.out) /\ Unended(c.out) /\ c.finish \in Finish /\ c.next \in Nat
      /\ ResponsesOpen(c) /\ Spoken(c) /\ c.emitted = Len(c.text)
  BY DEF Heeds, Calling, Framing
<1>1. responsesTail(c) = c
  <2>1. Len(c.text) \in Nat
    BY LenProperties
  <2>2. c.emitted \in 0..Len(c.text)
    BY <1>0, <2>1
  <2>3. Suffix(c) = << >>
    BY <1>0, <2>2, Pending
  <2> QED BY <2>3 DEF responsesTail
<1>2. PICK t : t = IF c.msgOut = None /\ ~AnyTool(c) THEN ensureMsg(c) ELSE c
  OBVIOUS
<1>3. Aside(c, t) /\ Same(c, t)
  <2>1. Aside(c, c) /\ Same(c, c)
    BY <1>0, SameSame DEF Aside, Besides
  <2>2. Aside(c, ensureMsg(c))
    BY <1>0, MessageAside
  <2> QED BY <1>2, <2>1, <2>2, SameMessage
<1>4. PICK o, q : o = t.out /\ q = FlattenSeq([i \in 1..t.next |-> itemCloser(t, i - 1)])
  OBVIOUS
<1>5. /\ Besides(o, o \o q) /\ Unended(o \o q)
      /\ SaidIn(o, "text", t.msgOut) = SaidIn(c.out, "text", c.msgOut)
  <2>1. CASE c.started
    <3>1. /\ ResponsesOpen(t) /\ Spoken(t) /\ t.emitted = Len(t.text)
          /\ SaidIn(o, "text", t.msgOut) = SaidIn(c.out, "text", c.msgOut)
      <4>1. CASE t = c
        BY <1>0, <1>4, <4>1
      <4>2. CASE t = ensureMsg(c)
        <5>1. /\ ResponsesOpen(t) /\ t.started /\ t.text = c.text /\ t.emitted = c.emitted
              /\ SaidIn(t.out, "text", t.msgOut) = SaidIn(c.out, "text", c.msgOut)
          BY <1>0, <2>1, <4>2, ResponsesMessage
        <5> QED BY <1>0, <1>4, <5>1 DEF Spoken
      <4> QED BY <1>2, <4>1, <4>2
    <3>2. t.started
      <4>1. CASE t = c
        BY <2>1, <4>1
      <4>2. CASE t = ensureMsg(c)
        BY <1>0, <2>1, <4>2, ResponsesMessage
      <4> QED BY <1>2, <4>1, <4>2
    <3>3. ResponsesBegun(t) /\ t.part \in BOOLEAN
      BY <3>1, <3>2 DEF ResponsesOpen
    <3>4. Closing(t, o \o q, t.next)
      BY <1>4, <3>1, <3>3, ClosingAll
    <3> QED BY <1>4, <3>1, <3>4, ClosingAside
  <2>2. CASE ~c.started
    <3>1. c.out = << >> /\ DOMAIN c.tools = {} /\ c.msgOut = None /\ ~c.part /\ c.next = 0
      BY <1>0, <2>2 DEF ResponsesOpen
    <3>2. t = ensureMsg(c)
      BY <1>2, <3>1 DEF AnyTool
    <3>3. PICK b : b = [c EXCEPT !.msgOut = c.next, !.next = @ + 1]
      OBVIOUS
    <3>4. Written(b) /\ b.next = 1 /\ b.msgOut = 0 /\ ~b.part
      BY <1>0, <3>1, <3>3 DEF Written
    <3>5. t = EmitNumbered(b, <<Event("item_added", c.next, "message")>>)
      BY <3>1, <3>2, <3>3 DEF ensureMsg
    <3>6. Rest(b, t) /\ Written(t)
      BY <3>4, <3>5, NumberedOne
    <3>7. t.next = 1 /\ t.msgOut = 0 /\ ~t.part
      BY <3>4, <3>6 DEF Rest
    <3>8. Pieces(o) /\ Unended(o)
      BY <1>3, <1>4 DEF Aside, Besides
    <3>9. Besides(o, o \o q) /\ Unended(o \o q)
      BY <1>4, <3>6, <3>7, <3>8, AloneAside
    <3>10. SaidIn(o, "text", 0) = << >>
      <4>1. SaidIn(o, "text", 0) = SaidIn(c.out, "text", 0)
        BY <1>3, <1>4 DEF Aside, Besides
      <4> QED BY <3>1, <4>1, NothingSaid
    <3> QED BY <3>1, <3>7, <3>9, <3>10, NothingSaid
  <2> QED BY <2>1, <2>2
<1>6. Written(t)
  BY <1>3 DEF Aside
<1>7. PICK d : d = responsesClose(t)
  OBVIOUS
<1>8. Written(d) /\ d.out = o \o q /\ d.tools = t.tools /\ d.client = t.client /\ d.msgOut = t.msgOut
  <2>1. PICK b : b = Emit(t, q)
    OBVIOUS
  <2>2. Written(b) /\ b.out = o \o q
    BY <1>4, <1>6, <2>1, EmitKept
  <2>3. b.tools = t.tools /\ b.client = t.client /\ b.msgOut = t.msgOut
    BY <1>6, <2>1, EmitRest DEF Rest
  <2>4. \E n : d = [b EXCEPT !.seq = n]
    BY <1>4, <1>7, <2>1 DEF responsesClose, EmitClosing
  <2> QED BY <2>2, <2>3, <2>4 DEF Written
<1>9. PICK at, say : /\ at = finalizeUsage(t)
                     /\ say = IF upstreamFinish(t) = "length" THEN "incomplete" ELSE "completed"
  OBVIOUS
<1>10. PICK e : e = EmitNumbered(d, <<Event("finish", at, say)>>)
  OBVIOUS
<1>11. responsesFinalize(c) = e
  BY <1>1, <1>2, <1>7, <1>9, <1>10 DEF responsesFinalize
<1>12. PICK v : v.ev = "finish" /\ v.say = say /\ e.out = Plus(d.out, v) /\ Rest(d, e)
  <2>1. \E v : /\ v.ev = "finish" /\ v.at = at /\ v.say = say
               /\ EmitNumbered(d, <<Event("finish", at, say)>>).out = Plus(d.out, v)
               /\ Written(EmitNumbered(d, <<Event("finish", at, say)>>))
               /\ Rest(d, EmitNumbered(d, <<Event("finish", at, say)>>))
    BY <1>8, NumberedOne, ZenonT(30)
  <2> QED BY <1>10, <2>1
<1>13. PICK x : x = o \o q
  OBVIOUS
<1>14. Pieces(x) /\ Unended(x)
  BY <1>5, <1>13 DEF Besides
<1>15. Besides(x, e.out) /\ Reasons(e.out, say)
  BY <1>8, <1>12, <1>13, <1>14, PlusBesides
<1>16. Besides(c.out, e.out)
  BY <1>3, <1>4, <1>5, <1>13, <1>15, BesidesBesides DEF Aside
<1>17. e.client = c.client /\ e.tools = c.tools /\ e.msgOut = t.msgOut
  BY <1>3, <1>8, <1>12 DEF Rest, Aside
<1>18. Finalize(c) = e
  BY <1>11 DEF Finalize
<1>19. e.up = c.up
  BY <1>18, SameFinalize DEF Same
<1>20. SaidIn(e.out, "text", Place(e)) = SaidIn(c.out, "text", Place(c))
  <2>1. Place(e) = t.msgOut /\ Place(c) = c.msgOut
    BY <1>17 DEF Place
  <2>2. SaidIn(e.out, "text", t.msgOut) = SaidIn(o, "text", t.msgOut)
    BY <1>5, <1>13, <1>15 DEF Besides
  <2> QED BY <1>5, <2>1, <2>2
<1>21. Right(c.client, say, c.finish, AnyTool(c))
  <2>1. t.finish = c.finish
    BY <1>3 DEF Same
  <2>2. PICK any : any = AnyTool(c)
    OBVIOUS
  <2>3. Right("responses", say, t.finish, any)
    BY <1>0, <1>9, <2>1, ReasonsRight
  <2> QED BY <2>1, <2>2, <2>3
<1>22. \A k : SaidIn(e.out, "args", k) = SaidIn(c.out, "args", k)
  BY <1>16 DEF Besides
<1> QED BY <1>15, <1>17, <1>18, <1>19, <1>20, <1>21, <1>22, BesidesFaith

\* What was heard has been told the client at the end, too.
LEMMA EndFaith ==
    ASSUME NEW c, ConvType(c), c.client # "native", Framing(c), NEW ps, Heeds(c, ps)
    PROVE  Faith(Finalize(c), ps) /\ Finalize(c).up = c.up
<1>1. Told(c) /\ c.text \in Seq(Piece) /\ c.client \in {"chat", "messages", "responses"}
  BY DEF ConvType
<1>2. Finalize(c).up = c.up
  BY <1>1, SameFinalize DEF Same
<1> QED BY <1>1, <1>2, ChatFaith, MessagesFaith, ResponsesFaith
-----------------------------------------------------------------------------
(* The splitter, byte by byte of an event *)

Byte == Nat \X Nat

LEMMA Bytes == /\ Newline \in Byte /\ Data \in Byte /\ Field \in Byte /\ Done \in Byte
               /\ Data # Newline /\ Field # Newline /\ Done # Newline /\ Field # Data
               /\ \A i \in Nat : <<i, 1>> \in Byte /\ <<i, 2>> \in Byte /\ <<i, 1>> # Newline /\ <<i, 2>> # Newline
  BY DEF Byte, Newline, Data, Field, Done

\* How long an event is, and the field that names it.
Lead(j) == IF j.up = "chat" THEN 0 ELSE 2
Size(j) == Lead(j) + (IF j.twoLines THEN 7 ELSE 5)

\* What the splitter holds.
Holds(sp, line, data, hasData) ==
    /\ {"line", "data", "hasData"} \subseteq DOMAIN sp
    /\ sp.line = line /\ sp.data = data /\ sp.hasData = hasData

\* Once it has had k bytes of event i, those that name it not counted.
LineOf(i, k, two) ==
    IF k = -1 THEN <<Field>>
    ELSE IF k = 1 THEN <<Data>>
    ELSE IF k = 2 THEN <<Data, <<i, 1>> >>
    ELSE IF two THEN IF k = 4 THEN <<Data>> ELSE IF k = 5 THEN <<Data, <<i, 2>> >> ELSE << >>
    ELSE IF k = 3 THEN <<Data, <<i, 1>>, <<i, 2>> >> ELSE << >>

DataOf(i, k, two) ==
    IF k >= (IF two THEN 6 ELSE 4) THEN << <<i, 1>>, <<i, 2>> >>
    ELSE IF two /\ k >= 3 THEN << <<i, 1>> >>
    ELSE << >>

HasData(k, two) == k >= (IF two THEN 3 ELSE 4)

Midway(sp, i, k, two) == Holds(sp, LineOf(i, k, two), DataOf(i, k, two), HasData(k, two))

\* The byte after those.
Part(i, k, two) ==
    IF k = -2 THEN Field
    ELSE IF k = -1 THEN Newline
    ELSE IF k = 0 THEN Data
    ELSE IF k = 1 THEN <<i, 1>>
    ELSE IF two THEN IF k = 3 THEN Data ELSE IF k = 4 THEN <<i, 2>> ELSE Newline
    ELSE IF k = 2 THEN <<i, 2>> ELSE Newline

\* A tuple of one, and what is put behind one.
LEMMA Behind ==
    /\ \A e : << >> \o <<e>> = <<e>>
    /\ \A e, f : <<e>> \o <<f>> = <<e, f>>
    /\ \A e, f, g : <<e, f>> \o <<g>> = <<e, f, g>>
    /\ \A e : Tail(<<e>>) = << >> /\ Head(<<e>>) = e /\ <<e>> # << >>
    /\ \A e, f : Tail(<<e, f>>) = <<f>> /\ Head(<<e, f>>) = e /\ <<e, f>> # << >>
    /\ \A e, f, g : Tail(<<e, f, g>>) = <<f, g>> /\ Head(<<e, f, g>>) = e /\ <<e, f, g>> # << >>
    /\ << >> \o << >> = << >>
    /\ \A e, f : << >> \o <<e, f>> = <<e, f>>
    /\ \A e : <<e>> \o << >> = <<e>>
<1>1. \A e : << >> \o <<e>> = <<e>> /\ <<e>> \o << >> = <<e>> /\ << >> \o << >> = << >>
  BY Joined
<1>2. \A e, f : <<e>> \o <<f>> = <<e, f>>
  BY Joined
<1>3. \A e, f, g : <<e, f>> \o <<g>> = <<e, f, g>>
  BY JoinedThree
<1>4. \A e : Tail(<<e>>) = << >> /\ Head(<<e>>) = e /\ <<e>> # << >>
  OBVIOUS
<1>5. \A e, f : Tail(<<e, f>>) = <<f>> /\ Head(<<e, f>>) = e /\ <<e, f>> # << >>
  OBVIOUS
<1>6. \A e, f, g : Tail(<<e, f, g>>) = <<f, g>> /\ Head(<<e, f, g>>) = e /\ <<e, f, g>> # << >>
  OBVIOUS
<1>7. \A e, f : << >> \o <<e, f>> = <<e, f>>
  <2>1. ASSUME NEW e, NEW f PROVE << >> \o <<e, f>> = <<e, f>>
    <3>1. PICK T : T = {e, f}
      OBVIOUS
    <3>2. <<e, f>> \in Seq(T)
      BY <3>1
    <3> QED BY <3>2, ConcatEmptySeq
  <2> QED BY <2>1
<1> QED BY <1>1, <1>2, <1>3, <1>4, <1>5, <1>6, <1>7
-----------------------------------------------------------------------------
\* Two sequences in a row, place by place.
Laid(c, k, t, l) == \A m \in 1..l : c[k + m] = t[m]

\* Plain facts about numbers, away from the sequences they are used with: a
\* place in what lies before another, and a place told from the lead of an event.
LEMMA Before1 ==
    \A x, l, k \in Nat : \A m \in 0..l - 1 : x + l <= k => x + m + 1 \in 1..k
  OBVIOUS

LEMMA FromLead ==
    \A l \in {0, 2} : \A f \in {5, 7} : \A m \in 0..l + f - 1 :
        \E k \in Int : /\ k = m - l /\ m = k + l /\ k >= -2 /\ k < f /\ k + 1 = m + 1 - l
                      /\ (k >= f - 2 <=> m >= l + f - 2)
<1>1. ASSUME NEW l \in {0, 2}, NEW f \in {5, 7}, NEW m \in 0..l + f - 1
      PROVE  \E k \in Int : /\ k = m - l /\ m = k + l /\ k >= -2 /\ k < f /\ k + 1 = m + 1 - l
                            /\ (k >= f - 2 <=> m >= l + f - 2)
  <2>1. PICK k : k = m - l
    OBVIOUS
  <2>2. k \in Int /\ m = k + l /\ k >= -2 /\ k < f /\ k + 1 = m + 1 - l /\ (k >= f - 2 <=> m >= l + f - 2)
    BY <2>1
  <2> QED BY <2>1, <2>2
<1> QED BY <1>1

\* A place k of what follows the lead that is not the last one.
NotLast(l, f, k, m, s) ==
    l \in Int /\ f \in Int /\ k \in Int /\ m = k + l /\ m >= 0 /\ k + 1 < f /\ s = l + f

LEMMA NextPlace == \A l, f, k, m, s : NotLast(l, f, k, m, s) => m + 1 \in 0..s - 1
  BY DEF NotLast

\* A stretch of a sequence.
LEMMA Sliced ==
    ASSUME NEW S, NEW s \in Seq(S), NEW p \in Nat, NEW n \in Nat, p + n <= Len(s)
    PROVE  /\ SubSeq(s, p + 1, p + n) \in Seq(S) /\ Len(SubSeq(s, p + 1, p + n)) = n
           /\ \A y \in 1..n : SubSeq(s, p + 1, p + n)[y] = s[p + y]
<1>1. PICK a \in Int, b \in Int : a = p + 1 /\ b = p + n
  OBVIOUS
<1>2. \A i \in a..b : s[i] \in S
  <2>1. \A i \in a..b : i \in 1..Len(s)
    BY <1>1
  <2> QED BY <2>1
<1>3. PICK r : r = SubSeq(s, a, b)
  OBVIOUS
<1>4. /\ r \in Seq(S) /\ Len(r) = IF a <= b THEN b - a + 1 ELSE 0
      /\ \A y \in 1..b - a + 1 : r[y] = s[a + y - 1]
  <2>1. /\ SubSeq(s, a, b) \in Seq(S) /\ Len(SubSeq(s, a, b)) = IF a <= b THEN b - a + 1 ELSE 0
        /\ \A y \in 1..b - a + 1 : SubSeq(s, a, b)[y] = s[a + y - 1]
    BY <1>1, <1>2, SubSeqProperties
  <2> QED BY <1>3, <2>1
<1>5. b - a + 1 = n /\ (IF a <= b THEN b - a + 1 ELSE 0) = n
  BY <1>1
<1>6. ASSUME NEW y \in 1..n PROVE r[y] = s[p + y]
  <2>1. a + y - 1 = p + y
    BY <1>1
  <2> QED BY <1>4, <1>5, <2>1
<1> QED BY <1>1, <1>3, <1>4, <1>5, <1>6

LEMMA InARow ==
    ASSUME NEW S, NEW s \in Seq(S), NEW t \in Seq(S), NEW k \in Nat, NEW l \in Nat, Len(s) = k, Len(t) = l
    PROVE  /\ s \o t \in Seq(S) /\ Len(s \o t) = k + l
           /\ \A m \in 1..k : (s \o t)[m] = s[m]
           /\ Laid(s \o t, k, t, l)
<1>1. PICK c : c = s \o t
  OBVIOUS
<1>2. c \in Seq(S) /\ Len(c) = k + l /\ \A m \in 1..k + l : c[m] = IF m <= k THEN s[m] ELSE t[m - k]
  BY <1>1, ConcatProperties
<1>3. \A m \in 1..k : c[m] = s[m]
  BY <1>2
<1>4. ASSUME NEW m \in 1..l PROVE c[k + m] = t[m]
  <2>1. PICK n : n = k + m
    OBVIOUS
  <2>2. n \in 1..k + l /\ ~(n <= k) /\ n - k = m
    BY <2>1
  <2> QED BY <1>2, <2>1, <2>2
<1>5. Laid(c, k, t, l)
  BY <1>4 DEF Laid
<1> QED BY <1>1, <1>2, <1>3, <1>5

Row(S, s, t, k, l, c) == s \in Seq(S) /\ t \in Seq(S) /\ k = Len(s) /\ l = Len(t) /\ c = s \o t
Rowed(S, s, t, k, l, c) ==
    /\ c \in Seq(S) /\ Len(c) = k + l
    /\ \A m \in 1..k : c[m] = s[m]
    /\ Laid(c, k, t, l)

LEMMA Rows == \A S, s, t, k, l, c : Row(S, s, t, k, l, c) => Rowed(S, s, t, k, l, c)
<1>1. ASSUME NEW S, NEW s, NEW t, NEW k, NEW l, NEW c, Row(S, s, t, k, l, c)
      PROVE  Rowed(S, s, t, k, l, c)
  <2>1. s \in Seq(S) /\ t \in Seq(S) /\ k \in Nat /\ l \in Nat /\ k = Len(s) /\ l = Len(t) /\ c = s \o t
    BY <1>1 DEF Row
  <2>2. /\ s \o t \in Seq(S) /\ Len(s \o t) = k + l
        /\ \A m \in 1..k : (s \o t)[m] = s[m]
        /\ Laid(s \o t, k, t, l)
    BY <2>1, InARow
  <2> QED BY <2>1, <2>2 DEF Rowed
<1> QED BY <1>1

LEMMA EventIs ==
    ASSUME NEW j, NEW i \in Nat
    PROVE  /\ EventBytes(j, i) \in Seq(Byte) /\ Len(EventBytes(j, i)) = Size(j) /\ Size(j) \in {5, 7, 9}
           /\ \A m \in 0..Size(j) - 1 : EventBytes(j, i)[m + 1] = Part(i, m - Lead(j), j.twoLines)
<1>1. PICK x, y : x = <<i, 1>> /\ y = <<i, 2>> /\ x \in Byte /\ y \in Byte
  BY Bytes
<1>2. PICK q, r, u, v : /\ q = IF j.up = "chat" THEN << >> ELSE <<Field, Newline>>
                        /\ r = <<Data, x>>
                        /\ u = IF j.twoLines THEN <<Newline, Data>> ELSE << >>
                        /\ v = <<y, Newline, Newline>>
  OBVIOUS
<1>3. EventBytes(j, i) = q \o r \o u \o v
  BY <1>1, <1>2 DEF EventBytes
<1>4. q \in Seq(Byte) /\ Len(q) = Lead(j) /\ Lead(j) \in {0, 2} /\ (Lead(j) = 2 => q[1] = Field /\ q[2] = Newline)
  <2>1. CASE j.up = "chat"
    BY <1>2, <2>1, EmptySeq DEF Lead
  <2>2. CASE j.up # "chat"
    <3>1. q = <<Field, Newline>>
      BY <1>2, <2>2
    <3>2. Field \in Byte /\ Newline \in Byte
      BY Bytes
    <3>3. q \in Seq(Byte) /\ Len(q) = 2 /\ q[1] = Field /\ q[2] = Newline
      BY <3>1, <3>2
    <3> QED BY <2>2, <3>3 DEF Lead
  <2> QED BY <2>1, <2>2
<1>5. r \in Seq(Byte) /\ Len(r) = 2 /\ r[1] = Data /\ r[2] = x
  <2>1. Data \in Byte
    BY Bytes
  <2> QED BY <1>1, <1>2, <2>1
<1>6. v \in Seq(Byte) /\ Len(v) = 3 /\ v[1] = y /\ v[2] = Newline /\ v[3] = Newline
  <2>1. Newline \in Byte
    BY Bytes
  <2> QED BY <1>1, <1>2, <2>1
<1>7. PICK l : /\ u \in Seq(Byte) /\ Len(u) = l /\ l = (IF j.twoLines THEN 2 ELSE 0)
               /\ (j.twoLines => u[1] = Newline /\ u[2] = Data)
  <2>1. CASE ~j.twoLines
    BY <1>2, <2>1, EmptySeq
  <2>2. CASE j.twoLines
    <3>1. u = <<Newline, Data>>
      BY <1>2, <2>2
    <3>2. Data \in Byte /\ Newline \in Byte
      BY Bytes
    <3>3. u \in Seq(Byte) /\ Len(u) = 2 /\ u[1] = Newline /\ u[2] = Data
      BY <3>1, <3>2
    <3> QED BY <2>2, <3>3
  <2> QED BY <2>1, <2>2
<1>8. PICK k \in Nat : k = Lead(j) /\ k \in {0, 2}
  BY <1>4
<1>9. PICK c : /\ c = q \o r /\ c \in Seq(Byte) /\ Len(c) = k + 2
               /\ \A m \in 1..k : c[m] = q[m]
               /\ Laid(c, k, r, 2)
  <2>1. PICK c : c = q \o r
    OBVIOUS
  <2>2. Len(q) = k
    BY <1>4, <1>8
  <2>3. PICK f \in Nat : f = 2 /\ Len(r) = f
    BY <1>5
  <2>4. /\ c \in Seq(Byte) /\ Len(c) = k + f
        /\ \A m \in 1..k : c[m] = q[m]
        /\ Laid(c, k, r, f)
    <3>1. Row(Byte, q, r, k, f, c)
      BY <1>4, <1>5, <2>1, <2>2, <2>3 DEF Row
    <3>2. Rowed(Byte, q, r, k, f, c)
      BY <3>1, Rows
    <3> QED BY <3>2 DEF Rowed
  <2> QED BY <2>1, <2>3, <2>4
<1>11. l \in {0, 2} /\ l \in Nat /\ k + 2 \in Nat /\ k + 2 + l \in Nat
  BY <1>7, <1>8
<1>10. PICK d : /\ d = c \o u /\ d \in Seq(Byte) /\ Len(d) = k + 2 + l
                /\ \A m \in 1..k + 2 : d[m] = c[m]
                /\ Laid(d, k + 2, u, l)
  <2>1. PICK n \in Nat : n = k + 2 /\ Len(c) = n
    BY <1>9, <1>11
  <2>2. PICK d : d = c \o u
    OBVIOUS
  <2>3. /\ d \in Seq(Byte) /\ Len(d) = n + l
        /\ \A m \in 1..n : d[m] = c[m]
        /\ Laid(d, n, u, l)
    <3>1. Row(Byte, c, u, n, l, d)
      BY <1>7, <1>9, <2>1, <2>2 DEF Row
    <3>2. Rowed(Byte, c, u, n, l, d)
      BY <3>1, Rows
    <3> QED BY <3>2 DEF Rowed
  <2> QED BY <2>1, <2>2, <2>3
<1>12. PICK e : /\ e = d \o v /\ e \in Seq(Byte) /\ Len(e) = k + 2 + l + 3
                /\ \A m \in 1..k + 2 + l : e[m] = d[m]
                /\ Laid(e, k + 2 + l, v, 3)
  <2>1. PICK n \in Nat : n = k + 2 + l /\ Len(d) = n
    BY <1>10, <1>11
  <2>2. PICK e : e = d \o v
    OBVIOUS
  <2>4. PICK f \in Nat : f = 3 /\ Len(v) = f
    BY <1>6
  <2>3. /\ e \in Seq(Byte) /\ Len(e) = n + f
        /\ \A m \in 1..n : e[m] = d[m]
        /\ Laid(e, n, v, f)
    <3>1. Row(Byte, d, v, n, f, e)
      BY <1>6, <1>10, <2>1, <2>2, <2>4 DEF Row
    <3>2. Rowed(Byte, d, v, n, f, e)
      BY <3>1, Rows
    <3> QED BY <3>2 DEF Rowed
  <2> QED BY <2>1, <2>2, <2>3, <2>4
<1>13. EventBytes(j, i) = e
  BY <1>3, <1>9, <1>10, <1>12
<1>14. Size(j) = k + 2 + l + 3 /\ Size(j) \in {5, 7, 9}
  BY <1>7, <1>8 DEF Size
<1>15. /\ k = 2 => e[1] = Field /\ e[2] = Newline
       /\ e[k + 1] = Data /\ e[k + 2] = x
       /\ l = 2 => e[k + 3] = Newline /\ e[k + 4] = Data
       /\ e[k + l + 3] = y /\ e[k + l + 4] = Newline /\ e[k + l + 5] = Newline
  <2>0. c[k + 1] = Data /\ c[k + 2] = x
    <3>1. 1 \in 1..2 /\ 2 \in 1..2
      OBVIOUS
    <3>2. c[k + 1] = r[1] /\ c[k + 2] = r[2]
      BY <1>9, <3>1, Zenon DEF Laid
    <3> QED BY <1>5, <3>2
  <2>1. k = 2 => e[1] = Field /\ e[2] = Newline
    <3> SUFFICES ASSUME k = 2 PROVE e[1] = Field /\ e[2] = Newline
      OBVIOUS
    <3>1. c[1] = Field /\ c[2] = Newline
      BY <1>4, <1>8, <1>9
    <3>2. 1 \in 1..k + 2 /\ 2 \in 1..k + 2 /\ 1 \in 1..k + 2 + l /\ 2 \in 1..k + 2 + l
      BY <1>11
    <3> QED BY <1>10, <1>12, <3>1, <3>2
  <2>2. e[k + 1] = Data /\ e[k + 2] = x
    <3>1. k + 1 \in 1..k + 2 /\ k + 2 \in 1..k + 2 /\ k + 1 \in 1..k + 2 + l /\ k + 2 \in 1..k + 2 + l
      BY <1>11
    <3> QED BY <1>10, <1>12, <2>0, <3>1
  <2>3. l = 2 => e[k + 3] = Newline /\ e[k + 4] = Data
    <3> SUFFICES ASSUME l = 2 PROVE e[k + 3] = Newline /\ e[k + 4] = Data
      OBVIOUS
    <3>1. d[k + 2 + 1] = Newline /\ d[k + 2 + 2] = Data
      <4>1. 1 \in 1..l /\ 2 \in 1..l
        OBVIOUS
      <4>2. d[k + 2 + 1] = u[1] /\ d[k + 2 + 2] = u[2]
        BY <1>10, <4>1, Zenon DEF Laid
      <4>3. j.twoLines
        BY <1>7
      <4> QED BY <1>7, <4>2, <4>3
    <3>2. k + 2 + 1 = k + 3 /\ k + 2 + 2 = k + 4 /\ k + 3 \in 1..k + 2 + l /\ k + 4 \in 1..k + 2 + l
      OBVIOUS
    <3> QED BY <1>12, <3>1, <3>2
  <2>4. e[k + l + 3] = y /\ e[k + l + 4] = Newline /\ e[k + l + 5] = Newline
    <3>1. e[k + 2 + l + 1] = y /\ e[k + 2 + l + 2] = Newline /\ e[k + 2 + l + 3] = Newline
      <4>1. 1 \in 1..3 /\ 2 \in 1..3 /\ 3 \in 1..3
        OBVIOUS
      <4>2. e[k + 2 + l + 1] = v[1] /\ e[k + 2 + l + 2] = v[2] /\ e[k + 2 + l + 3] = v[3]
        BY <1>12, <4>1, Zenon DEF Laid
      <4> QED BY <1>6, <4>2
    <3>2. k + 2 + l + 1 = k + l + 3 /\ k + 2 + l + 2 = k + l + 4 /\ k + 2 + l + 3 = k + l + 5
      BY <1>11
    <3> QED BY <3>1, <3>2
  <2> QED BY <2>1, <2>2, <2>3, <2>4
<1>16. ASSUME NEW m \in 0..Size(j) - 1
       PROVE  e[m + 1] = Part(i, m - Lead(j), j.twoLines)
  <2>0. PICK z \in Int : z = m - Lead(j) /\ m = z + k /\ (z < 0 => k = 2) /\ z >= -2 /\ z < 5 + l
    <3>1. m \in Int /\ m >= 0 /\ m < k + 2 + l + 3
      BY <1>8, <1>11, <1>14
    <3>2. m - k \in Int /\ m = (m - k) + k /\ (m - k < 0 => k = 2) /\ m - k >= -2 /\ m - k < 5 + l
      BY <1>8, <1>11, <3>1
    <3> QED BY <1>8, <3>2
  <2>1. CASE j.twoLines
    <3>1. l = 2
      BY <1>7, <2>1
    <3>2. z \in {-2, -1, 0, 1, 2, 3, 4, 5, 6}
      BY <2>0, <3>1
    <3>3. CASE z = -2
      <4>1. Part(i, z, j.twoLines) = Field
        BY <1>1, <3>3 DEF Part
      <4>2. m + 1 = 1
        BY <1>8, <2>0, <3>3
      <4> QED BY <1>15, <2>0, <3>3, <4>1, <4>2
    <3>4. CASE z = -1
      <4>1. Part(i, z, j.twoLines) = Newline
        BY <1>1, <3>4 DEF Part
      <4>2. m + 1 = 2
        BY <1>8, <2>0, <3>4
      <4> QED BY <1>15, <2>0, <3>4, <4>1, <4>2
    <3>5. CASE z = 0
      <4>1. Part(i, z, j.twoLines) = Data
        BY <1>1, <3>5 DEF Part
      <4>2. m + 1 = k + 1
        BY <1>8, <2>0, <3>5
      <4> QED BY <1>15, <2>0, <3>5, <4>1, <4>2
    <3>6. CASE z = 1
      <4>1. Part(i, z, j.twoLines) = x
        BY <1>1, <3>6 DEF Part
      <4>2. m + 1 = k + 2
        BY <1>8, <2>0, <3>6
      <4> QED BY <1>15, <2>0, <3>6, <4>1, <4>2
    <3>7. CASE z = 2
      <4>1. Part(i, z, j.twoLines) = Newline
        BY <1>1, <2>1, <3>7 DEF Part
      <4>2. m + 1 = k + 3
        BY <1>8, <2>0, <3>1, <3>7
      <4> QED BY <1>15, <2>0, <3>1, <3>7, <4>1, <4>2
    <3>8. CASE z = 3
      <4>1. Part(i, z, j.twoLines) = Data
        BY <1>1, <2>1, <3>8 DEF Part
      <4>2. m + 1 = k + 4
        BY <1>8, <2>0, <3>1, <3>8
      <4> QED BY <1>15, <2>0, <3>1, <3>8, <4>1, <4>2
    <3>9. CASE z = 4
      <4>1. Part(i, z, j.twoLines) = y
        BY <1>1, <2>1, <3>9 DEF Part
      <4>2. m + 1 = k + l + 3
        BY <1>8, <2>0, <3>1, <3>9
      <4> QED BY <1>15, <2>0, <3>1, <3>9, <4>1, <4>2
    <3>10. CASE z = 5
      <4>1. Part(i, z, j.twoLines) = Newline
        BY <1>1, <2>1, <3>10 DEF Part
      <4>2. m + 1 = k + l + 4
        BY <1>8, <2>0, <3>1, <3>10
      <4> QED BY <1>15, <2>0, <3>1, <3>10, <4>1, <4>2
    <3>11. CASE z = 6
      <4>1. Part(i, z, j.twoLines) = Newline
        BY <1>1, <2>1, <3>11 DEF Part
      <4>2. m + 1 = k + l + 5
        BY <1>8, <2>0, <3>1, <3>11
      <4> QED BY <1>15, <2>0, <3>1, <3>11, <4>1, <4>2
    <3> QED BY <2>0, <3>2, <3>3, <3>4, <3>5, <3>6, <3>7, <3>8, <3>9, <3>10, <3>11
  <2>2. CASE ~j.twoLines
    <3>1. l = 0
      BY <1>7, <2>2
    <3>2. z \in {-2, -1, 0, 1, 2, 3, 4}
      BY <2>0, <3>1
    <3>3. CASE z = -2
      <4>1. Part(i, z, j.twoLines) = Field
        BY <1>1, <3>3 DEF Part
      <4>2. m + 1 = 1
        BY <1>8, <2>0, <3>3
      <4> QED BY <1>15, <2>0, <3>3, <4>1, <4>2
    <3>4. CASE z = -1
      <4>1. Part(i, z, j.twoLines) = Newline
        BY <1>1, <3>4 DEF Part
      <4>2. m + 1 = 2
        BY <1>8, <2>0, <3>4
      <4> QED BY <1>15, <2>0, <3>4, <4>1, <4>2
    <3>5. CASE z = 0
      <4>1. Part(i, z, j.twoLines) = Data
        BY <1>1, <3>5 DEF Part
      <4>2. m + 1 = k + 1
        BY <1>8, <2>0, <3>5
      <4> QED BY <1>15, <2>0, <3>5, <4>1, <4>2
    <3>6. CASE z = 1
      <4>1. Part(i, z, j.twoLines) = x
        BY <1>1, <3>6 DEF Part
      <4>2. m + 1 = k + 2
        BY <1>8, <2>0, <3>6
      <4> QED BY <1>15, <2>0, <3>6, <4>1, <4>2
    <3>7. CASE z = 2
      <4>1. Part(i, z, j.twoLines) = y
        BY <1>1, <2>2, <3>7 DEF Part
      <4>2. m + 1 = k + l + 3
        BY <1>8, <2>0, <3>1, <3>7
      <4> QED BY <1>15, <2>0, <3>1, <3>7, <4>1, <4>2
    <3>8. CASE z = 3
      <4>1. Part(i, z, j.twoLines) = Newline
        BY <1>1, <2>2, <3>8 DEF Part
      <4>2. m + 1 = k + l + 4
        BY <1>8, <2>0, <3>1, <3>8
      <4> QED BY <1>15, <2>0, <3>1, <3>8, <4>1, <4>2
    <3>9. CASE z = 4
      <4>1. Part(i, z, j.twoLines) = Newline
        BY <1>1, <2>2, <3>9 DEF Part
      <4>2. m + 1 = k + l + 5
        BY <1>8, <2>0, <3>1, <3>9
      <4> QED BY <1>15, <2>0, <3>1, <3>9, <4>1, <4>2
    <3> QED BY <2>0, <3>2, <3>3, <3>4, <3>5, <3>6, <3>7, <3>8, <3>9
  <2> QED BY <2>1, <2>2
<1> QED BY <1>12, <1>13, <1>14, <1>16
-----------------------------------------------------------------------------
\* What an event's data are a payload of.
LEMMA PayloadIs ==
    ASSUME NEW script, DOMAIN script \subseteq Nat
    PROVE  /\ \A i \in DOMAIN script : payload(<< <<i, 1>>, <<i, 2>> >>, script) = <<script[i]>>
           /\ payload(<<Done>>, script) = << >> /\ payload(<< >>, script) = <<Torn>>
           /\ \A i : payload(<< <<i, 1>> >>, script) = <<Torn>>
<1>1. ASSUME NEW i \in DOMAIN script PROVE payload(<< <<i, 1>>, <<i, 2>> >>, script) = <<script[i]>>
  <2>1. PICK data : data = << <<i, 1>>, <<i, 2>> >>
    OBVIOUS
  <2>2. data[1][1] = i
    BY <2>1
  <2>3. payload(data, script) = <<script[data[1][1]]>>
    BY <2>1 DEF payload
  <2> QED BY <2>1, <2>2, <2>3
<1>2. ASSUME NEW data, Len(data) # 2 PROVE payload(data, script) = IF data = <<Done>> THEN << >> ELSE <<Torn>>
  <2>1. \A i : data # << <<i, 1>>, <<i, 2>> >>
    <3>1. \A e, f : Len(<<e, f>>) = 2
      OBVIOUS
    <3> QED BY <1>2, <3>1
  <2> QED BY <2>1 DEF payload
<1>3. Len(<<Done>>) # 2 /\ Len(<< >>) # 2 /\ << >> # <<Done>>
  OBVIOUS
<1>4. ASSUME NEW i PROVE Len(<< <<i, 1>> >>) # 2 /\ << <<i, 1>> >> # <<Done>>
  <2>1. <<i, 1>> # Done
    BY DEF Done
  <2> QED BY <2>1
<1> QED BY <1>1, <1>2, <1>3, <1>4

\* How the steps of the splitter change what it holds.
LEMMA LineGrows ==
    ASSUME NEW sp, NEW l, NEW d, NEW h, NEW b, Holds(sp, l, d, h)
    PROVE  Holds([sp EXCEPT !.line = @ \o <<b>>], l \o <<b>>, d, h)
  BY DEF Holds

LEMMA DataLine ==
    ASSUME NEW sp, NEW l, NEW d, NEW script, {"line", "data", "hasData"} \subseteq DOMAIN sp,
           sp.line = l, sp.data = d, l # << >>, Head(l) = Data
    PROVE  /\ Holds(handleLine(sp), << >>, d \o Tail(l), TRUE)
           /\ lineYields(sp, script) = << >> /\ flushYields(sp, script) = payload(d \o Tail(l), script)
<1>1. Holds(handleLine(sp), << >>, d \o Tail(l), TRUE)
  BY DEF Holds, handleLine
<1>2. lineYields(sp, script) = << >>
  BY DEF lineYields
<1>3. flushYields(sp, script) = payload(d \o Tail(l), script)
  BY <1>1 DEF Holds, flushYields
<1> QED BY <1>1, <1>2, <1>3

LEMMA OtherLine ==
    ASSUME NEW sp, NEW l, NEW d, NEW h, NEW script, Holds(sp, l, d, h), l # << >>, Head(l) # Data
    PROVE  /\ Holds(handleLine(sp), << >>, d, h)
           /\ lineYields(sp, script) = << >> /\ (h = FALSE => flushYields(sp, script) = << >>)
<1>1. Holds(handleLine(sp), << >>, d, h)
  BY DEF Holds, handleLine
<1>2. lineYields(sp, script) = << >>
  BY DEF Holds, lineYields
<1>3. h = FALSE => flushYields(sp, script) = << >>
  BY <1>1 DEF Holds, flushYields
<1> QED BY <1>1, <1>2, <1>3

LEMMA EmptyLine ==
    ASSUME NEW sp, NEW l, NEW d, NEW script, Holds(sp, l, d, FALSE), l = << >>
    PROVE  /\ Holds(handleLine(sp), << >>, << >>, FALSE)
           /\ lineYields(sp, script) = << >> /\ flushYields(sp, script) = << >>
<1>1. Holds(handleLine(sp), << >>, << >>, FALSE)
  BY DEF Holds, handleLine, finishEvent
<1>2. lineYields(sp, script) = << >>
  BY DEF Holds, lineYields
<1>3. flushYields(sp, script) = << >>
  BY DEF Holds, flushYields
<1> QED BY <1>1, <1>2, <1>3

LEMMA BlankLine ==
    ASSUME NEW sp, NEW l, NEW d, NEW script, Holds(sp, l, d, TRUE), l = << >>
    PROVE  /\ Holds(handleLine(sp), << >>, << >>, FALSE)
           /\ lineYields(sp, script) = payload(d, script) /\ flushYields(sp, script) = payload(d, script)
<1>1. Holds(handleLine(sp), << >>, << >>, FALSE)
  BY DEF Holds, handleLine, finishEvent
<1>2. lineYields(sp, script) = payload(d, script)
  BY DEF Holds, lineYields
<1>3. flushYields(sp, script) = payload(d, script)
  BY DEF Holds, flushYields
<1> QED BY <1>1, <1>2, <1>3

\* The end of an event, the field that names it not counted.
Full(two) == IF two THEN 7 ELSE 5

\* One byte more: of the line, or its end.
Grows(sp, i, k, two) ==
    /\ Part(i, k, two) # Newline /\ k + 1 < Full(two)
    /\ Midway([sp EXCEPT !.line = @ \o <<Part(i, k, two)>>], i, k + 1, two)

Turns(sp, i, k, two, script) ==
    /\ Part(i, k, two) = Newline
    /\ k + 1 = Full(two) => Holds(handleLine(sp), << >>, << >>, FALSE) /\ lineYields(sp, script) = <<script[i]>>
    /\ k + 1 # Full(two) => Midway(handleLine(sp), i, k + 1, two) /\ lineYields(sp, script) = << >>

Yields(sp, i, k, two, script) ==
    flushYields(sp, script) =
        IF k >= Full(two) - 2 THEN <<script[i]>>
        ELSE IF k <= 0 THEN << >> ELSE <<Torn>>

LEMMA OneByte ==
    ASSUME NEW script, DOMAIN script \subseteq Nat, NEW i \in DOMAIN script, NEW j, NEW sp,
           NEW k \in Int, k >= -2, k < Full(j.twoLines), Midway(sp, i, k, j.twoLines)
    PROVE  (Grows(sp, i, k, j.twoLines) \/ Turns(sp, i, k, j.twoLines, script)) /\ Yields(sp, i, k, j.twoLines, script)
<1>0. PICK a, b : a = <<i, 1>> /\ b = <<i, 2>> /\ a # Newline /\ b # Newline
  BY Bytes
<1>1. /\ payload(<<a, b>>, script) = <<script[i]>> /\ payload(<<Done>>, script) = << >>
      /\ payload(<< >>, script) = <<Torn>> /\ payload(<<a>>, script) = <<Torn>>
  BY <1>0, PayloadIs
<1>2. Data # Newline /\ Field # Newline /\ Field # Data
  BY Bytes
<1>3. CASE j.twoLines
  <2>0. Full(j.twoLines) = 7 /\ k \in {-2, -1, 0, 1, 2, 3, 4, 5, 6}
    BY <1>3 DEF Full
  <2>1. CASE k = -2
    <3>1. PICK l, d : l = << >> /\ d = << >>
      OBVIOUS
    <3>2. /\ LineOf(i, k, j.twoLines) = l /\ DataOf(i, k, j.twoLines) = d
          /\ HasData(k, j.twoLines) = FALSE /\ Part(i, k, j.twoLines) = Field
      BY <1>0, <1>3, <2>1, <3>1 DEF LineOf, DataOf, HasData, Part
    <3>3. Holds(sp, l, d, FALSE)
      BY <3>2 DEF Midway
    <3>4. k + 1 < Full(j.twoLines) /\ k + 1 = -1
      BY <2>0, <2>1
    <3>5. PICK l1, d1 : l1 = <<Field>> /\ d1 = << >>
      OBVIOUS
    <3>6. /\ LineOf(i, k + 1, j.twoLines) = l1 /\ DataOf(i, k + 1, j.twoLines) = d1
          /\ HasData(k + 1, j.twoLines) = FALSE
      BY <1>0, <1>3, <3>4, <3>5 DEF LineOf, DataOf, HasData
    <3>7. /\ Holds(handleLine(sp), << >>, << >>, FALSE)
          /\ lineYields(sp, script) = << >>
          /\ flushYields(sp, script) = << >>
      BY <3>1, <3>3, EmptyLine
    <3>9. l \o <<Field>> = l1
      BY <3>1, <3>5, Behind
    <3>10. Holds([sp EXCEPT !.line = @ \o <<Field>>], l \o <<Field>>, d, FALSE)
      BY <3>3, LineGrows
    <3>11. Midway([sp EXCEPT !.line = @ \o <<Field>>], i, k + 1, j.twoLines)
      BY <3>1, <3>5, <3>6, <3>9, <3>10 DEF Midway
    <3>12. Grows(sp, i, k, j.twoLines)
      BY <1>0, <1>2, <3>2, <3>4, <3>11 DEF Grows
    <3>13. flushYields(sp, script) = << >>
      BY <1>1, <3>1, <3>7
    <3>14. Yields(sp, i, k, j.twoLines, script)
      BY <2>0, <2>1, <3>13 DEF Yields
    <3> QED BY <3>12, <3>14
  <2>2. CASE k = -1
    <3>1. PICK l, d : l = <<Field>> /\ d = << >>
      OBVIOUS
    <3>2. /\ LineOf(i, k, j.twoLines) = l /\ DataOf(i, k, j.twoLines) = d
          /\ HasData(k, j.twoLines) = FALSE /\ Part(i, k, j.twoLines) = Newline
      BY <1>0, <1>3, <2>2, <3>1 DEF LineOf, DataOf, HasData, Part
    <3>3. Holds(sp, l, d, FALSE)
      BY <3>2 DEF Midway
    <3>4. k + 1 < Full(j.twoLines) /\ k + 1 = 0
      BY <2>0, <2>2
    <3>5. PICK l1, d1 : l1 = << >> /\ d1 = << >>
      OBVIOUS
    <3>6. /\ LineOf(i, k + 1, j.twoLines) = l1 /\ DataOf(i, k + 1, j.twoLines) = d1
          /\ HasData(k + 1, j.twoLines) = FALSE
      BY <1>0, <1>3, <3>4, <3>5 DEF LineOf, DataOf, HasData
    <3>8. l # << >> /\ Head(l) # Data
      BY <1>2, <3>1, Behind
    <3>7. /\ Holds(handleLine(sp), << >>, d, FALSE)
          /\ lineYields(sp, script) = << >> /\ flushYields(sp, script) = << >>
      BY <3>3, <3>8, OtherLine
    <3>11. Midway(handleLine(sp), i, k + 1, j.twoLines)
      BY <3>1, <3>5, <3>6, <3>7 DEF Midway
    <3>12. Turns(sp, i, k, j.twoLines, script)
      BY <2>0, <3>2, <3>4, <3>7, <3>11 DEF Turns
    <3>13. flushYields(sp, script) = << >>
      BY <1>1, <3>1, <3>7
    <3>14. Yields(sp, i, k, j.twoLines, script)
      BY <2>0, <2>2, <3>13 DEF Yields
    <3> QED BY <3>12, <3>14
  <2>3. CASE k = 0
    <3>1. PICK l, d : l = << >> /\ d = << >>
      OBVIOUS
    <3>2. /\ LineOf(i, k, j.twoLines) = l /\ DataOf(i, k, j.twoLines) = d
          /\ HasData(k, j.twoLines) = FALSE /\ Part(i, k, j.twoLines) = Data
      BY <1>0, <1>3, <2>3, <3>1 DEF LineOf, DataOf, HasData, Part
    <3>3. Holds(sp, l, d, FALSE)
      BY <3>2 DEF Midway
    <3>4. k + 1 < Full(j.twoLines) /\ k + 1 = 1
      BY <2>0, <2>3
    <3>5. PICK l1, d1 : l1 = <<Data>> /\ d1 = << >>
      OBVIOUS
    <3>6. /\ LineOf(i, k + 1, j.twoLines) = l1 /\ DataOf(i, k + 1, j.twoLines) = d1
          /\ HasData(k + 1, j.twoLines) = FALSE
      BY <1>0, <1>3, <3>4, <3>5 DEF LineOf, DataOf, HasData
    <3>7. /\ Holds(handleLine(sp), << >>, << >>, FALSE)
          /\ lineYields(sp, script) = << >>
          /\ flushYields(sp, script) = << >>
      BY <3>1, <3>3, EmptyLine
    <3>9. l \o <<Data>> = l1
      BY <3>1, <3>5, Behind
    <3>10. Holds([sp EXCEPT !.line = @ \o <<Data>>], l \o <<Data>>, d, FALSE)
      BY <3>3, LineGrows
    <3>11. Midway([sp EXCEPT !.line = @ \o <<Data>>], i, k + 1, j.twoLines)
      BY <3>1, <3>5, <3>6, <3>9, <3>10 DEF Midway
    <3>12. Grows(sp, i, k, j.twoLines)
      BY <1>0, <1>2, <3>2, <3>4, <3>11 DEF Grows
    <3>13. flushYields(sp, script) = << >>
      BY <1>1, <3>1, <3>7
    <3>14. Yields(sp, i, k, j.twoLines, script)
      BY <2>0, <2>3, <3>13 DEF Yields
    <3> QED BY <3>12, <3>14
  <2>4. CASE k = 1
    <3>1. PICK l, d : l = <<Data>> /\ d = << >>
      OBVIOUS
    <3>2. /\ LineOf(i, k, j.twoLines) = l /\ DataOf(i, k, j.twoLines) = d
          /\ HasData(k, j.twoLines) = FALSE /\ Part(i, k, j.twoLines) = a
      BY <1>0, <1>3, <2>4, <3>1 DEF LineOf, DataOf, HasData, Part
    <3>3. Holds(sp, l, d, FALSE)
      BY <3>2 DEF Midway
    <3>4. k + 1 < Full(j.twoLines) /\ k + 1 = 2
      BY <2>0, <2>4
    <3>5. PICK l1, d1 : l1 = <<Data, a>> /\ d1 = << >>
      OBVIOUS
    <3>6. /\ LineOf(i, k + 1, j.twoLines) = l1 /\ DataOf(i, k + 1, j.twoLines) = d1
          /\ HasData(k + 1, j.twoLines) = FALSE
      BY <1>0, <1>3, <3>4, <3>5 DEF LineOf, DataOf, HasData
    <3>8. l # << >> /\ Head(l) = Data /\ d \o Tail(l) = << >>
      BY <3>1, Behind
    <3>7. /\ Holds(handleLine(sp), << >>, << >>, TRUE)
          /\ lineYields(sp, script) = << >> /\ flushYields(sp, script) = payload(<< >>, script)
      <4>2. {"line", "data", "hasData"} \subseteq DOMAIN sp /\ sp.line = l /\ sp.data = d
        BY <3>3 DEF Holds
      <4>1. /\ Holds(handleLine(sp), << >>, d \o Tail(l), TRUE)
            /\ lineYields(sp, script) = << >> /\ flushYields(sp, script) = payload(d \o Tail(l), script)
        BY <3>8, <4>2, DataLine
      <4> QED BY <3>8, <4>1
    <3>9. l \o <<a>> = l1
      BY <3>1, <3>5, Behind
    <3>10. Holds([sp EXCEPT !.line = @ \o <<a>>], l \o <<a>>, d, FALSE)
      BY <3>3, LineGrows
    <3>11. Midway([sp EXCEPT !.line = @ \o <<a>>], i, k + 1, j.twoLines)
      BY <3>1, <3>5, <3>6, <3>9, <3>10 DEF Midway
    <3>12. Grows(sp, i, k, j.twoLines)
      BY <1>0, <1>2, <3>2, <3>4, <3>11 DEF Grows
    <3>13. flushYields(sp, script) = <<Torn>>
      BY <1>1, <3>1, <3>7
    <3>14. Yields(sp, i, k, j.twoLines, script)
      BY <2>0, <2>4, <3>13 DEF Yields
    <3> QED BY <3>12, <3>14
  <2>5. CASE k = 2
    <3>1. PICK l, d : l = <<Data, a>> /\ d = << >>
      OBVIOUS
    <3>2. /\ LineOf(i, k, j.twoLines) = l /\ DataOf(i, k, j.twoLines) = d
          /\ HasData(k, j.twoLines) = FALSE /\ Part(i, k, j.twoLines) = Newline
      BY <1>0, <1>3, <2>5, <3>1 DEF LineOf, DataOf, HasData, Part
    <3>3. Holds(sp, l, d, FALSE)
      BY <3>2 DEF Midway
    <3>4. k + 1 < Full(j.twoLines) /\ k + 1 = 3
      BY <2>0, <2>5
    <3>5. PICK l1, d1 : l1 = << >> /\ d1 = <<a>>
      OBVIOUS
    <3>6. /\ LineOf(i, k + 1, j.twoLines) = l1 /\ DataOf(i, k + 1, j.twoLines) = d1
          /\ HasData(k + 1, j.twoLines) = TRUE
      BY <1>0, <1>3, <3>4, <3>5 DEF LineOf, DataOf, HasData
    <3>8. l # << >> /\ Head(l) = Data /\ d \o Tail(l) = <<a>>
      BY <3>1, Behind
    <3>7. /\ Holds(handleLine(sp), << >>, <<a>>, TRUE)
          /\ lineYields(sp, script) = << >> /\ flushYields(sp, script) = payload(<<a>>, script)
      <4>2. {"line", "data", "hasData"} \subseteq DOMAIN sp /\ sp.line = l /\ sp.data = d
        BY <3>3 DEF Holds
      <4>1. /\ Holds(handleLine(sp), << >>, d \o Tail(l), TRUE)
            /\ lineYields(sp, script) = << >> /\ flushYields(sp, script) = payload(d \o Tail(l), script)
        BY <3>8, <4>2, DataLine
      <4> QED BY <3>8, <4>1
    <3>11. Midway(handleLine(sp), i, k + 1, j.twoLines)
      BY <3>1, <3>5, <3>6, <3>7 DEF Midway
    <3>12. Turns(sp, i, k, j.twoLines, script)
      BY <2>0, <3>2, <3>4, <3>7, <3>11 DEF Turns
    <3>13. flushYields(sp, script) = <<Torn>>
      BY <1>1, <3>1, <3>7
    <3>14. Yields(sp, i, k, j.twoLines, script)
      BY <2>0, <2>5, <3>13 DEF Yields
    <3> QED BY <3>12, <3>14
  <2>6. CASE k = 3
    <3>1. PICK l, d : l = << >> /\ d = <<a>>
      OBVIOUS
    <3>2. /\ LineOf(i, k, j.twoLines) = l /\ DataOf(i, k, j.twoLines) = d
          /\ HasData(k, j.twoLines) = TRUE /\ Part(i, k, j.twoLines) = Data
      BY <1>0, <1>3, <2>6, <3>1 DEF LineOf, DataOf, HasData, Part
    <3>3. Holds(sp, l, d, TRUE)
      BY <3>2 DEF Midway
    <3>4. k + 1 < Full(j.twoLines) /\ k + 1 = 4
      BY <2>0, <2>6
    <3>5. PICK l1, d1 : l1 = <<Data>> /\ d1 = <<a>>
      OBVIOUS
    <3>6. /\ LineOf(i, k + 1, j.twoLines) = l1 /\ DataOf(i, k + 1, j.twoLines) = d1
          /\ HasData(k + 1, j.twoLines) = TRUE
      BY <1>0, <1>3, <3>4, <3>5 DEF LineOf, DataOf, HasData
    <3>7. /\ Holds(handleLine(sp), << >>, << >>, FALSE)
          /\ lineYields(sp, script) = payload(d, script)
          /\ flushYields(sp, script) = payload(d, script)
      BY <3>1, <3>3, BlankLine
    <3>9. l \o <<Data>> = l1
      BY <3>1, <3>5, Behind
    <3>10. Holds([sp EXCEPT !.line = @ \o <<Data>>], l \o <<Data>>, d, TRUE)
      BY <3>3, LineGrows
    <3>11. Midway([sp EXCEPT !.line = @ \o <<Data>>], i, k + 1, j.twoLines)
      BY <3>1, <3>5, <3>6, <3>9, <3>10 DEF Midway
    <3>12. Grows(sp, i, k, j.twoLines)
      BY <1>0, <1>2, <3>2, <3>4, <3>11 DEF Grows
    <3>13. flushYields(sp, script) = <<Torn>>
      BY <1>1, <3>1, <3>7
    <3>14. Yields(sp, i, k, j.twoLines, script)
      BY <2>0, <2>6, <3>13 DEF Yields
    <3> QED BY <3>12, <3>14
  <2>7. CASE k = 4
    <3>1. PICK l, d : l = <<Data>> /\ d = <<a>>
      OBVIOUS
    <3>2. /\ LineOf(i, k, j.twoLines) = l /\ DataOf(i, k, j.twoLines) = d
          /\ HasData(k, j.twoLines) = TRUE /\ Part(i, k, j.twoLines) = b
      BY <1>0, <1>3, <2>7, <3>1 DEF LineOf, DataOf, HasData, Part
    <3>3. Holds(sp, l, d, TRUE)
      BY <3>2 DEF Midway
    <3>4. k + 1 < Full(j.twoLines) /\ k + 1 = 5
      BY <2>0, <2>7
    <3>5. PICK l1, d1 : l1 = <<Data, b>> /\ d1 = <<a>>
      OBVIOUS
    <3>6. /\ LineOf(i, k + 1, j.twoLines) = l1 /\ DataOf(i, k + 1, j.twoLines) = d1
          /\ HasData(k + 1, j.twoLines) = TRUE
      BY <1>0, <1>3, <3>4, <3>5 DEF LineOf, DataOf, HasData
    <3>8. l # << >> /\ Head(l) = Data /\ d \o Tail(l) = <<a>>
      BY <3>1, Behind
    <3>7. /\ Holds(handleLine(sp), << >>, <<a>>, TRUE)
          /\ lineYields(sp, script) = << >> /\ flushYields(sp, script) = payload(<<a>>, script)
      <4>2. {"line", "data", "hasData"} \subseteq DOMAIN sp /\ sp.line = l /\ sp.data = d
        BY <3>3 DEF Holds
      <4>1. /\ Holds(handleLine(sp), << >>, d \o Tail(l), TRUE)
            /\ lineYields(sp, script) = << >> /\ flushYields(sp, script) = payload(d \o Tail(l), script)
        BY <3>8, <4>2, DataLine
      <4> QED BY <3>8, <4>1
    <3>9. l \o <<b>> = l1
      BY <3>1, <3>5, Behind
    <3>10. Holds([sp EXCEPT !.line = @ \o <<b>>], l \o <<b>>, d, TRUE)
      BY <3>3, LineGrows
    <3>11. Midway([sp EXCEPT !.line = @ \o <<b>>], i, k + 1, j.twoLines)
      BY <3>1, <3>5, <3>6, <3>9, <3>10 DEF Midway
    <3>12. Grows(sp, i, k, j.twoLines)
      BY <1>0, <1>2, <3>2, <3>4, <3>11 DEF Grows
    <3>13. flushYields(sp, script) = <<Torn>>
      BY <1>1, <3>1, <3>7
    <3>14. Yields(sp, i, k, j.twoLines, script)
      BY <2>0, <2>7, <3>13 DEF Yields
    <3> QED BY <3>12, <3>14
  <2>8. CASE k = 5
    <3>1. PICK l, d : l = <<Data, b>> /\ d = <<a>>
      OBVIOUS
    <3>2. /\ LineOf(i, k, j.twoLines) = l /\ DataOf(i, k, j.twoLines) = d
          /\ HasData(k, j.twoLines) = TRUE /\ Part(i, k, j.twoLines) = Newline
      BY <1>0, <1>3, <2>8, <3>1 DEF LineOf, DataOf, HasData, Part
    <3>3. Holds(sp, l, d, TRUE)
      BY <3>2 DEF Midway
    <3>4. k + 1 < Full(j.twoLines) /\ k + 1 = 6
      BY <2>0, <2>8
    <3>5. PICK l1, d1 : l1 = << >> /\ d1 = <<a, b>>
      OBVIOUS
    <3>6. /\ LineOf(i, k + 1, j.twoLines) = l1 /\ DataOf(i, k + 1, j.twoLines) = d1
          /\ HasData(k + 1, j.twoLines) = TRUE
      BY <1>0, <1>3, <3>4, <3>5 DEF LineOf, DataOf, HasData
    <3>8. l # << >> /\ Head(l) = Data /\ d \o Tail(l) = <<a, b>>
      BY <3>1, Behind
    <3>7. /\ Holds(handleLine(sp), << >>, <<a, b>>, TRUE)
          /\ lineYields(sp, script) = << >> /\ flushYields(sp, script) = payload(<<a, b>>, script)
      <4>2. {"line", "data", "hasData"} \subseteq DOMAIN sp /\ sp.line = l /\ sp.data = d
        BY <3>3 DEF Holds
      <4>1. /\ Holds(handleLine(sp), << >>, d \o Tail(l), TRUE)
            /\ lineYields(sp, script) = << >> /\ flushYields(sp, script) = payload(d \o Tail(l), script)
        BY <3>8, <4>2, DataLine
      <4> QED BY <3>8, <4>1
    <3>11. Midway(handleLine(sp), i, k + 1, j.twoLines)
      BY <3>1, <3>5, <3>6, <3>7 DEF Midway
    <3>12. Turns(sp, i, k, j.twoLines, script)
      BY <2>0, <3>2, <3>4, <3>7, <3>11 DEF Turns
    <3>13. flushYields(sp, script) = <<script[i]>>
      BY <1>1, <3>1, <3>7
    <3>14. Yields(sp, i, k, j.twoLines, script)
      BY <2>0, <2>8, <3>13 DEF Yields
    <3> QED BY <3>12, <3>14
  <2>9. CASE k = 6
    <3>1. PICK l, d : l = << >> /\ d = <<a, b>>
      OBVIOUS
    <3>2. /\ LineOf(i, k, j.twoLines) = l /\ DataOf(i, k, j.twoLines) = d
          /\ HasData(k, j.twoLines) = TRUE /\ Part(i, k, j.twoLines) = Newline
      BY <1>0, <1>3, <2>9, <3>1 DEF LineOf, DataOf, HasData, Part
    <3>3. Holds(sp, l, d, TRUE)
      BY <3>2 DEF Midway
    <3>4. k + 1 = Full(j.twoLines) /\ k + 1 = 7
      BY <2>0, <2>9
    <3>7. /\ Holds(handleLine(sp), << >>, << >>, FALSE)
          /\ lineYields(sp, script) = payload(d, script)
          /\ flushYields(sp, script) = payload(d, script)
      BY <3>1, <3>3, BlankLine
    <3>12. Turns(sp, i, k, j.twoLines, script)
      BY <1>1, <3>1, <3>2, <3>4, <3>7 DEF Turns
    <3>13. flushYields(sp, script) = <<script[i]>>
      BY <1>1, <3>1, <3>7
    <3>14. Yields(sp, i, k, j.twoLines, script)
      BY <2>0, <2>9, <3>13 DEF Yields
    <3> QED BY <3>12, <3>14
  <2> QED BY <2>0, <2>1, <2>2, <2>3, <2>4, <2>5, <2>6, <2>7, <2>8, <2>9
<1>4. CASE ~j.twoLines
  <2>0. Full(j.twoLines) = 5 /\ k \in {-2, -1, 0, 1, 2, 3, 4}
    BY <1>4 DEF Full
  <2>1. CASE k = -2
    <3>1. PICK l, d : l = << >> /\ d = << >>
      OBVIOUS
    <3>2. /\ LineOf(i, k, j.twoLines) = l /\ DataOf(i, k, j.twoLines) = d
          /\ HasData(k, j.twoLines) = FALSE /\ Part(i, k, j.twoLines) = Field
      BY <1>0, <1>4, <2>1, <3>1 DEF LineOf, DataOf, HasData, Part
    <3>3. Holds(sp, l, d, FALSE)
      BY <3>2 DEF Midway
    <3>4. k + 1 < Full(j.twoLines) /\ k + 1 = -1
      BY <2>0, <2>1
    <3>5. PICK l1, d1 : l1 = <<Field>> /\ d1 = << >>
      OBVIOUS
    <3>6. /\ LineOf(i, k + 1, j.twoLines) = l1 /\ DataOf(i, k + 1, j.twoLines) = d1
          /\ HasData(k + 1, j.twoLines) = FALSE
      BY <1>0, <1>4, <3>4, <3>5 DEF LineOf, DataOf, HasData
    <3>7. /\ Holds(handleLine(sp), << >>, << >>, FALSE)
          /\ lineYields(sp, script) = << >>
          /\ flushYields(sp, script) = << >>
      BY <3>1, <3>3, EmptyLine
    <3>9. l \o <<Field>> = l1
      BY <3>1, <3>5, Behind
    <3>10. Holds([sp EXCEPT !.line = @ \o <<Field>>], l \o <<Field>>, d, FALSE)
      BY <3>3, LineGrows
    <3>11. Midway([sp EXCEPT !.line = @ \o <<Field>>], i, k + 1, j.twoLines)
      BY <3>1, <3>5, <3>6, <3>9, <3>10 DEF Midway
    <3>12. Grows(sp, i, k, j.twoLines)
      BY <1>0, <1>2, <3>2, <3>4, <3>11 DEF Grows
    <3>13. flushYields(sp, script) = << >>
      BY <1>1, <3>1, <3>7
    <3>14. Yields(sp, i, k, j.twoLines, script)
      BY <2>0, <2>1, <3>13 DEF Yields
    <3> QED BY <3>12, <3>14
  <2>2. CASE k = -1
    <3>1. PICK l, d : l = <<Field>> /\ d = << >>
      OBVIOUS
    <3>2. /\ LineOf(i, k, j.twoLines) = l /\ DataOf(i, k, j.twoLines) = d
          /\ HasData(k, j.twoLines) = FALSE /\ Part(i, k, j.twoLines) = Newline
      BY <1>0, <1>4, <2>2, <3>1 DEF LineOf, DataOf, HasData, Part
    <3>3. Holds(sp, l, d, FALSE)
      BY <3>2 DEF Midway
    <3>4. k + 1 < Full(j.twoLines) /\ k + 1 = 0
      BY <2>0, <2>2
    <3>5. PICK l1, d1 : l1 = << >> /\ d1 = << >>
      OBVIOUS
    <3>6. /\ LineOf(i, k + 1, j.twoLines) = l1 /\ DataOf(i, k + 1, j.twoLines) = d1
          /\ HasData(k + 1, j.twoLines) = FALSE
      BY <1>0, <1>4, <3>4, <3>5 DEF LineOf, DataOf, HasData
    <3>8. l # << >> /\ Head(l) # Data
      BY <1>2, <3>1, Behind
    <3>7. /\ Holds(handleLine(sp), << >>, d, FALSE)
          /\ lineYields(sp, script) = << >> /\ flushYields(sp, script) = << >>
      BY <3>3, <3>8, OtherLine
    <3>11. Midway(handleLine(sp), i, k + 1, j.twoLines)
      BY <3>1, <3>5, <3>6, <3>7 DEF Midway
    <3>12. Turns(sp, i, k, j.twoLines, script)
      BY <2>0, <3>2, <3>4, <3>7, <3>11 DEF Turns
    <3>13. flushYields(sp, script) = << >>
      BY <1>1, <3>1, <3>7
    <3>14. Yields(sp, i, k, j.twoLines, script)
      BY <2>0, <2>2, <3>13 DEF Yields
    <3> QED BY <3>12, <3>14
  <2>3. CASE k = 0
    <3>1. PICK l, d : l = << >> /\ d = << >>
      OBVIOUS
    <3>2. /\ LineOf(i, k, j.twoLines) = l /\ DataOf(i, k, j.twoLines) = d
          /\ HasData(k, j.twoLines) = FALSE /\ Part(i, k, j.twoLines) = Data
      BY <1>0, <1>4, <2>3, <3>1 DEF LineOf, DataOf, HasData, Part
    <3>3. Holds(sp, l, d, FALSE)
      BY <3>2 DEF Midway
    <3>4. k + 1 < Full(j.twoLines) /\ k + 1 = 1
      BY <2>0, <2>3
    <3>5. PICK l1, d1 : l1 = <<Data>> /\ d1 = << >>
      OBVIOUS
    <3>6. /\ LineOf(i, k + 1, j.twoLines) = l1 /\ DataOf(i, k + 1, j.twoLines) = d1
          /\ HasData(k + 1, j.twoLines) = FALSE
      BY <1>0, <1>4, <3>4, <3>5 DEF LineOf, DataOf, HasData
    <3>7. /\ Holds(handleLine(sp), << >>, << >>, FALSE)
          /\ lineYields(sp, script) = << >>
          /\ flushYields(sp, script) = << >>
      BY <3>1, <3>3, EmptyLine
    <3>9. l \o <<Data>> = l1
      BY <3>1, <3>5, Behind
    <3>10. Holds([sp EXCEPT !.line = @ \o <<Data>>], l \o <<Data>>, d, FALSE)
      BY <3>3, LineGrows
    <3>11. Midway([sp EXCEPT !.line = @ \o <<Data>>], i, k + 1, j.twoLines)
      BY <3>1, <3>5, <3>6, <3>9, <3>10 DEF Midway
    <3>12. Grows(sp, i, k, j.twoLines)
      BY <1>0, <1>2, <3>2, <3>4, <3>11 DEF Grows
    <3>13. flushYields(sp, script) = << >>
      BY <1>1, <3>1, <3>7
    <3>14. Yields(sp, i, k, j.twoLines, script)
      BY <2>0, <2>3, <3>13 DEF Yields
    <3> QED BY <3>12, <3>14
  <2>4. CASE k = 1
    <3>1. PICK l, d : l = <<Data>> /\ d = << >>
      OBVIOUS
    <3>2. /\ LineOf(i, k, j.twoLines) = l /\ DataOf(i, k, j.twoLines) = d
          /\ HasData(k, j.twoLines) = FALSE /\ Part(i, k, j.twoLines) = a
      BY <1>0, <1>4, <2>4, <3>1 DEF LineOf, DataOf, HasData, Part
    <3>3. Holds(sp, l, d, FALSE)
      BY <3>2 DEF Midway
    <3>4. k + 1 < Full(j.twoLines) /\ k + 1 = 2
      BY <2>0, <2>4
    <3>5. PICK l1, d1 : l1 = <<Data, a>> /\ d1 = << >>
      OBVIOUS
    <3>6. /\ LineOf(i, k + 1, j.twoLines) = l1 /\ DataOf(i, k + 1, j.twoLines) = d1
          /\ HasData(k + 1, j.twoLines) = FALSE
      BY <1>0, <1>4, <3>4, <3>5 DEF LineOf, DataOf, HasData
    <3>8. l # << >> /\ Head(l) = Data /\ d \o Tail(l) = << >>
      BY <3>1, Behind
    <3>7. /\ Holds(handleLine(sp), << >>, << >>, TRUE)
          /\ lineYields(sp, script) = << >> /\ flushYields(sp, script) = payload(<< >>, script)
      <4>2. {"line", "data", "hasData"} \subseteq DOMAIN sp /\ sp.line = l /\ sp.data = d
        BY <3>3 DEF Holds
      <4>1. /\ Holds(handleLine(sp), << >>, d \o Tail(l), TRUE)
            /\ lineYields(sp, script) = << >> /\ flushYields(sp, script) = payload(d \o Tail(l), script)
        BY <3>8, <4>2, DataLine
      <4> QED BY <3>8, <4>1
    <3>9. l \o <<a>> = l1
      BY <3>1, <3>5, Behind
    <3>10. Holds([sp EXCEPT !.line = @ \o <<a>>], l \o <<a>>, d, FALSE)
      BY <3>3, LineGrows
    <3>11. Midway([sp EXCEPT !.line = @ \o <<a>>], i, k + 1, j.twoLines)
      BY <3>1, <3>5, <3>6, <3>9, <3>10 DEF Midway
    <3>12. Grows(sp, i, k, j.twoLines)
      BY <1>0, <1>2, <3>2, <3>4, <3>11 DEF Grows
    <3>13. flushYields(sp, script) = <<Torn>>
      BY <1>1, <3>1, <3>7
    <3>14. Yields(sp, i, k, j.twoLines, script)
      BY <2>0, <2>4, <3>13 DEF Yields
    <3> QED BY <3>12, <3>14
  <2>5. CASE k = 2
    <3>1. PICK l, d : l = <<Data, a>> /\ d = << >>
      OBVIOUS
    <3>2. /\ LineOf(i, k, j.twoLines) = l /\ DataOf(i, k, j.twoLines) = d
          /\ HasData(k, j.twoLines) = FALSE /\ Part(i, k, j.twoLines) = b
      BY <1>0, <1>4, <2>5, <3>1 DEF LineOf, DataOf, HasData, Part
    <3>3. Holds(sp, l, d, FALSE)
      BY <3>2 DEF Midway
    <3>4. k + 1 < Full(j.twoLines) /\ k + 1 = 3
      BY <2>0, <2>5
    <3>5. PICK l1, d1 : l1 = <<Data, a, b>> /\ d1 = << >>
      OBVIOUS
    <3>6. /\ LineOf(i, k + 1, j.twoLines) = l1 /\ DataOf(i, k + 1, j.twoLines) = d1
          /\ HasData(k + 1, j.twoLines) = FALSE
      BY <1>0, <1>4, <3>4, <3>5 DEF LineOf, DataOf, HasData
    <3>8. l # << >> /\ Head(l) = Data /\ d \o Tail(l) = <<a>>
      BY <3>1, Behind
    <3>7. /\ Holds(handleLine(sp), << >>, <<a>>, TRUE)
          /\ lineYields(sp, script) = << >> /\ flushYields(sp, script) = payload(<<a>>, script)
      <4>2. {"line", "data", "hasData"} \subseteq DOMAIN sp /\ sp.line = l /\ sp.data = d
        BY <3>3 DEF Holds
      <4>1. /\ Holds(handleLine(sp), << >>, d \o Tail(l), TRUE)
            /\ lineYields(sp, script) = << >> /\ flushYields(sp, script) = payload(d \o Tail(l), script)
        BY <3>8, <4>2, DataLine
      <4> QED BY <3>8, <4>1
    <3>9. l \o <<b>> = l1
      BY <3>1, <3>5, Behind
    <3>10. Holds([sp EXCEPT !.line = @ \o <<b>>], l \o <<b>>, d, FALSE)
      BY <3>3, LineGrows
    <3>11. Midway([sp EXCEPT !.line = @ \o <<b>>], i, k + 1, j.twoLines)
      BY <3>1, <3>5, <3>6, <3>9, <3>10 DEF Midway
    <3>12. Grows(sp, i, k, j.twoLines)
      BY <1>0, <1>2, <3>2, <3>4, <3>11 DEF Grows
    <3>13. flushYields(sp, script) = <<Torn>>
      BY <1>1, <3>1, <3>7
    <3>14. Yields(sp, i, k, j.twoLines, script)
      BY <2>0, <2>5, <3>13 DEF Yields
    <3> QED BY <3>12, <3>14
  <2>6. CASE k = 3
    <3>1. PICK l, d : l = <<Data, a, b>> /\ d = << >>
      OBVIOUS
    <3>2. /\ LineOf(i, k, j.twoLines) = l /\ DataOf(i, k, j.twoLines) = d
          /\ HasData(k, j.twoLines) = FALSE /\ Part(i, k, j.twoLines) = Newline
      BY <1>0, <1>4, <2>6, <3>1 DEF LineOf, DataOf, HasData, Part
    <3>3. Holds(sp, l, d, FALSE)
      BY <3>2 DEF Midway
    <3>4. k + 1 < Full(j.twoLines) /\ k + 1 = 4
      BY <2>0, <2>6
    <3>5. PICK l1, d1 : l1 = << >> /\ d1 = <<a, b>>
      OBVIOUS
    <3>6. /\ LineOf(i, k + 1, j.twoLines) = l1 /\ DataOf(i, k + 1, j.twoLines) = d1
          /\ HasData(k + 1, j.twoLines) = TRUE
      BY <1>0, <1>4, <3>4, <3>5 DEF LineOf, DataOf, HasData
    <3>8. l # << >> /\ Head(l) = Data /\ d \o Tail(l) = <<a, b>>
      BY <3>1, Behind
    <3>7. /\ Holds(handleLine(sp), << >>, <<a, b>>, TRUE)
          /\ lineYields(sp, script) = << >> /\ flushYields(sp, script) = payload(<<a, b>>, script)
      <4>2. {"line", "data", "hasData"} \subseteq DOMAIN sp /\ sp.line = l /\ sp.data = d
        BY <3>3 DEF Holds
      <4>1. /\ Holds(handleLine(sp), << >>, d \o Tail(l), TRUE)
            /\ lineYields(sp, script) = << >> /\ flushYields(sp, script) = payload(d \o Tail(l), script)
        BY <3>8, <4>2, DataLine
      <4> QED BY <3>8, <4>1
    <3>11. Midway(handleLine(sp), i, k + 1, j.twoLines)
      BY <3>1, <3>5, <3>6, <3>7 DEF Midway
    <3>12. Turns(sp, i, k, j.twoLines, script)
      BY <2>0, <3>2, <3>4, <3>7, <3>11 DEF Turns
    <3>13. flushYields(sp, script) = <<script[i]>>
      BY <1>1, <3>1, <3>7
    <3>14. Yields(sp, i, k, j.twoLines, script)
      BY <2>0, <2>6, <3>13 DEF Yields
    <3> QED BY <3>12, <3>14
  <2>7. CASE k = 4
    <3>1. PICK l, d : l = << >> /\ d = <<a, b>>
      OBVIOUS
    <3>2. /\ LineOf(i, k, j.twoLines) = l /\ DataOf(i, k, j.twoLines) = d
          /\ HasData(k, j.twoLines) = TRUE /\ Part(i, k, j.twoLines) = Newline
      BY <1>0, <1>4, <2>7, <3>1 DEF LineOf, DataOf, HasData, Part
    <3>3. Holds(sp, l, d, TRUE)
      BY <3>2 DEF Midway
    <3>4. k + 1 = Full(j.twoLines) /\ k + 1 = 5
      BY <2>0, <2>7
    <3>7. /\ Holds(handleLine(sp), << >>, << >>, FALSE)
          /\ lineYields(sp, script) = payload(d, script)
          /\ flushYields(sp, script) = payload(d, script)
      BY <3>1, <3>3, BlankLine
    <3>12. Turns(sp, i, k, j.twoLines, script)
      BY <1>1, <3>1, <3>2, <3>4, <3>7 DEF Turns
    <3>13. flushYields(sp, script) = <<script[i]>>
      BY <1>1, <3>1, <3>7
    <3>14. Yields(sp, i, k, j.twoLines, script)
      BY <2>0, <2>7, <3>13 DEF Yields
    <3> QED BY <3>12, <3>14
  <2> QED BY <2>0, <2>1, <2>2, <2>3, <2>4, <2>5, <2>6, <2>7
<1> QED BY <1>3, <1>4
-----------------------------------------------------------------------------
(* The bytes of a whole stream *)

BytesOf(j, n) == FlattenSeq([k \in 1..n |-> EventBytes(j, k)])
BytesTo(j, n) == Len(BytesOf(j, n))

LEMMA EventsType ==
    ASSUME NEW j, NEW n \in Nat
    PROVE  /\ [k \in 1..n |-> EventBytes(j, k)] \in Seq(Seq(Byte)) /\ Len([k \in 1..n |-> EventBytes(j, k)]) = n
           /\ BytesOf(j, n) \in Seq(Byte) /\ BytesTo(j, n) \in Nat
<1>1. PICK q : q = [k \in 1..n |-> EventBytes(j, k)]
  OBVIOUS
<1>2. \A k \in 1..n : EventBytes(j, k) \in Seq(Byte)
  BY EventIs
<1>3. q \in [1..n -> Seq(Byte)]
  BY <1>1, <1>2
<1>4. q \in Seq(Seq(Byte)) /\ Len(q) = n
  BY <1>3
<1>5. BytesOf(j, n) \in Seq(Byte)
  BY <1>1, <1>4, FlatType DEF BytesOf
<1>6. BytesTo(j, n) \in Nat
  BY <1>5, LenProperties DEF BytesTo
<1> QED BY <1>1, <1>4, <1>5, <1>6

LEMMA BytesGrow ==
    ASSUME NEW j, NEW n \in Nat
    PROVE  /\ BytesOf(j, n + 1) = BytesOf(j, n) \o EventBytes(j, n + 1)
           /\ BytesTo(j, n + 1) = BytesTo(j, n) + Size(j)
<1>1. PICK q, r : q = [k \in 1..n |-> EventBytes(j, k)] /\ r = [k \in 1..n + 1 |-> EventBytes(j, k)]
  OBVIOUS
<1>2. /\ q \in Seq(Seq(Byte)) /\ Len(q) = n /\ r \in Seq(Seq(Byte)) /\ Len(r) = n + 1
      /\ BytesOf(j, n) \in Seq(Byte) /\ BytesTo(j, n) \in Nat
  <2>1. q \in Seq(Seq(Byte)) /\ Len(q) = n /\ BytesOf(j, n) \in Seq(Byte) /\ BytesTo(j, n) \in Nat
    BY <1>1, EventsType
  <2>2. PICK o \in Nat : o = n + 1
    OBVIOUS
  <2>3. r = [k \in 1..o |-> EventBytes(j, k)]
    BY <1>1, <2>2
  <2>4. r \in Seq(Seq(Byte)) /\ Len(r) = o
    BY <2>3, EventsType
  <2> QED BY <2>1, <2>2, <2>4
<1>3. \A i \in 1..n : r[i] = q[i]
  BY <1>1
<1>4. r[n + 1] = EventBytes(j, n + 1)
  BY <1>1
<1>5. FlattenSeq(r) = FlattenSeq(q) \o EventBytes(j, n + 1)
  <2>1. FlattenSeq(r) = FlattenSeq(q) \o r[n + 1]
    BY <1>2, <1>3, FlatGrows
  <2> QED BY <1>4, <2>1
<1>6. BytesOf(j, n + 1) = BytesOf(j, n) \o EventBytes(j, n + 1)
  BY <1>1, <1>5 DEF BytesOf
<1>7. EventBytes(j, n + 1) \in Seq(Byte) /\ Len(EventBytes(j, n + 1)) = Size(j)
  BY EventIs
<1>8. Len(BytesOf(j, n) \o EventBytes(j, n + 1)) = Len(BytesOf(j, n)) + Len(EventBytes(j, n + 1))
  BY <1>2, <1>7, ConcatProperties
<1> QED BY <1>6, <1>7, <1>8 DEF BytesTo

LEMMA BytesNone == \A j : BytesOf(j, 0) = << >> /\ BytesTo(j, 0) = 0
<1>1. ASSUME NEW j PROVE BytesOf(j, 0) = << >> /\ BytesTo(j, 0) = 0
  <2>1. PICK q : q = [k \in 1..0 |-> EventBytes(j, k)]
    OBVIOUS
  <2>2. PICK n \in Nat : n = 0
    OBVIOUS
  <2>3. q \in Seq(Seq(Byte)) /\ Len(q) = 0
    BY <2>1, <2>2, EventsType
  <2>4. q = << >>
    BY <2>3, EmptySeq
  <2>5. FlattenSeq(q) = q
    BY <2>3, FlatChosen
  <2> QED BY <2>1, <2>4, <2>5 DEF BytesOf, BytesTo
<1> QED BY <1>1

\* Where the events lie, of the first n.
Lies(w, j, i) == \A m \in 0..Size(j) - 1 : w[BytesTo(j, i) + m + 1] = EventBytes(j, i + 1)[m + 1]

LEMMA EventsLie ==
    ASSUME NEW j, NEW n \in Nat
    PROVE  \A i \in Nat : i < n => Lies(BytesOf(j, n), j, i) /\ BytesTo(j, i) + Size(j) <= BytesTo(j, n)
<1> DEFINE T == {n1 \in Nat : \A i \in Nat : i < n1 => Lies(BytesOf(j, n1), j, i) /\ BytesTo(j, i) + Size(j) <= BytesTo(j, n1)}
<1>0. Size(j) \in Nat /\ \A i \in Nat : BytesTo(j, i) \in Nat
  <2>1. PICK i \in Nat : i = 0
    OBVIOUS
  <2>2. Size(j) \in {5, 7, 9}
    BY <2>1, EventIs
  <2> QED BY <2>2, EventsType
<1>1. 0 \in T
  OBVIOUS
<1>2. ASSUME NEW n1 \in Nat, n1 \in T PROVE n1 + 1 \in T
  <2>1. PICK w, e, k : w = BytesOf(j, n1) /\ e = EventBytes(j, n1 + 1) /\ k = BytesTo(j, n1)
    OBVIOUS
  <2>2. PICK c : c = BytesOf(j, n1 + 1)
    OBVIOUS
  <2>3. w \in Seq(Byte) /\ e \in Seq(Byte) /\ c = w \o e /\ k = Len(w) /\ Len(e) = Size(j) /\ k \in Nat
    <3>1. e \in Seq(Byte) /\ Len(e) = Size(j)
      BY <2>1, EventIs
    <3>2. w \in Seq(Byte) /\ k \in Nat /\ k = Len(w)
      BY <2>1, EventsType DEF BytesTo
    <3>3. c = w \o e
      BY <2>1, <2>2, BytesGrow
    <3> QED BY <3>1, <3>2, <3>3
  <2>4. PICK l \in Nat : l = Size(j)
    BY <1>0
  <2>5. Rowed(Byte, w, e, k, l, c)
    <3>1. Row(Byte, w, e, k, l, c)
      BY <2>3, <2>4 DEF Row
    <3> QED BY <3>1, Rows
  <2>6. (\A m \in 1..k : c[m] = w[m]) /\ Laid(c, k, e, l)
    BY <2>5 DEF Rowed
  <2>7. BytesTo(j, n1 + 1) = k + l
    BY <2>1, <2>4, BytesGrow
  <2>8. ASSUME NEW i \in Nat, i < n1 + 1 PROVE Lies(c, j, i) /\ BytesTo(j, i) + Size(j) <= BytesTo(j, n1 + 1)
    <3>1. CASE i < n1
      <4>1. Lies(w, j, i) /\ BytesTo(j, i) + Size(j) <= k
        BY <1>2, <2>1, <3>1
      <4>2. ASSUME NEW m \in 0..Size(j) - 1 PROVE c[BytesTo(j, i) + m + 1] = EventBytes(j, i + 1)[m + 1]
        <5>1. w[BytesTo(j, i) + m + 1] = EventBytes(j, i + 1)[m + 1]
          BY <4>1 DEF Lies
        <5>2. PICK y : y = BytesTo(j, i) + m + 1
          OBVIOUS
        <5>4. PICK x \in Nat : x = BytesTo(j, i) /\ x + l <= k /\ y = x + m + 1 /\ m \in 0..l - 1
          BY <1>0, <2>4, <4>1, <5>2
        <5>3. y \in 1..k
          <6>1. x \in Nat /\ l \in Nat /\ k \in Nat /\ m \in 0..l - 1 /\ x + l <= k
            BY <2>3, <5>4
          <6>2. x + m + 1 \in 1..k
            BY <6>1, Before1
          <6> QED BY <5>4, <6>2
        <5> QED BY <2>6, <5>1, <5>2, <5>3
      <4>3. BytesTo(j, i) + Size(j) <= k + l
        <5>1. PICK x \in Nat : x = BytesTo(j, i)
          BY <1>0
        <5>2. x + l <= k /\ k \in Nat
          BY <2>3, <2>4, <4>1, <5>1
        <5>3. x + l <= k + l
          BY <5>2
        <5> QED BY <2>4, <5>1, <5>3
      <4> QED BY <2>7, <4>2, <4>3 DEF Lies
    <3>2. CASE i = n1
      <4>1. BytesTo(j, i) = k /\ EventBytes(j, i + 1) = e
        BY <2>1, <3>2
      <4>2. ASSUME NEW m \in 0..Size(j) - 1 PROVE c[BytesTo(j, i) + m + 1] = EventBytes(j, i + 1)[m + 1]
        <5>1. PICK m1 : m1 = m + 1
          OBVIOUS
        <5>2. m1 \in 1..l /\ k + m + 1 = k + m1
          BY <1>0, <2>3, <2>4, <5>1
        <5>3. c[k + m1] = e[m1]
          BY <2>6, <5>2, Zenon DEF Laid
        <5> QED BY <4>1, <5>1, <5>2, <5>3
      <4>3. BytesTo(j, i) + Size(j) <= k + l
        BY <1>0, <2>3, <2>4, <4>1
      <4> QED BY <2>7, <4>2, <4>3 DEF Lies
    <3> QED BY <2>8, <3>1, <3>2
  <2> QED BY <2>2, <2>8
<1> HIDE DEF T
<1>3. n \in T
  BY <1>1, <1>2, NatRange
<1> QED BY <1>3 DEF T

\* The stream ends with all its events, and with [DONE] when it is chat's.
DoneEvent == <<Data, Done, Newline, Newline>>
DoneSize(j) == IF j.up = "chat" THEN 4 ELSE 0

LEMMA WireIs ==
    ASSUME NEW j, NEW n \in Nat, DOMAIN j.script = 1..n
    PROVE  /\ \A i \in Nat : i < n => Lies(Wire(j), j, i) /\ BytesTo(j, i) + Size(j) <= BytesTo(j, n)
           /\ Wire(j) \in Seq(Byte) /\ Len(Wire(j)) = BytesTo(j, n) + DoneSize(j) /\ BytesTo(j, n) \in Nat
           /\ j.up = "chat" => Laid(Wire(j), BytesTo(j, n), DoneEvent, 4)
<1>1. PICK w, e, k, c : /\ w = BytesOf(j, n) /\ e = (IF j.up = "chat" THEN DoneEvent ELSE << >>)
                        /\ k = BytesTo(j, n) /\ c = Wire(j)
  OBVIOUS
<1>2. c = w \o e
  BY <1>1 DEF Wire, BytesOf, DoneEvent
<1>3. w \in Seq(Byte) /\ k = Len(w) /\ k \in Nat
  BY <1>1, EventsType DEF BytesTo
<1>4. PICK l \in Nat : l = DoneSize(j)
  BY DEF DoneSize
<1>5. e \in Seq(Byte) /\ Len(e) = l
  <2>1. CASE j.up = "chat"
    <3>1. Data \in Byte /\ Done \in Byte /\ Newline \in Byte
      BY Bytes
    <3>2. DoneEvent \in Seq(Byte) /\ Len(DoneEvent) = 4
      BY <3>1 DEF DoneEvent
    <3> QED BY <1>1, <1>4, <2>1, <3>2 DEF DoneSize
  <2>2. CASE j.up # "chat"
    BY <1>1, <1>4, <2>2, EmptySeq DEF DoneSize
  <2> QED BY <2>1, <2>2
<1>6. Rowed(Byte, w, e, k, l, c)
  <2>1. Row(Byte, w, e, k, l, c)
    BY <1>2, <1>3, <1>5 DEF Row
  <2> QED BY <2>1, Rows
<1>7. c \in Seq(Byte) /\ Len(c) = k + l /\ (\A m \in 1..k : c[m] = w[m]) /\ Laid(c, k, e, l)
  BY <1>6 DEF Rowed
<1>8. ASSUME NEW i \in Nat, i < n PROVE Lies(c, j, i) /\ BytesTo(j, i) + Size(j) <= k
  <2>1. Lies(w, j, i) /\ BytesTo(j, i) + Size(j) <= k
    BY <1>1, <1>8, EventsLie
  <2>2. Size(j) \in {5, 7, 9} /\ BytesTo(j, i) \in Nat
    BY EventIs, EventsType
  <2>3. ASSUME NEW m \in 0..Size(j) - 1 PROVE c[BytesTo(j, i) + m + 1] = EventBytes(j, i + 1)[m + 1]
    <3>1. w[BytesTo(j, i) + m + 1] = EventBytes(j, i + 1)[m + 1]
      BY <2>1 DEF Lies
    <3>2. PICK y : y = BytesTo(j, i) + m + 1
      OBVIOUS
    <3>3. y \in 1..k
      <4>1. PICK x \in Nat, z \in Nat : x = BytesTo(j, i) /\ z = Size(j)
        BY <2>2
      <4>2. k \in Nat /\ m \in 0..z - 1 /\ x + z <= k
        BY <1>3, <2>1, <4>1
      <4>3. x + m + 1 \in 1..k
        BY <4>2, Before1
      <4> QED BY <3>2, <4>1, <4>3
    <3> QED BY <1>7, <3>1, <3>2, <3>3
  <2> QED BY <2>1, <2>3 DEF Lies
<1>9. j.up = "chat" => Laid(c, k, DoneEvent, 4)
  BY <1>1, <1>4, <1>7 DEF DoneSize
<1> QED BY <1>1, <1>3, <1>4, <1>7, <1>8, <1>9
-----------------------------------------------------------------------------
(* The splitter in a stream *)

\* What it holds once it has had m bytes of what follows the last event.
TrailLine(m) == IF m = 1 THEN <<Data>> ELSE IF m = 2 THEN <<Data, Done>> ELSE << >>
TrailData(m) == IF m = 3 THEN <<Done>> ELSE << >>
HasDone(m) == m = 3
Trail(sp, m) == Holds(sp, TrailLine(m), TrailData(m), HasDone(m))

LEMMA TrailByte ==
    ASSUME NEW script, DOMAIN script \subseteq Nat, NEW sp, NEW m \in 0..4, Trail(sp, m)
    PROVE  /\ m < 4 => \/ /\ DoneEvent[m + 1] # Newline
                          /\ Trail([sp EXCEPT !.line = @ \o <<DoneEvent[m + 1]>>], m + 1)
                       \/ /\ DoneEvent[m + 1] = Newline
                          /\ Trail(handleLine(sp), m + 1) /\ lineYields(sp, script) = << >>
           /\ flushYields(sp, script) \in {<< >>, <<Torn>>}
<1>0. Data # Newline /\ Done # Newline
  BY Bytes
<1>1. payload(<<Done>>, script) = << >> /\ payload(<< >>, script) = <<Torn>>
  BY PayloadIs
<1>2. DoneEvent[1] = Data /\ DoneEvent[2] = Done /\ DoneEvent[3] = Newline /\ DoneEvent[4] = Newline
  BY DEF DoneEvent
<1>3. CASE m = 0
  <2>1. PICK l, d : l = << >> /\ d = << >>
    OBVIOUS
  <2>2. TrailLine(m) = l /\ TrailData(m) = d /\ HasDone(m) = FALSE
    BY <1>3, <2>1 DEF TrailLine, TrailData, HasDone
  <2>3. Holds(sp, l, d, FALSE)
    BY <2>2 DEF Trail
  <2>4. PICK l1 : l1 = <<Data>>
    OBVIOUS
  <2>5. TrailLine(m + 1) = l1 /\ TrailData(m + 1) = d /\ HasDone(m + 1) = FALSE
    BY <1>3, <2>1, <2>4 DEF TrailLine, TrailData, HasDone
  <2>6. l \o <<Data>> = l1
    BY <2>1, <2>4, Behind
  <2>7. Holds([sp EXCEPT !.line = @ \o <<Data>>], l \o <<Data>>, d, FALSE)
    BY <2>3, LineGrows
  <2>8. Trail([sp EXCEPT !.line = @ \o <<Data>>], m + 1)
    BY <2>5, <2>6, <2>7 DEF Trail
  <2>9. flushYields(sp, script) = << >>
    BY <2>1, <2>3, EmptyLine
  <2>10. m + 1 = 1
    BY <1>3
  <2> QED BY <1>0, <1>2, <2>8, <2>9, <2>10
<1>4. CASE m = 1
  <2>1. PICK l, d : l = <<Data>> /\ d = << >>
    OBVIOUS
  <2>2. TrailLine(m) = l /\ TrailData(m) = d /\ HasDone(m) = FALSE
    BY <1>4, <2>1 DEF TrailLine, TrailData, HasDone
  <2>3. Holds(sp, l, d, FALSE)
    BY <2>2 DEF Trail
  <2>4. PICK l1 : l1 = <<Data, Done>>
    OBVIOUS
  <2>5. TrailLine(m + 1) = l1 /\ TrailData(m + 1) = d /\ HasDone(m + 1) = FALSE
    BY <1>4, <2>1, <2>4 DEF TrailLine, TrailData, HasDone
  <2>6. l \o <<Done>> = l1
    BY <2>1, <2>4, Behind
  <2>7. Holds([sp EXCEPT !.line = @ \o <<Done>>], l \o <<Done>>, d, FALSE)
    BY <2>3, LineGrows
  <2>8. Trail([sp EXCEPT !.line = @ \o <<Done>>], m + 1)
    BY <2>5, <2>6, <2>7 DEF Trail
  <2>9. flushYields(sp, script) = <<Torn>>
    <3>1. l # << >> /\ Head(l) = Data /\ d \o Tail(l) = << >>
      BY <2>1, Behind
    <3>2. {"line", "data", "hasData"} \subseteq DOMAIN sp /\ sp.line = l /\ sp.data = d
      BY <2>3 DEF Holds
    <3>3. flushYields(sp, script) = payload(d \o Tail(l), script)
      BY <3>1, <3>2, DataLine
    <3> QED BY <1>1, <3>1, <3>3
  <2>10. m + 1 = 2
    BY <1>4
  <2> QED BY <1>0, <1>2, <2>8, <2>9, <2>10
<1>5. CASE m = 2
  <2>1. PICK l, d : l = <<Data, Done>> /\ d = << >>
    OBVIOUS
  <2>2. TrailLine(m) = l /\ TrailData(m) = d /\ HasDone(m) = FALSE
    BY <1>5, <2>1 DEF TrailLine, TrailData, HasDone
  <2>3. Holds(sp, l, d, FALSE)
    BY <2>2 DEF Trail
  <2>4. PICK l1, d1 : l1 = << >> /\ d1 = <<Done>>
    OBVIOUS
  <2>5. TrailLine(m + 1) = l1 /\ TrailData(m + 1) = d1 /\ HasDone(m + 1) = TRUE
    BY <1>5, <2>4 DEF TrailLine, TrailData, HasDone
  <2>6. l # << >> /\ Head(l) = Data /\ d \o Tail(l) = d1
    BY <2>1, <2>4, Behind
  <2>7. {"line", "data", "hasData"} \subseteq DOMAIN sp /\ sp.line = l /\ sp.data = d
    BY <2>3 DEF Holds
  <2>8. /\ Holds(handleLine(sp), << >>, d \o Tail(l), TRUE)
        /\ lineYields(sp, script) = << >> /\ flushYields(sp, script) = payload(d \o Tail(l), script)
    BY <2>6, <2>7, DataLine
  <2>9. Holds(handleLine(sp), l1, d1, TRUE)
    BY <2>4, <2>6, <2>8
  <2>10. Trail(handleLine(sp), m + 1)
    BY <2>5, <2>9 DEF Trail
  <2>11. flushYields(sp, script) = << >>
    BY <1>1, <2>4, <2>6, <2>8
  <2>12. m + 1 = 3
    BY <1>5
  <2> QED BY <1>2, <2>8, <2>10, <2>11, <2>12
<1>6. CASE m = 3
  <2>1. PICK l, d : l = << >> /\ d = <<Done>>
    OBVIOUS
  <2>2. TrailLine(m) = l /\ TrailData(m) = d /\ HasDone(m) = TRUE
    BY <1>6, <2>1 DEF TrailLine, TrailData, HasDone
  <2>3. Holds(sp, l, d, TRUE)
    BY <2>2 DEF Trail
  <2>4. TrailLine(m + 1) = << >> /\ TrailData(m + 1) = << >> /\ HasDone(m + 1) = FALSE
    BY <1>6 DEF TrailLine, TrailData, HasDone
  <2>5. /\ Holds(handleLine(sp), << >>, << >>, FALSE)
        /\ lineYields(sp, script) = payload(d, script) /\ flushYields(sp, script) = payload(d, script)
    BY <2>1, <2>3, BlankLine
  <2>6. Trail(handleLine(sp), m + 1)
    BY <2>4, <2>5 DEF Trail
  <2>7. m + 1 = 4
    BY <1>6
  <2> QED BY <1>1, <1>2, <2>1, <2>5, <2>6, <2>7
<1>7. CASE m = 4
  <2>1. PICK l, d : l = << >> /\ d = << >>
    OBVIOUS
  <2>2. TrailLine(m) = l /\ TrailData(m) = d /\ HasDone(m) = FALSE
    BY <1>7, <2>1 DEF TrailLine, TrailData, HasDone
  <2>3. Holds(sp, l, d, FALSE)
    BY <2>2 DEF Trail
  <2>4. flushYields(sp, script) = << >>
    BY <2>1, <2>3, EmptyLine
  <2> QED BY <1>7, <2>4
<1>8. m \in {0, 1, 2, 3, 4}
  OBVIOUS
<1> QED BY <1>3, <1>4, <1>5, <1>6, <1>7, <1>8

\* It holds nothing where an event, or what follows the last, begins.
LEMMA Begins ==
    ASSUME NEW j, NEW i, NEW sp, Holds(sp, << >>, << >>, FALSE)
    PROVE  Midway(sp, i, 0 - Lead(j), j.twoLines) /\ Trail(sp, 0)
<1>1. PICK k \in Int : k = 0 - Lead(j) /\ k \in {0, -2}
  BY DEF Lead
<1>2. LineOf(i, k, j.twoLines) = << >> /\ DataOf(i, k, j.twoLines) = << >> /\ HasData(k, j.twoLines) = FALSE
  <2>1. CASE j.twoLines
    BY <1>1, <2>1 DEF LineOf, DataOf, HasData
  <2>2. CASE ~j.twoLines
    BY <1>1, <2>2 DEF LineOf, DataOf, HasData
  <2> QED BY <2>1, <2>2
<1>3. Midway(sp, i, k, j.twoLines)
  BY <1>2 DEF Midway
<1>4. TrailLine(0) = << >> /\ TrailData(0) = << >> /\ HasDone(0) = FALSE
  BY DEF TrailLine, TrailData, HasDone
<1>5. Trail(sp, 0)
  BY <1>4 DEF Trail
<1> QED BY <1>1, <1>3, <1>5

\* x bytes of the stream, which are those of i events of n and m more, have gone
\* through it.
InEvent(j, n, i, m, sp) == m \in 0..Size(j) - 1 /\ Midway(sp, i + 1, m - Lead(j), j.twoLines)
InTrail(j, m, sp) == m \in 0..DoneSize(j) /\ Trail(sp, m)
Through(j, n, x, i, m, sp) ==
    /\ i \in 0..n /\ x = BytesTo(j, i) + m /\ sp.line \in Seq(Byte)
    /\ i < n => InEvent(j, n, i, m, sp)
    /\ i = n => InTrail(j, m, sp)

LEMMA Sizes ==
    ASSUME NEW j, NEW i \in Nat
    PROVE  /\ Size(j) \in {5, 7, 9} /\ Lead(j) \in {0, 2} /\ Size(j) = Lead(j) + Full(j.twoLines)
           /\ BytesTo(j, i) \in Nat /\ BytesTo(j, i + 1) = BytesTo(j, i) + Size(j)
<1>1. Size(j) \in {5, 7, 9}
  BY EventIs
<1>2. Lead(j) \in {0, 2} /\ Size(j) = Lead(j) + Full(j.twoLines)
  BY DEF Lead, Size, Full
<1> QED BY <1>1, <1>2, EventsType, BytesGrow

Steps(j, n, x, i, m, sp, b) ==
    \/ b # Newline /\ Through(j, n, x + 1, i, m + 1, [sp EXCEPT !.line = @ \o <<b>>])
    \/ /\ b = Newline /\ lineYields(sp, j.script) = << >>
       /\ Through(j, n, x + 1, i, m + 1, handleLine(sp))
    \/ /\ b = Newline /\ i < n /\ lineYields(sp, j.script) = <<j.script[i + 1]>>
       /\ Through(j, n, x + 1, i + 1, 0, handleLine(sp))

LEMMA ByteStep ==
    ASSUME NEW j, NEW n \in Nat, DOMAIN j.script = 1..n, NEW x \in Nat, NEW i, NEW m, NEW sp,
           Through(j, n, x, i, m, sp), x < Len(Wire(j)), NEW b, b = Wire(j)[x + 1]
    PROVE  b \in Byte /\ Steps(j, n, x, i, m, sp, b)
<1>0. i \in 0..n /\ i \in Nat /\ x = BytesTo(j, i) + m /\ sp.line \in Seq(Byte)
  BY DEF Through
<1>1. b \in Byte
  <2>1. Wire(j) \in Seq(Byte)
    BY WireIs
  <2>2. PICK w, l : w = Wire(j) /\ l = Len(w) /\ w \in Seq(Byte) /\ l \in Nat
    BY <2>1, LenProperties
  <2>3. x + 1 \in 1..l
    BY <2>2
  <2> QED BY <2>2, <2>3, ElementOfSeq
<1>2. [sp EXCEPT !.line = @ \o <<b>>].line \in Seq(Byte) \/ "line" \notin DOMAIN sp
  <2>1. <<b>> \in Seq(Byte)
    BY <1>1
  <2>2. sp.line \o <<b>> \in Seq(Byte)
    BY <1>0, <2>1, ConcatProperties
  <2> QED BY <2>2
<1>3. "line" \in DOMAIN sp => handleLine(sp).line = << >>
  BY DEF handleLine, finishEvent
<1>4. << >> \in Seq(Byte)
  BY EmptySeq
<1>5. DOMAIN j.script \subseteq Nat
  OBVIOUS
<1>6. CASE i < n
  <2>1. m \in 0..Size(j) - 1 /\ Midway(sp, i + 1, m - Lead(j), j.twoLines)
    BY <1>6 DEF Through, InEvent
  <2>2. PICK o, s, l, f : /\ o = i + 1 /\ o \in DOMAIN j.script /\ s = Size(j) /\ l = Lead(j) /\ f = Full(j.twoLines)
                          /\ s \in {5, 7, 9} /\ l \in {0, 2} /\ s = l + f /\ f \in {5, 7}
    <3>1. Full(j.twoLines) \in {5, 7}
      BY DEF Full
    <3>2. i + 1 \in DOMAIN j.script
      BY <1>0, <1>6
    <3>3. Size(j) \in {5, 7, 9} /\ Lead(j) \in {0, 2} /\ Size(j) = Lead(j) + Full(j.twoLines)
      BY <1>0, Sizes
    <3> QED BY <3>1, <3>2, <3>3
  <2>12. s \in Int /\ l \in Int /\ f \in Int /\ s = l + f /\ m \in Int /\ m >= 0
    <3>1. m \in 0..s - 1
      BY <2>1, <2>2
    <3>2. s \in Int /\ l \in Int /\ f \in Int /\ s = l + f
      BY <2>2
    <3> QED BY <3>1, <3>2
  <2>3. PICK k \in Int : k = m - l /\ m = k + l /\ k >= -2 /\ k < f /\ k + 1 = m + 1 - l
    <3>1. l \in {0, 2} /\ f \in {5, 7} /\ m \in 0..l + f - 1
      BY <2>1, <2>2
    <3> QED BY <3>1, FromLead
  <2>4. Midway(sp, o, k, j.twoLines)
    BY <2>1, <2>2, <2>3
  <2>5. b = Part(o, k, j.twoLines)
    <3>1. Lies(Wire(j), j, i)
      BY <1>0, <1>6, WireIs
    <3>2. b = EventBytes(j, o)[m + 1]
      <4>1. Wire(j)[BytesTo(j, i) + m + 1] = EventBytes(j, i + 1)[m + 1]
        BY <2>1, <3>1 DEF Lies
      <4> QED BY <1>0, <2>2, <4>1
    <3>3. o \in Nat
      BY <1>0, <2>2
    <3>4. EventBytes(j, o)[m + 1] = Part(o, m - Lead(j), j.twoLines)
      BY <2>1, <3>3, EventIs
    <3> QED BY <2>2, <2>3, <3>2, <3>4
  <2>6. /\ Grows(sp, o, k, j.twoLines) \/ Turns(sp, o, k, j.twoLines, j.script)
    BY <1>5, <2>2, <2>3, <2>4, OneByte
  <2>7. "line" \in DOMAIN sp
    BY <2>4 DEF Midway, Holds
  <2>8. x + 1 = BytesTo(j, i) + (m + 1)
    <3>1. BytesTo(j, i) \in Nat /\ m \in Int
      BY <1>0, <2>1, Sizes
    <3> QED BY <1>0, <3>1
  <2>9. CASE Grows(sp, o, k, j.twoLines)
    <3>1. b # Newline /\ k + 1 < f /\ Midway([sp EXCEPT !.line = @ \o <<b>>], o, k + 1, j.twoLines)
      BY <2>2, <2>5, <2>9 DEF Grows
    <3>5. k + 1 < f
      BY <3>1
    <3>2. m + 1 \in 0..s - 1
      <4>1. NotLast(l, f, k, m, s)
        <5>1. l \in Int /\ f \in Int /\ s = l + f /\ m >= 0
          BY <2>12
        <5>2. k \in Int /\ m = k + l
          BY <2>3
        <5> QED BY <3>5, <5>1, <5>2 DEF NotLast
      <4> QED BY <4>1, NextPlace
    <3>3. InEvent(j, n, i, m + 1, [sp EXCEPT !.line = @ \o <<b>>])
      BY <2>2, <2>3, <3>1, <3>2 DEF InEvent
    <3>4. Through(j, n, x + 1, i, m + 1, [sp EXCEPT !.line = @ \o <<b>>])
      BY <1>0, <1>2, <1>6, <2>7, <2>8, <3>3 DEF Through
    <3> QED BY <1>1, <3>1, <3>4 DEF Steps
  <2>10. CASE Turns(sp, o, k, j.twoLines, j.script) /\ k + 1 # f
    <3>1. b = Newline /\ Midway(handleLine(sp), o, k + 1, j.twoLines) /\ lineYields(sp, j.script) = << >>
      BY <2>2, <2>5, <2>10 DEF Turns
    <3>5. k + 1 < f
      <4>1. k \in Int /\ f \in Int /\ k < f /\ k + 1 # f
        BY <2>12, <2>3, <2>10
      <4> QED BY <4>1
    <3>2. m + 1 \in 0..s - 1
      <4>1. NotLast(l, f, k, m, s)
        <5>1. l \in Int /\ f \in Int /\ s = l + f /\ m >= 0
          BY <2>12
        <5>2. k \in Int /\ m = k + l
          BY <2>3
        <5> QED BY <3>5, <5>1, <5>2 DEF NotLast
      <4> QED BY <4>1, NextPlace
    <3>6. PICK sp2 : sp2 = handleLine(sp)
      OBVIOUS
    <3>3. InEvent(j, n, i, m + 1, sp2)
      BY <2>2, <2>3, <3>1, <3>2, <3>6, SMTT(20) DEF InEvent
    <3>7. sp2.line \in Seq(Byte)
      BY <1>3, <1>4, <2>7, <3>6
    <3>4. Through(j, n, x + 1, i, m + 1, sp2)
      BY <1>0, <1>6, <2>8, <3>3, <3>7 DEF Through
    <3> QED BY <1>1, <3>1, <3>4, <3>6 DEF Steps
  <2>11. CASE Turns(sp, o, k, j.twoLines, j.script) /\ k + 1 = f
    <3>1. b = Newline /\ Holds(handleLine(sp), << >>, << >>, FALSE) /\ lineYields(sp, j.script) = <<j.script[o]>>
      BY <2>2, <2>5, <2>11 DEF Turns
    <3>2. PICK z \in Nat : z = 0 /\ z \in 0..s - 1 /\ z \in 0..DoneSize(j)
      BY <2>2 DEF DoneSize
    <3>3. /\ InEvent(j, n, o, z, handleLine(sp))
          /\ InTrail(j, z, handleLine(sp))
      <4>1. Midway(handleLine(sp), o + 1, z - Lead(j), j.twoLines) /\ Trail(handleLine(sp), z)
        BY <3>1, <3>2, Begins
      <4> QED BY <2>2, <3>2, <4>1 DEF InEvent, InTrail
    <3>4. x + 1 = BytesTo(j, o) + z /\ o \in 0..n
      <4>1. m + 1 = s
        BY <2>2, <2>3, <2>11
      <4>2. BytesTo(j, o) = BytesTo(j, i) + s /\ BytesTo(j, i) \in Nat
        BY <1>0, <2>2, Sizes
      <4>3. PICK y \in Nat : y = BytesTo(j, i)
        BY <4>2
      <4>4. x + 1 = y + s
        BY <2>8, <4>1, <4>3
      <4>5. BytesTo(j, o) + z = y + s
        <5>1. BytesTo(j, o) = y + s /\ y + s \in Int
          BY <2>2, <4>2, <4>3
        <5> QED BY <3>2, <5>1
      <4>6. o \in 0..n
        BY <1>0, <1>6, <2>2
      <4> QED BY <4>4, <4>5, <4>6
    <3>5. Through(j, n, x + 1, o, z, handleLine(sp))
      BY <1>3, <1>4, <2>7, <3>3, <3>4 DEF Through
    <3> QED BY <1>1, <1>6, <2>2, <3>1, <3>2, <3>5 DEF Steps
  <2> QED BY <2>6, <2>9, <2>10, <2>11
<1>7. CASE i = n
  <2>1. m \in 0..DoneSize(j) /\ Trail(sp, m)
    BY <1>7 DEF Through, InTrail
  <2>2. Len(Wire(j)) = BytesTo(j, n) + DoneSize(j) /\ BytesTo(j, n) \in Nat
    BY WireIs
  <2>3. DoneSize(j) \in {0, 4} /\ (DoneSize(j) = 4 => j.up = "chat")
    BY DEF DoneSize
  <2>4. DoneSize(j) = 4 /\ j.up = "chat" /\ m \in 0..3
    <3>1. PICK d, y, w : d = DoneSize(j) /\ y = BytesTo(j, n) /\ w = Len(Wire(j))
      OBVIOUS
    <3>2. d \in {0, 4} /\ m \in 0..d /\ y \in Nat /\ w = y + d
      BY <2>1, <2>2, <2>3, <3>1
    <3>3. x = y + m /\ x < w
      BY <1>0, <1>7, <3>1
    <3>4. d = 4 /\ m \in 0..3
      BY <3>2, <3>3
    <3> QED BY <2>3, <3>1, <3>4
  <2>5. b = DoneEvent[m + 1]
    <3>1. Laid(Wire(j), BytesTo(j, n), DoneEvent, 4)
      BY <2>4, WireIs
    <3>2. PICK o : o = m + 1 /\ o \in 1..4 /\ x + 1 = BytesTo(j, n) + o
      BY <1>0, <1>7, <2>2, <2>4
    <3>3. Wire(j)[BytesTo(j, n) + o] = DoneEvent[o]
      BY <3>1, <3>2, Zenon DEF Laid
    <3> QED BY <3>2, <3>3
  <2>6. "line" \in DOMAIN sp
    BY <2>1 DEF Trail, Holds
  <2>7. x + 1 = BytesTo(j, i) + (m + 1) /\ m + 1 \in 0..DoneSize(j)
    BY <1>0, <1>7, <2>2, <2>4
  <2>8. \/ b # Newline /\ Trail([sp EXCEPT !.line = @ \o <<b>>], m + 1)
        \/ b = Newline /\ Trail(handleLine(sp), m + 1) /\ lineYields(sp, j.script) = << >>
    <3>1. m \in 0..4 /\ m < 4
      BY <2>4
    <3> QED BY <1>5, <2>1, <2>5, <3>1, TrailByte
  <2>9. CASE b # Newline /\ Trail([sp EXCEPT !.line = @ \o <<b>>], m + 1)
    <3>1. InTrail(j, m + 1, [sp EXCEPT !.line = @ \o <<b>>])
      BY <2>7, <2>9 DEF InTrail
    <3>2. Through(j, n, x + 1, i, m + 1, [sp EXCEPT !.line = @ \o <<b>>])
      BY <1>0, <1>2, <1>7, <2>6, <2>7, <3>1 DEF Through
    <3> QED BY <1>1, <2>9, <3>2 DEF Steps
  <2>10. CASE b = Newline /\ Trail(handleLine(sp), m + 1) /\ lineYields(sp, j.script) = << >>
    <3>3. PICK sp2 : sp2 = handleLine(sp)
      OBVIOUS
    <3>1. InTrail(j, m + 1, sp2)
      BY <2>7, <2>10, <3>3 DEF InTrail
    <3>4. sp2.line \in Seq(Byte)
      BY <1>3, <1>4, <2>6, <3>3
    <3>2. Through(j, n, x + 1, i, m + 1, sp2)
      BY <1>0, <1>7, <2>7, <3>1, <3>4 DEF Through
    <3> QED BY <1>1, <2>10, <3>2, <3>3 DEF Steps
  <2> QED BY <2>8, <2>9, <2>10
<1> QED BY <1>0, <1>6, <1>7
-----------------------------------------------------------------------------
(* A round of Write, and the flush *)

\* Only what it holds counts.
Alike(sp, sp2, t) ==
    /\ {"line", "data", "hasData"} \subseteq DOMAIN sp2
    /\ sp2.line = sp.line \o t /\ sp2.data = sp.data /\ sp2.hasData = sp.hasData

LEMMA AlikeThrough ==
    ASSUME NEW j, NEW n \in Nat, NEW x, NEW i, NEW m, NEW sp, Through(j, n, x, i, m, sp), NEW sp2,
           {"line", "data", "hasData"} \subseteq DOMAIN sp2,
           sp2.line = sp.line, sp2.data = sp.data, sp2.hasData = sp.hasData
    PROVE  Through(j, n, x, i, m, sp2)
<1>1. ASSUME NEW l, NEW d, NEW h, Holds(sp, l, d, h) PROVE Holds(sp2, l, d, h)
  BY <1>1 DEF Holds
<1>2. InEvent(j, n, i, m, sp) => InEvent(j, n, i, m, sp2)
  BY <1>1 DEF InEvent, Midway
<1>3. InTrail(j, m, sp) => InTrail(j, m, sp2)
  BY <1>1 DEF InTrail, Trail
<1> QED BY <1>2, <1>3 DEF Through

LEMMA ThroughHolds ==
    ASSUME NEW j, NEW n \in Nat, NEW x, NEW i, NEW m, NEW sp, Through(j, n, x, i, m, sp)
    PROVE  /\ {"line", "data", "hasData"} \subseteq DOMAIN sp /\ sp.line \in Seq(Byte)
           /\ i \in 0..n /\ m \in Nat /\ x = BytesTo(j, i) + m
<1>1. i \in 0..n /\ x = BytesTo(j, i) + m /\ sp.line \in Seq(Byte)
  BY DEF Through
<1>2. CASE i < n
  <2>1. m \in 0..Size(j) - 1 /\ {"line", "data", "hasData"} \subseteq DOMAIN sp
    BY <1>2 DEF Through, InEvent, Midway, Holds
  <2> QED BY <1>1, <2>1
<1>3. CASE i = n
  <2>1. m \in 0..DoneSize(j) /\ {"line", "data", "hasData"} \subseteq DOMAIN sp
    BY <1>3 DEF Through, InTrail, Trail, Holds
  <2> QED BY <1>1, <2>1
<1> QED BY <1>1, <1>2, <1>3

\* Bytes of the stream among which there is no newline.
LEMMA Quiet ==
    ASSUME NEW j, NEW n \in Nat, DOMAIN j.script = 1..n, NEW x \in Nat, NEW i, NEW m, NEW sp,
           Through(j, n, x, i, m, sp), NEW t \in Seq(Byte), NEW l \in Nat, l <= Len(t), x + l <= Len(Wire(j)),
           Laid(Wire(j), x, t, l), \A y \in 1..l : t[y] # Newline
    PROVE  \E m2 : Through(j, n, x + l, i, m2, [sp EXCEPT !.line = @ \o TextTo(t, l)])
<1>0. /\ {"line", "data", "hasData"} \subseteq DOMAIN sp /\ sp.line \in Seq(Byte) /\ i \in 0..n /\ m \in Nat
  BY ThroughHolds
<1>1. PICK w \in Nat : w = Len(Wire(j))
  <2>1. Wire(j) \in Seq(Byte)
    BY WireIs
  <2> QED BY <2>1, LenProperties
<1>2. PICK len \in Nat : len = Len(t)
  BY LenProperties
<1> DEFINE T == {k \in Nat : k <= l => \E y, m2, sp2 : y = x + k /\ Through(j, n, y, i, m2, sp2) /\ Alike(sp, sp2, TextTo(t, k))}
<1>3. 0 \in T
  <2>1. TextTo(t, 0) = << >>
    BY SubSeqEmpty DEF TextTo
  <2>2. sp.line \o << >> = sp.line
    BY <1>0, ConcatEmptySeq
  <2>3. Alike(sp, sp, TextTo(t, 0))
    BY <1>0, <2>1, <2>2 DEF Alike
  <2> QED BY <2>3
<1>4. ASSUME NEW k \in Nat, k \in T PROVE k + 1 \in T
  <2> SUFFICES ASSUME k + 1 <= l
               PROVE  \E y, m2, sp2 : y = x + (k + 1) /\ Through(j, n, y, i, m2, sp2) /\ Alike(sp, sp2, TextTo(t, k + 1))
    OBVIOUS
  <2>1. k <= l
    OBVIOUS
  <2>2. PICK y, m2, sp2 : y = x + k /\ Through(j, n, y, i, m2, sp2) /\ Alike(sp, sp2, TextTo(t, k))
    BY <1>4, <2>1
  <2> HIDE DEF T
  <2>3. PICK b, o : b = t[o] /\ o = k + 1 /\ o \in 1..l /\ o \in 1..len
    BY <1>2
  <2>4. y \in Nat /\ y < Len(Wire(j)) /\ b = Wire(j)[y + 1] /\ b # Newline /\ y + 1 = x + (k + 1)
    <3>1. y \in Nat /\ y < w /\ y + 1 = x + o /\ y + 1 = x + (k + 1)
      <4>1. y = x + k /\ o = k + 1 /\ k + 1 <= l
        BY <2>2, <2>3
      <4> QED BY <1>1, <4>1
    <3>2. Wire(j)[x + o] = t[o]
      BY <2>3, Zenon DEF Laid
    <3>3. b # Newline
      BY <2>3
    <3> QED BY <1>1, <2>3, <3>1, <3>2, <3>3
  <2>5. Steps(j, n, y, i, m2, sp2, b)
    BY <2>2, <2>4, ByteStep
  <2>6. PICK sp3 : sp3 = [sp2 EXCEPT !.line = @ \o <<b>>]
    OBVIOUS
  <2>7. Through(j, n, y + 1, i, m2 + 1, sp3)
    BY <2>4, <2>5, <2>6 DEF Steps
  <2>8. Alike(sp, sp3, TextTo(t, k + 1))
    <3>1. k < Len(t)
      BY <1>2
    <3>2. sp.line \o TextTo(t, k + 1) = Plus(sp.line \o TextTo(t, k), t[k + 1])
      <4>1. t \in Seq(Byte) /\ sp.line \in Seq(Byte)
        BY <1>0
      <4>2. \A base \in Seq(Byte) : base \o TextTo(t, k + 1) = Plus(base \o TextTo(t, k), t[k + 1])
        BY <3>1, <4>1, NextGrows, SMTT(20)
      <4> QED BY <4>1, <4>2
    <3>3. sp3.line = sp2.line \o <<b>> /\ sp3.data = sp2.data /\ sp3.hasData = sp2.hasData
          /\ {"line", "data", "hasData"} \subseteq DOMAIN sp3
      BY <2>2, <2>6 DEF Alike
    <3> QED BY <2>2, <2>3, <3>2, <3>3 DEF Alike, Plus
  <2> QED BY <2>4, <2>7, <2>8
<1> HIDE DEF T
<1>5. l \in T
  BY <1>3, <1>4, NatRange
<1>6. PICK m2, sp2 : Through(j, n, x + l, i, m2, sp2) /\ Alike(sp, sp2, TextTo(t, l))
  BY <1>5 DEF T
<1>7. PICK sp3 : sp3 = [sp EXCEPT !.line = @ \o TextTo(t, l)]
  OBVIOUS
<1>8. /\ {"line", "data", "hasData"} \subseteq DOMAIN sp3
      /\ sp3.line = sp2.line /\ sp3.data = sp2.data /\ sp3.hasData = sp2.hasData
  BY <1>0, <1>6, <1>7 DEF Alike
<1>9. Through(j, n, x + l, i, m2, sp3)
  BY <1>6, <1>8, AlikeThrough
<1> QED BY <1>7, <1>9

\* Where the first newline is.
LEMMA NewlineIs ==
    ASSUME NEW t \in Seq(Byte)
    PROVE  /\ newlineIn(t) = 0 => \A y \in 1..Len(t) : t[y] # Newline
           /\ newlineIn(t) # 0 => /\ newlineIn(t) \in 1..Len(t) /\ t[newlineIn(t)] = Newline
                                  /\ \A y \in 1..newlineIn(t) - 1 : t[y] # Newline
<1>1. PICK l \in Nat : l = Len(t) /\ DOMAIN t = 1..l
  BY LenProperties
<1>2. PICK s : s = {y \in DOMAIN t : t[y] = Newline}
  OBVIOUS
<1>3. CASE Newline \in Range(t)
  <2>1. s # {} /\ s \in SUBSET Nat
    BY <1>1, <1>2, <1>3 DEF Range
  <2>2. Min(s) \in s /\ \A y \in s : Min(s) <= y
    BY <2>1, HasMin
  <2>3. newlineIn(t) = Min(s)
    BY <1>2, <1>3 DEF newlineIn
  <2>4. PICK k : k = newlineIn(t)
    OBVIOUS
  <2>5. k \in 1..l /\ t[k] = Newline /\ \A y \in s : k <= y
    BY <1>1, <1>2, <2>2, <2>3, <2>4
  <2>6. ASSUME NEW y \in 1..k - 1 PROVE t[y] # Newline
    <3>1. y \in 1..l /\ ~(k <= y)
      BY <2>5
    <3> QED BY <1>1, <1>2, <2>5, <3>1
  <2> QED BY <1>1, <2>4, <2>5, <2>6
<1>4. CASE Newline \notin Range(t)
  <2>1. newlineIn(t) = 0
    BY <1>4 DEF newlineIn
  <2> QED BY <1>1, <1>4, <2>1 DEF Range
<1> QED BY <1>3, <1>4

\* Where a round of Write, that went to the nl-th byte, leaves the splitter.
Wrote(j, n, x, i, nl, line) ==
    \/ lineYields(line, j.script) = << >> /\ \E m2 : Through(j, n, x + nl, i, m2, handleLine(line))
    \/ /\ i < n /\ lineYields(line, j.script) = <<j.script[i + 1]>>
       /\ Through(j, n, x + nl, i + 1, 0, handleLine(line))

LEMMA WriteThrough ==
    ASSUME NEW j, NEW n \in Nat, DOMAIN j.script = 1..n, NEW x \in Nat, NEW i, NEW m, NEW sp,
           Through(j, n, x, i, m, sp), NEW t \in Seq(Byte), NEW l \in Nat, l = Len(t), x + l <= Len(Wire(j)),
           Laid(Wire(j), x, t, l), NEW nl, nl = newlineIn(t)
    PROVE  /\ nl = 0 => \E m2 : Through(j, n, x + l, i, m2, [sp EXCEPT !.line = @ \o t])
           /\ nl # 0 => /\ nl \in 1..l
                        /\ Wrote(j, n, x, i, nl, [sp EXCEPT !.line = @ \o SubSeq(t, 1, nl - 1)])
<1>1. CASE nl = 0
  <2>1. \A y \in 1..l : t[y] # Newline
    BY <1>1, NewlineIs
  <2>2. \E m2 : Through(j, n, x + l, i, m2, [sp EXCEPT !.line = @ \o TextTo(t, l)])
    <3>1. l <= Len(t)
      OBVIOUS
    <3> QED BY <2>1, <3>1, Quiet
  <2>3. TextTo(t, l) = t
    <3>1. 0 \in 0..Len(t)
      OBVIOUS
    <3>2. PICK o : o = 0 /\ o \in 0..Len(t)
      BY <3>1
    <3> QED BY <3>2, TextParts
  <2> QED BY <1>1, <2>2, <2>3
<1>2. CASE nl # 0
  <2>1. nl \in 1..l /\ t[nl] = Newline /\ \A y \in 1..nl - 1 : t[y] # Newline
    BY <1>2, NewlineIs
  <2>2. PICK k \in Nat : k = nl - 1 /\ nl = k + 1 /\ k < l
    <3>1. nl - 1 \in Nat /\ nl = nl - 1 + 1 /\ nl - 1 < l
      BY <2>1
    <3> QED BY <3>1
  <2>3. PICK w \in Nat : w = Len(Wire(j))
    <3>1. Wire(j) \in Seq(Byte)
      BY WireIs
    <3> QED BY <3>1, LenProperties
  <2>4. PICK y \in Nat : y = x + k /\ y < w /\ y + 1 = x + nl
    <3>1. x + k \in Nat /\ x + k < w /\ x + k + 1 = x + nl
      BY <2>2, <2>3
    <3> QED BY <3>1
  <2>5. Laid(Wire(j), x, t, k)
    <3>1. \A z \in 1..k : z \in 1..l
      BY <2>2
    <3> QED BY <3>1, Zenon DEF Laid
  <2>6. PICK line : line = [sp EXCEPT !.line = @ \o TextTo(t, k)]
    OBVIOUS
  <2>7. PICK m2 : Through(j, n, y, i, m2, line)
    <3>1. k <= Len(t) /\ x + k <= Len(Wire(j)) /\ \A z \in 1..k : t[z] # Newline
      BY <2>1, <2>2
    <3>2. \E m2 : Through(j, n, x + k, i, m2, [sp EXCEPT !.line = @ \o TextTo(t, k)])
      BY <2>5, <3>1, Quiet
    <3> QED BY <2>4, <2>6, <3>2
  <2>8. Newline = Wire(j)[y + 1]
    <3>1. Wire(j)[x + nl] = t[nl]
      BY <2>1, Zenon DEF Laid
    <3> QED BY <2>1, <2>4, <3>1
  <2>9. Steps(j, n, y, i, m2, line, Newline)
    BY <2>3, <2>4, <2>7, <2>8, ByteStep
  <2>10. Wrote(j, n, x, i, nl, line)
    BY <2>4, <2>9 DEF Steps, Wrote
  <2> QED BY <1>2, <2>1, <2>2, <2>6, <2>10 DEF TextTo
<1> QED BY <1>1, <1>2

\* What the flush calls back with.
Flushed(j, n, i, m) == i < n /\ m >= Size(j) - 2

LEMMA FlushThrough ==
    ASSUME NEW j, NEW n \in Nat, DOMAIN j.script = 1..n, NEW x, NEW i, NEW m, NEW sp, Through(j, n, x, i, m, sp)
    PROVE  /\ Flushed(j, n, i, m) => flushYields(sp, j.script) = <<j.script[i + 1]>>
           /\ ~Flushed(j, n, i, m) => flushYields(sp, j.script) \in {<< >>, <<Torn>>}
<1>0. i \in 0..n /\ i \in Nat /\ DOMAIN j.script \subseteq Nat
  BY DEF Through
<1>1. CASE i < n
  <2>1. m \in 0..Size(j) - 1 /\ Midway(sp, i + 1, m - Lead(j), j.twoLines)
    BY <1>1 DEF Through, InEvent
  <2>2. PICK o, s, l, f : /\ o = i + 1 /\ o \in DOMAIN j.script /\ s = Size(j) /\ l = Lead(j) /\ f = Full(j.twoLines)
                          /\ s \in {5, 7, 9} /\ l \in {0, 2} /\ s = l + f /\ f \in {5, 7}
    <3>1. Full(j.twoLines) \in {5, 7}
      BY DEF Full
    <3>2. i + 1 \in DOMAIN j.script
      BY <1>0, <1>1
    <3>3. Size(j) \in {5, 7, 9} /\ Lead(j) \in {0, 2} /\ Size(j) = Lead(j) + Full(j.twoLines)
      BY <1>0, Sizes
    <3> QED BY <3>1, <3>2, <3>3
  <2>3. m \in 0..s - 1
    BY <2>1, <2>2
  <2>4. PICK k \in Int : k = m - l /\ k >= -2 /\ k < f /\ (k >= f - 2 <=> m >= s - 2)
    <3>1. l \in {0, 2} /\ f \in {5, 7} /\ m \in 0..l + f - 1 /\ s = l + f
      BY <2>2, <2>3
    <3> QED BY <3>1, FromLead
  <2>5. Midway(sp, o, k, j.twoLines)
    BY <2>1, <2>2, <2>4
  <2>6. Yields(sp, o, k, j.twoLines, j.script)
    BY <1>0, <2>2, <2>4, <2>5, OneByte
  <2>7. k >= f - 2 => flushYields(sp, j.script) = <<j.script[o]>>
    BY <2>2, <2>6 DEF Yields
  <2>8. ~(k >= f - 2) => flushYields(sp, j.script) \in {<< >>, <<Torn>>}
    BY <2>2, <2>6 DEF Yields
  <2>9. Flushed(j, n, i, m) <=> k >= f - 2
    BY <1>1, <2>2, <2>4 DEF Flushed
  <2> QED BY <2>2, <2>7, <2>8, <2>9
<1>2. CASE i = n
  <2>1. m \in 0..DoneSize(j) /\ Trail(sp, m)
    BY <1>2 DEF Through, InTrail
  <2>2. m \in 0..4
    BY <2>1 DEF DoneSize
  <2>3. flushYields(sp, j.script) \in {<< >>, <<Torn>>}
    BY <1>0, <2>1, <2>2, TrailByte
  <2>4. ~Flushed(j, n, i, m)
    BY <1>0, <1>2 DEF Flushed
  <2> QED BY <2>3, <2>4
<1> QED BY <1>0, <1>1, <1>2
-----------------------------------------------------------------------------
(* What has been heard of a stream once x bytes have gone through the splitter *)

HeardIn(j, slack, x) == TextTo(j.script, Cardinality({k \in DOMAIN j.script : BytesTo(j, k) - slack <= x}))

LEMMA HeardIs ==
    \A s : Heard(s) = HeardIn(job[s], IF phase[s] \in {"new", "relay"} THEN 0 ELSE 2, pos[s] - Len(buf[s]))
  BY DEF Heard, HeardIn, TextTo, BytesTo, BytesOf

LEMMA Counting == \A i \in Nat : Cardinality(1..i) = i
<1>1. ASSUME NEW i \in Nat PROVE Cardinality(1..i) = i
  <2>1. Cardinality(1..i) = IF 1 > i THEN 0 ELSE i - 1 + 1
    BY FS_Interval
  <2> QED BY <2>1
<1> QED BY <1>1

Upto(j, n, x, i, m) ==
    /\ HeardIn(j, 0, x) = TextTo(j.script, i)
    /\ Flushed(j, n, i, m) => HeardIn(j, 2, x) = TextTo(j.script, i + 1)
    /\ ~Flushed(j, n, i, m) => HeardIn(j, 2, x) = TextTo(j.script, i)

LEMMA HeardUpto ==
    \A j, n, x, i, m, sp : n \in Nat /\ DOMAIN j.script = 1..n /\ Through(j, n, x, i, m, sp) => Upto(j, n, x, i, m)
<1> SUFFICES ASSUME NEW j, NEW n \in Nat, DOMAIN j.script = 1..n, NEW x, NEW i, NEW m, NEW sp,
                    Through(j, n, x, i, m, sp)
             PROVE  Upto(j, n, x, i, m)
  OBVIOUS
<1>1. i \in 0..n /\ m \in Nat /\ x = BytesTo(j, i) + m
  BY ThroughHolds
<1>2. PICK o, z : o = BytesTo(j, i) /\ z = Size(j) /\ o \in Nat /\ z \in {5, 7, 9} /\ BytesTo(j, i + 1) = o + z
  BY <1>1, Sizes
<1>3. i < n => m <= z - 1
  <2> SUFFICES ASSUME i < n PROVE m <= z - 1
    OBVIOUS
  <2>1. m \in 0..Size(j) - 1
    BY DEF Through, InEvent
  <2> QED BY <1>2, <2>1
<1>4. ASSUME NEW k \in 1..n PROVE BytesTo(j, k) \in Nat
  BY Sizes
<1>5. ASSUME NEW k \in 1..n, k <= i PROVE BytesTo(j, k) <= o
  <2>1. CASE k = i
    BY <1>2, <1>4, <2>1
  <2>2. CASE k < i
    <3>1. BytesTo(j, k) + Size(j) <= BytesTo(j, i)
      BY <1>1, <2>2, EventsLie
    <3> QED BY <1>2, <1>4, <3>1
  <2> QED BY <1>1, <1>5, <2>1, <2>2
<1>6. ASSUME NEW k \in 1..n, k > i + 1 PROVE BytesTo(j, k) >= o + z + z
  <2>1. i + 1 \in Nat /\ i + 1 < k
    BY <1>1, <1>6
  <2>2. BytesTo(j, i + 1) + Size(j) <= BytesTo(j, k)
    BY <2>1, EventsLie
  <2> QED BY <1>2, <1>4, <2>2
<1>7. ASSUME NEW k \in 1..n
      PROVE  /\ BytesTo(j, k) - 0 <= x <=> k <= i
             /\ BytesTo(j, k) - 2 <= x <=> k <= i \/ (k = i + 1 /\ m >= z - 2)
  <2>0. PICK y \in Nat : y = BytesTo(j, k)
    BY <1>4
  <2>4. i \in Int /\ m \in Int /\ m >= 0 /\ o \in Int /\ z \in Int /\ z >= 5 /\ x = o + m /\ k \in Int
    <3>1. i \in Int /\ m \in Int /\ m >= 0 /\ k \in Int
      BY <1>1
    <3>2. o \in Int /\ z \in Int /\ z >= 5
      BY <1>2
    <3>3. x = o + m
      BY <1>1, <1>2
    <3> QED BY <3>1, <3>2, <3>3
  <2>1. CASE k <= i
    <3>1. y <= o
      BY <1>5, <2>0, <2>1
    <3> QED BY <1>1, <1>2, <2>0, <2>1, <3>1
  <2>2. CASE k = i + 1
    <3>1. y = o + z /\ i < n /\ m <= z - 1
      BY <1>1, <1>2, <1>3, <2>0, <2>2
    <3>2. ~(k <= i) /\ ~(y <= x) /\ (y - 2 <= x <=> m >= z - 2)
      BY <2>2, <2>4, <3>1
    <3> QED BY <2>0, <2>2, <3>2
  <2>3. CASE k > i + 1
    <3>1. y >= o + z + z /\ i < n /\ m <= z - 1
      BY <1>1, <1>3, <1>6, <2>0, <2>3
    <3>2. ~(k <= i) /\ k # i + 1 /\ ~(y <= x) /\ ~(y - 2 <= x)
      BY <2>3, <2>4, <3>1
    <3> QED BY <2>0, <3>2
  <2> QED BY <1>1, <2>1, <2>2, <2>3
<1>8. HeardIn(j, 0, x) = TextTo(j.script, i)
  <2>1. {k \in DOMAIN j.script : BytesTo(j, k) - 0 <= x} = 1..i
    BY <1>1, <1>7
  <2>2. i \in Nat
    BY <1>1
  <2> QED BY <2>1, <2>2, Counting DEF HeardIn
<1>9. ASSUME Flushed(j, n, i, m) PROVE HeardIn(j, 2, x) = TextTo(j.script, i + 1)
  <2>1. i < n /\ m >= z - 2
    BY <1>2, <1>9 DEF Flushed
  <2>2. {k \in DOMAIN j.script : BytesTo(j, k) - 2 <= x} = 1..i + 1
    BY <1>1, <1>7, <2>1
  <2>3. i + 1 \in Nat
    BY <1>1
  <2> QED BY <2>2, <2>3, Counting DEF HeardIn
<1>10. ASSUME ~Flushed(j, n, i, m) PROVE HeardIn(j, 2, x) = TextTo(j.script, i)
  <2>1. ~(i < n /\ m >= z - 2)
    BY <1>2, <1>10 DEF Flushed
  <2>2. {k \in DOMAIN j.script : BytesTo(j, k) - 2 <= x} = 1..i
    BY <1>1, <1>7, <2>1
  <2>3. i \in Nat
    BY <1>1
  <2> QED BY <2>2, <2>3, Counting DEF HeardIn
<1> QED BY <1>8, <1>9, <1>10 DEF Upto

LEMMA HeardSoFar ==
    \A j, n, x, i, m, sp : n \in Nat /\ DOMAIN j.script = 1..n /\ Through(j, n, x, i, m, sp) =>
        HeardIn(j, 0, x) = TextTo(j.script, i) /\ i \in 0..n
<1>1. ASSUME NEW j, NEW n, NEW x, NEW i, NEW m, NEW sp, n \in Nat, DOMAIN j.script = 1..n, Through(j, n, x, i, m, sp)
      PROVE  HeardIn(j, 0, x) = TextTo(j.script, i) /\ i \in 0..n
  <2>1. Upto(j, n, x, i, m)
    BY <1>1, HeardUpto
  <2>2. i \in 0..n
    BY <1>1 DEF Through
  <2> QED BY <2>1, <2>2 DEF Upto
<1> QED BY <1>1

-----------------------------------------------------------------------------
\* The third part of the invariant.  The bytes of the last read lie where they
\* did in the stream; while they are relayed the splitter holds what it should;
\* and a converter has heeded what has been heard, also in its closing events.
Lying(j, p, b) ==
    /\ b \in Seq(Byte) /\ p \in Nat /\ Len(b) <= p /\ p <= Len(Wire(j))
    /\ Laid(Wire(j), p - Len(b), b, Len(b))

Hearing(j, ph, x, sp, c, e) ==
    /\ ph \in {"new", "relay"} => \E i, m : Through(j, Len(j.script), x, i, m, sp)
    /\ j.client # "native" =>
         c.up = j.up /\
         LET heard == HeardIn(j, IF ph \in {"new", "relay"} THEN 0 ELSE 2, x)
         IN  IF ph \in {"saved", "done"} /\ e # "left" THEN Faith(c, heard) ELSE Heeds(c, heard)

HeardInv ==
    /\ DOMAIN pos = Stream /\ DOMAIN buf = Stream /\ DOMAIN splitter = Stream
    /\ \A s \in Stream :
         /\ Lying(job[s], pos[s], buf[s])
         /\ Hearing(job[s], phase[s], pos[s] - Len(buf[s]), splitter[s], conv[s], end[s])

\* What a job is.
Relayed(j) ==
    /\ j.script \in Seq(Range(j.script))
    /\ \A i \in DOMAIN j.script : IsPayload(j.script[i])

LEMMA JobIs ==
    ASSUME StreamsInv, NEW s \in Stream
    PROVE  Relayed(job[s])
  BY StreamRelayAssumption DEF StreamsInv, Relayed

LEMMA Scripted ==
    ASSUME NEW j, Relayed(j)
    PROVE  /\ Len(j.script) \in Nat /\ DOMAIN j.script = 1..Len(j.script)
           /\ \A i \in 0..Len(j.script) : Payloads(TextTo(j.script, i)) /\ TextTo(j.script, 0) = << >>
           /\ \A i \in Nat : i < Len(j.script) =>
                 TextTo(j.script, i + 1) = Plus(TextTo(j.script, i), j.script[i + 1]) /\ IsPayload(j.script[i + 1])
<1>1. PICK q, S : q = j.script /\ S = Range(q) /\ q \in Seq(S) /\ \A i \in DOMAIN q : IsPayload(q[i])
  BY DEF Relayed
<1>2. PICK n \in Nat : n = Len(q) /\ DOMAIN q = 1..n
  BY <1>1, LenProperties
<1>3. ASSUME NEW i \in 0..n PROVE Payloads(TextTo(q, i))
  <2>1. PICK t : t = SubSeq(q, 1, i)
    OBVIOUS
  <2>2. t \in Seq(S) /\ Len(t) = i /\ \A k \in 1..i : t[k] = q[k]
    BY <1>1, <1>2, <2>1, SubSeqProperties
  <2>3. DOMAIN t = 1..i
    BY <2>2, LenProperties
  <2>4. ASSUME NEW k \in DOMAIN t PROVE IsPayload(t[k])
    BY <1>1, <1>2, <2>2, <2>3, <2>4
  <2> QED BY <2>1, <2>2, <2>4 DEF Payloads, IsSeq, TextTo
<1>4. TextTo(q, 0) = << >>
  BY <1>1, SubSeqEmpty DEF TextTo
<1>5. ASSUME NEW i \in Nat, i < n PROVE TextTo(q, i + 1) = Plus(TextTo(q, i), q[i + 1]) /\ IsPayload(q[i + 1])
  <2>1. i + 1 \in DOMAIN q
    BY <1>2, <1>5
  <2>2. q \in Seq(S) /\ i < Len(q)
    BY <1>1, <1>2, <1>5
  <2>3. TextTo(q, i + 1) = Plus(TextTo(q, i), q[i + 1])
    BY <2>2, NextGrows
  <2>4. IsPayload(q[i + 1])
    BY <1>1, <2>1
  <2> QED BY <2>3, <2>4
<1> QED BY <1>1, <1>2, <1>3, <1>4, <1>5

LEMMA NewHeeds ==
    ASSUME NEW client, NEW up
    PROVE  Heeds(NewConverter(client, up), << >>) /\ NewConverter(client, up).up = up
<1>1. PICK c : c = NewConverter(client, up)
  OBVIOUS
<1>2. /\ Written(c) /\ c.out = << >> /\ c.tools = << >> /\ c.callArgs = << >> /\ c.next = 0
      /\ c.started = FALSE /\ c.textOpen = FALSE /\ c.part = FALSE /\ c.msgOut = None
      /\ c.text = << >> /\ c.emitted = 0 /\ c.finish = "" /\ c.up = up /\ c.client = client
  BY <1>1 DEF NewConverter, Written
<1>3. DOMAIN << >> = {} /\ Len(<< >>) = 0
  BY NothingYet, EmptySeq
<1>4. SaidIn(c.out, "text", Place(c)) = << >>
  BY <1>2, NothingSaid
<1>5. Calling(c, << >>)
  <2>1. Pieces(c.out) /\ Unended(c.out) /\ c.next \in Nat
    <3>1. IsSeq(<< >>)
      BY NothingYet
    <3>2. PICK e : e = << >> /\ c.out = e /\ IsSeq(e) /\ DOMAIN e = {} /\ SayPieces(e, "text") /\ SayPieces(e, "args")
      BY <1>2, <1>3, <3>1, NothingSaid
    <3>3. Pieces(c.out)
      BY <3>2 DEF Pieces
    <3>4. Unended(c.out)
      BY <3>2 DEF Unended
    <3>5. c.next = 0
      BY <1>2
    <3>6. c.next \in Nat
      BY <3>5
    <3> QED BY <3>3, <3>4, <3>6
  <2>2. DOMAIN c.tools = {} /\ Calls(<< >>) = {}
    BY <1>2, <1>3, NothingOwed
  <2>3. \A at : SaidIn(c.out, "args", at) = << >>
    BY <1>2, NothingSaid
  <2>4. \A key : OwedArgs(<< >>, key) = << >>
    BY NothingOwed
  <2> QED BY <2>1, <2>2, <2>3, <2>4 DEF Calling
<1>6. "" \in Finish
  BY DEF Finish
<1> QED BY <1>1, <1>2, <1>3, <1>4, <1>5, <1>6, NothingOwed DEF Heeds
-----------------------------------------------------------------------------
LEMMA NewThrough ==
    ASSUME NEW j, Relayed(j), NEW z, z = 0
    PROVE  Through(j, Len(j.script), z, z, z, NewSplitter)
<1>1. PICK n \in Nat : n = Len(j.script)
  BY Scripted
<1>2. Holds(NewSplitter, << >>, << >>, FALSE)
  BY DEF Holds, NewSplitter
<1>3. Midway(NewSplitter, z + 1, z - Lead(j), j.twoLines) /\ Trail(NewSplitter, z)
  BY <1>2, Begins
<1>4. z \in Nat
  OBVIOUS
<1>5. z \in 0..Size(j) - 1 /\ z \in 0..DoneSize(j)
  <2>1. Size(j) \in {5, 7, 9} /\ DoneSize(j) \in {0, 4}
    BY <1>4, Sizes DEF DoneSize
  <2> QED BY <2>1
<1>6. z \in 0..n /\ z = BytesTo(j, z) + z
  BY BytesNone
<1>7. NewSplitter.line \in Seq(Byte)
  BY EmptySeq DEF NewSplitter
<1> QED BY <1>1, <1>3, <1>5, <1>6, <1>7 DEF Through, InEvent, InTrail

LEMMA InitHears == Init => HeardInv
<1> SUFFICES ASSUME Init PROVE HeardInv
  OBVIOUS
<1>1. StreamsInv
  BY InitStreams
<1>2. /\ DOMAIN pos = Stream /\ DOMAIN buf = Stream /\ DOMAIN splitter = Stream
  BY DEF Init
<1>3. ASSUME NEW s \in Stream
      PROVE  /\ Lying(job[s], pos[s], buf[s])
             /\ Hearing(job[s], phase[s], pos[s] - Len(buf[s]), splitter[s], conv[s], end[s])
  <2>1. PICK j : j = job[s] /\ Relayed(j)
    BY <1>1, JobIs
  <2>2. PICK n \in Nat : n = Len(j.script) /\ DOMAIN j.script = 1..n
    BY <2>1, Scripted
  <2>3. PICK z \in Nat : z = 0
    OBVIOUS
  <2>4. /\ pos[s] = z /\ buf[s] = << >> /\ splitter[s] = NewSplitter /\ phase[s] = "new"
        /\ conv[s] = NewConverter(j.client, j.up)
    BY <2>1, <2>3 DEF Init
  <2>5. << >> \in Seq(Byte) /\ Len(<< >>) = z /\ Len(buf[s]) = z /\ z - z = z
    BY <2>3, <2>4, EmptySeq
  <2>6. Lying(j, z, << >>)
    <3>1. PICK w \in Nat : w = Len(Wire(j))
      <4>1. Wire(j) \in Seq(Byte)
        BY <2>2, WireIs
      <4> QED BY <4>1, LenProperties
    <3>2. Laid(Wire(j), z - Len(<< >>), << >>, Len(<< >>))
      BY <2>3, <2>5 DEF Laid
    <3> QED BY <2>3, <2>5, <3>1, <3>2 DEF Lying
  <2>7. Through(j, n, z, z, z, NewSplitter)
    BY <2>1, <2>2, <2>3, NewThrough
  <2>8. HeardIn(j, 0, z) = << >>
    <3>1. HeardIn(j, 0, z) = TextTo(j.script, z)
      <4>1. Upto(j, n, z, z, z)
        BY <2>2, <2>7, HeardUpto
      <4> QED BY <4>1 DEF Upto
    <3>2. 0 \in 0..n
      OBVIOUS
    <3>3. TextTo(j.script, 0) = << >>
      BY <2>1, <2>2, <3>2, Scripted
    <3> QED BY <2>3, <3>1, <3>3
  <2>9. Heeds(conv[s], << >>) /\ conv[s].up = j.up
    BY <2>4, NewHeeds
  <2>10. Hearing(j, "new", z, NewSplitter, conv[s], end[s])
    BY <2>2, <2>7, <2>8, <2>9 DEF Hearing
  <2> QED BY <2>1, <2>4, <2>5, <2>6, <2>10
<1> QED BY <1>2, <1>3 DEF HeardInv

\* A line that has been read.
LEMMA LineHears ==
    ASSUME StreamsInv, FramesInv, HeardInv, NEW s \in Stream, WriteLine(s)
    PROVE  /\ DOMAIN buf' = Stream /\ DOMAIN splitter' = Stream
           /\ \A z \in Stream : z # s => buf'[z] = buf[z] /\ splitter'[z] = splitter[z]
           /\ Lying(job[s], pos[s], buf'[s])
           /\ Hearing(job[s], "relay", pos[s] - Len(buf'[s]), splitter'[s], conv'[s], end[s])
<1>1. PICK j, c : j = job[s] /\ c = conv[s] /\ Relayed(j) /\ ConvType(c) /\ c.client = j.client
  BY JobIs DEF StreamsInv
<1>2. PICK n \in Nat : n = Len(j.script) /\ DOMAIN j.script = 1..n
  BY <1>1, Scripted
<1>3. PICK p, t, sp : p = pos[s] /\ t = buf[s] /\ sp = splitter[s]
  OBVIOUS
<1>4. /\ t \in Seq(Byte) /\ p \in Nat /\ Len(t) <= p /\ p <= Len(Wire(j))
      /\ Laid(Wire(j), p - Len(t), t, Len(t))
  BY <1>1, <1>3 DEF HeardInv, Lying
<1>5. PICK l \in Nat : l = Len(t)
  BY <1>4, LenProperties
<1>6. PICK w \in Nat : w = Len(Wire(j))
  <2>1. Wire(j) \in Seq(Byte)
    BY <1>2, WireIs
  <2> QED BY <2>1, LenProperties
<1>7. PICK x \in Nat : x = p - l /\ p = x + l /\ x + l <= w
  <2>1. p - l \in Nat /\ p = p - l + l /\ p - l + l <= w
    BY <1>4, <1>5, <1>6
  <2> QED BY <2>1
<1>8. phase[s] = "relay" /\ Framing(c)
  <2>1. phase[s] = "relay"
    BY DEF WriteLine
  <2> QED BY <1>1, <2>1 DEF FramesInv, Ended
<1>9. Hearing(j, "relay", x, sp, c, end[s])
  BY <1>1, <1>3, <1>5, <1>7, <1>8 DEF HeardInv
<1>10. PICK i, m : Through(j, n, x, i, m, sp)
  BY <1>2, <1>9 DEF Hearing
<1>19. ASSUME NEW x2, NEW i2, NEW m2, NEW sp2, Through(j, n, x2, i2, m2, sp2)
       PROVE  HeardIn(j, 0, x2) = TextTo(j.script, i2) /\ i2 \in 0..n
  BY <1>2, <1>19, HeardSoFar
<1>11. HeardIn(j, 0, x) = TextTo(j.script, i) /\ i \in 0..n
  BY <1>10, <1>19
<1>12. j.client # "native" => c.up = j.up /\ Heeds(c, TextTo(j.script, i))
  BY <1>9, <1>11 DEF Hearing
<1>13. PICK nl : nl = newlineIn(t)
  OBVIOUS
<1>14. /\ nl = 0 => \E m2 : Through(j, n, x + l, i, m2, [sp EXCEPT !.line = @ \o t])
       /\ nl # 0 => /\ nl \in 1..l
                    /\ Wrote(j, n, x, i, nl, [sp EXCEPT !.line = @ \o SubSeq(t, 1, nl - 1)])
  <2>1. Laid(Wire(j), x, t, l) /\ x + l <= Len(Wire(j))
    BY <1>4, <1>5, <1>6, <1>7
  <2> QED BY <1>2, <1>4, <1>5, <1>10, <1>13, <2>1, WriteThrough
<1>15. DOMAIN buf = Stream /\ DOMAIN splitter = Stream /\ DOMAIN conv = Stream
  BY DEF HeardInv, StreamsInv
<1>16. ASSUME NEW x2, NEW sp2, NEW m2, Through(j, n, x2, i, m2, sp2)
       PROVE  Hearing(j, "relay", x2, sp2, c, end[s])
  <2>1. HeardIn(j, 0, x2) = TextTo(j.script, i)
    BY <1>16, <1>19
  <2> QED BY <1>2, <1>12, <1>16, <2>1 DEF Hearing
<1>17. CASE nl = 0
  <2>1. PICK line : line = [sp EXCEPT !.line = @ \o t]
    OBVIOUS
  <2>2. /\ splitter' = [splitter EXCEPT ![s] = line] /\ buf' = [buf EXCEPT ![s] = << >>] /\ UNCHANGED conv
    BY <1>3, <1>13, <1>17, <2>1 DEF WriteLine
  <2>3. /\ DOMAIN buf' = Stream /\ DOMAIN splitter' = Stream /\ buf'[s] = << >> /\ splitter'[s] = line /\ conv'[s] = c
        /\ \A z \in Stream : z # s => buf'[z] = buf[z] /\ splitter'[z] = splitter[z]
    BY <1>1, <1>15, <2>2
  <2>4. PICK z \in Nat : z = 0 /\ Len(<< >>) = z /\ << >> \in Seq(Byte) /\ p - z = p /\ z <= p
    <3>1. Len(<< >>) = 0 /\ << >> \in Seq(Byte)
      BY EmptySeq
    <3> QED BY <1>4, <3>1
  <2>5. Lying(j, p, << >>)
    <3>1. Laid(Wire(j), p - Len(<< >>), << >>, Len(<< >>))
      BY <2>4 DEF Laid
    <3> QED BY <1>4, <2>4, <3>1 DEF Lying
  <2>6. PICK m2 : Through(j, n, p, i, m2, line)
    BY <1>7, <1>14, <1>17, <2>1
  <2>7. Hearing(j, "relay", p, line, c, end[s])
    BY <1>16, <2>6
  <2> QED BY <1>1, <1>3, <2>3, <2>4, <2>5, <2>7
<1>18. CASE nl # 0
  <2>1. PICK line : line = [sp EXCEPT !.line = @ \o SubSeq(t, 1, nl - 1)]
    OBVIOUS
  <2>2. nl \in 1..l /\ Wrote(j, n, x, i, nl, line)
    BY <1>14, <1>18, <2>1
  <2>3. PICK r : r = SubSeq(t, nl + 1, l)
    OBVIOUS
  <2>4. /\ splitter' = [splitter EXCEPT ![s] = handleLine(line)] /\ buf' = [buf EXCEPT ![s] = r]
        /\ Callback(s, lineYields(line, j.script))
    BY <1>1, <1>3, <1>5, <1>13, <1>18, <2>1, <2>3 DEF WriteLine
  <2>5. /\ DOMAIN buf' = Stream /\ DOMAIN splitter' = Stream /\ buf'[s] = r /\ splitter'[s] = handleLine(line)
        /\ \A z \in Stream : z # s => buf'[z] = buf[z] /\ splitter'[z] = splitter[z]
    BY <1>15, <2>4
  <2>6. PICK k \in Nat : k = l - nl /\ nl + k = l
    <3>1. l - nl \in Nat /\ nl + (l - nl) = l
      BY <2>2
    <3> QED BY <3>1
  <2>7. r \in Seq(Byte) /\ Len(r) = k /\ \A y \in 1..k : r[y] = t[nl + y]
    <3>1. t \in Seq(Byte) /\ nl \in Nat /\ nl + k <= Len(t)
      BY <1>4, <1>5, <2>2, <2>6
    <3>2. r = SubSeq(t, nl + 1, nl + k)
      BY <2>3, <2>6
    <3>3. /\ SubSeq(t, nl + 1, nl + k) \in Seq(Byte) /\ Len(SubSeq(t, nl + 1, nl + k)) = k
          /\ \A y \in 1..k : SubSeq(t, nl + 1, nl + k)[y] = t[nl + y]
      BY <3>1, Sliced
    <3> QED BY <3>2, <3>3
  <2>8. PICK x2 \in Nat : x2 = x + nl /\ p - k = x2 /\ k <= p
    <3>1. x + nl \in Nat /\ p - k = x + nl /\ k <= p
      BY <1>7, <2>2, <2>6
    <3> QED BY <3>1
  <2>9. Lying(j, p, r)
    <3>1. ASSUME NEW y \in 1..k PROVE Wire(j)[x2 + y] = r[y]
      <4>1. PICK o : o = nl + y /\ o \in 1..l /\ x + o = x2 + y
        BY <2>2, <2>6, <2>8
      <4>2. Laid(Wire(j), x, t, l)
        BY <1>4, <1>5, <1>7
      <4>3. Wire(j)[x + o] = t[o]
        BY <4>1, <4>2, Zenon DEF Laid
      <4> QED BY <2>7, <4>1, <4>3
    <3>2. Laid(Wire(j), x2, r, k)
      BY <3>1 DEF Laid
    <3> QED BY <1>4, <2>7, <2>8, <3>2 DEF Lying
  <2>10. Hearing(j, "relay", x2, handleLine(line), conv'[s], end[s])
    <3>1. CASE lineYields(line, j.script) = << >> /\ \E m2 : Through(j, n, x + nl, i, m2, handleLine(line))
      <4>1. conv'[s] = c
        BY <1>1, <2>4, <3>1 DEF Callback
      <4> QED BY <1>16, <2>8, <3>1, <4>1
    <3>2. CASE /\ i < n /\ lineYields(line, j.script) = <<j.script[i + 1]>>
               /\ Through(j, n, x + nl, i + 1, 0, handleLine(line))
      <4>1. PICK q, h : q = j.script[i + 1] /\ h = lineYields(line, j.script) /\ h = <<q>> /\ h # << >> /\ h[1] = q
        BY <3>2
      <4>2. conv'[s] = Feed(c, q)
        BY <1>1, <1>15, <2>4, <4>1 DEF Callback
      <4>3. /\ TextTo(j.script, i + 1) = Plus(TextTo(j.script, i), q) /\ IsPayload(q)
            /\ Payloads(TextTo(j.script, i))
        <5>1. i \in Nat /\ i \in 0..Len(j.script) /\ i < Len(j.script)
          BY <1>2, <1>11, <3>2
        <5> QED BY <1>1, <4>1, <5>1, Scripted
      <4>4. HeardIn(j, 0, x2) = Plus(TextTo(j.script, i), q)
        <5>1. HeardIn(j, 0, x + nl) = TextTo(j.script, i + 1)
          <6>1. Upto(j, n, x + nl, i + 1, 0)
            BY <1>2, <3>2, HeardUpto
          <6> QED BY <6>1 DEF Upto
        <5> QED BY <2>8, <4>3, <5>1
      <4>5. j.client # "native" => Heeds(Feed(c, q), Plus(TextTo(j.script, i), q)) /\ Feed(c, q).up = j.up
        <5> SUFFICES ASSUME j.client # "native"
                     PROVE  Heeds(Feed(c, q), Plus(TextTo(j.script, i), q)) /\ Feed(c, q).up = j.up
          OBVIOUS
        <5>1. Heeds(c, TextTo(j.script, i)) /\ c.up = j.up /\ c.client # "native"
          BY <1>1, <1>12
        <5> QED BY <1>1, <1>8, <4>3, <5>1, FeedHeeds
      <4>6. \E i2, m2 : Through(j, n, x2, i2, m2, handleLine(line))
        BY <2>8, <3>2
      <4> QED BY <1>2, <4>2, <4>4, <4>5, <4>6 DEF Hearing
    <3> QED BY <2>2, <3>1, <3>2 DEF Wrote
  <2> QED BY <1>1, <1>3, <2>5, <2>7, <2>8, <2>9, <2>10
<1> QED BY <1>17, <1>18
-----------------------------------------------------------------------------
\* The end of the stream: what is left over is an event, or heard by no one.
LEMMA FlushHears ==
    ASSUME StreamsInv, FramesInv, HeardInv, NEW s \in Stream, Flush(s)
    PROVE  Hearing(job[s], "closing", pos[s] - Len(buf[s]), splitter'[s], conv'[s], end[s])
<1>1. PICK j, c : j = job[s] /\ c = conv[s] /\ Relayed(j) /\ ConvType(c) /\ c.client = j.client
  BY JobIs DEF StreamsInv
<1>2. PICK n \in Nat : n = Len(j.script) /\ DOMAIN j.script = 1..n
  BY <1>1, Scripted
<1>3. PICK x, sp : x = pos[s] - Len(buf[s]) /\ sp = splitter[s]
  OBVIOUS
<1>4. phase[s] = "relay" /\ Framing(c)
  <2>1. phase[s] = "relay"
    BY DEF Flush
  <2> QED BY <1>1, <2>1 DEF FramesInv, Ended
<1>5. Hearing(j, "relay", x, sp, c, end[s])
  BY <1>1, <1>3, <1>4 DEF HeardInv
<1>6. PICK i, m : Through(j, n, x, i, m, sp)
  BY <1>2, <1>5 DEF Hearing
<1>7. HeardIn(j, 0, x) = TextTo(j.script, i) /\ i \in 0..n
  BY <1>2, <1>6, HeardSoFar
<1>8. j.client # "native" => c.up = j.up /\ c.client # "native" /\ Heeds(c, TextTo(j.script, i))
  BY <1>1, <1>5, <1>7 DEF Hearing
<1>9. PICK h : h = flushYields(sp, j.script) /\ Callback(s, h)
  BY <1>1, <1>3 DEF Flush
<1>10. DOMAIN conv = Stream
  BY DEF StreamsInv
<1>11. h = << >> => conv'[s] = c
  BY <1>1, <1>9 DEF Callback
<1>12. ASSUME NEW q, h = <<q>> PROVE conv'[s] = Feed(c, q)
  <2>1. h # << >> /\ h[1] = q
    BY <1>12
  <2> QED BY <1>1, <1>9, <1>10, <2>1 DEF Callback
<1>13. Payloads(TextTo(j.script, i))
  BY <1>1, <1>2, <1>7, Scripted
<1>14. ASSUME NEW ps, HeardIn(j, 2, x) = ps,
              j.client # "native" => conv'[s].up = j.up /\ Heeds(conv'[s], ps)
       PROVE  Hearing(j, "closing", x, splitter'[s], conv'[s], end[s])
  BY <1>14 DEF Hearing
<1>15. CASE Flushed(j, n, i, m)
  <2>1. HeardIn(j, 2, x) = TextTo(j.script, i + 1)
    <3>1. Upto(j, n, x, i, m)
      BY <1>2, <1>6, HeardUpto
    <3> QED BY <1>15, <3>1 DEF Upto
  <2>2. h = <<j.script[i + 1]>>
    BY <1>2, <1>6, <1>9, <1>15, FlushThrough, ZenonT(30)
  <2>3. PICK q : q = j.script[i + 1]
    OBVIOUS
  <2>4. TextTo(j.script, i + 1) = Plus(TextTo(j.script, i), q) /\ IsPayload(q)
    <3>1. i \in Nat /\ i < Len(j.script)
      BY <1>2, <1>7, <1>15 DEF Flushed
    <3> QED BY <1>1, <2>3, <3>1, Scripted
  <2>5. conv'[s] = Feed(c, q)
    BY <1>12, <2>2, <2>3
  <2>6. j.client # "native" => Heeds(Feed(c, q), Plus(TextTo(j.script, i), q)) /\ Feed(c, q).up = j.up
    <3> SUFFICES ASSUME j.client # "native"
                 PROVE  Heeds(Feed(c, q), Plus(TextTo(j.script, i), q)) /\ Feed(c, q).up = j.up
      OBVIOUS
    <3> QED BY <1>1, <1>4, <1>8, <1>13, <2>4, FeedHeeds
  <2> QED BY <1>1, <1>3, <1>14, <2>1, <2>4, <2>5, <2>6
<1>16. CASE ~Flushed(j, n, i, m)
  <2>1. HeardIn(j, 2, x) = TextTo(j.script, i)
    <3>1. Upto(j, n, x, i, m)
      BY <1>2, <1>6, HeardUpto
    <3> QED BY <1>16, <3>1 DEF Upto
  <2>2. h \in {<< >>, <<Torn>>}
    BY <1>2, <1>6, <1>9, <1>16, FlushThrough, ZenonT(30)
  <2>3. CASE h = << >>
    BY <1>1, <1>3, <1>8, <1>11, <1>14, <2>1, <2>3
  <2>4. CASE h = <<Torn>>
    <3>1. conv'[s] = Feed(c, Torn)
      BY <1>12, <2>4
    <3>2. j.client # "native" => Heeds(Feed(c, Torn), TextTo(j.script, i)) /\ Feed(c, Torn).up = j.up
      <4> SUFFICES ASSUME j.client # "native"
                   PROVE  Heeds(Feed(c, Torn), TextTo(j.script, i)) /\ Feed(c, Torn).up = j.up
        OBVIOUS
      <4> QED BY <1>1, <1>4, <1>8, <1>13, TornHeeds
    <3> QED BY <1>1, <1>3, <1>14, <2>1, <3>1, <3>2
  <2> QED BY <2>2, <2>3, <2>4
<1> QED BY <1>15, <1>16

\* Where a stream is changes nothing of the others.
LEMMA OthersHear ==
    ASSUME HeardInv, NEW s \in Stream, UNCHANGED job,
           DOMAIN pos' = Stream, DOMAIN buf' = Stream, DOMAIN splitter' = Stream,
           \A z \in Stream : z # s => /\ phase'[z] = phase[z] /\ pos'[z] = pos[z] /\ buf'[z] = buf[z]
                                      /\ splitter'[z] = splitter[z] /\ conv'[z] = conv[z] /\ end'[z] = end[z],
           Lying(job[s], pos'[s], buf'[s]),
           Hearing(job[s], phase'[s], pos'[s] - Len(buf'[s]), splitter'[s], conv'[s], end'[s])
    PROVE  HeardInv'
<1>1. ASSUME NEW z \in Stream
      PROVE  /\ Lying(job[z], pos'[z], buf'[z])
             /\ Hearing(job[z], phase'[z], pos'[z] - Len(buf'[z]), splitter'[z], conv'[z], end'[z])
  <2>1. CASE z = s
    BY <2>1
  <2>2. CASE z # s
    BY <2>2 DEF HeardInv
  <2> QED BY <2>1, <2>2
<1> QED BY <1>1 DEF HeardInv

LEMMA StepHears == StreamsInv /\ FramesInv /\ HeardInv /\ [Next]_vars => HeardInv'
<1> SUFFICES ASSUME StreamsInv, FramesInv, HeardInv, [Next]_vars PROVE HeardInv'
  OBVIOUS
<1>0. /\ DOMAIN end = Stream /\ DOMAIN phase = Stream /\ DOMAIN conv = Stream
      /\ DOMAIN pos = Stream /\ DOMAIN buf = Stream /\ DOMAIN splitter = Stream
  BY DEF FramesInv, StreamsInv, HeardInv
<1>8. ASSUME NEW s \in Stream
      PROVE  /\ Lying(job[s], pos[s], buf[s])
             /\ Hearing(job[s], phase[s], pos[s] - Len(buf[s]), splitter[s], conv[s], end[s])
  BY DEF HeardInv
<1>1. ASSUME NEW s \in Stream, Begin(s) PROVE HeardInv'
  <2>1. phase[s] = "new" /\ phase' = [phase EXCEPT ![s] = "relay"] /\ UNCHANGED <<job, pos, buf, splitter, conv, end>>
    BY <1>1 DEF Begin
  <2>2. Hearing(job[s], "relay", pos[s] - Len(buf[s]), splitter[s], conv[s], end[s])
    BY <1>8, <2>1 DEF Hearing
  <2> QED BY <1>0, <1>8, <2>1, <2>2, OthersHear
<1>2. ASSUME NEW s \in Stream, Read(s) PROVE HeardInv'
  <2>1. /\ phase[s] = "relay" /\ buf[s] = << >> /\ UNCHANGED <<job, phase, splitter, conv, end>>
        /\ \E n \in ReadSize[s] :
              /\ pos[s] + n <= Len(Wire(job[s])) /\ pos' = [pos EXCEPT ![s] = pos[s] + n]
              /\ buf' = [buf EXCEPT ![s] = SubSeq(Wire(job[s]), pos[s] + 1, pos[s] + n)]
    BY <1>2 DEF Read, Reading
  <2>2. PICK j, p : j = job[s] /\ p = pos[s] /\ Relayed(j)
    BY JobIs
  <2>3. PICK n \in Nat : /\ p + n <= Len(Wire(j)) /\ pos' = [pos EXCEPT ![s] = p + n]
                         /\ buf' = [buf EXCEPT ![s] = SubSeq(Wire(j), p + 1, p + n)]
    <3>1. ReadSize[s] \subseteq Nat
      BY StreamRelayAssumption
    <3> QED BY <2>1, <2>2, <3>1
  <2>4. PICK w, l : w = Wire(j) /\ w \in Seq(Byte) /\ l = Len(w) /\ l \in Nat
    <3>1. Len(j.script) \in Nat /\ DOMAIN j.script = 1..Len(j.script)
      BY <2>2, Scripted
    <3>2. Wire(j) \in Seq(Byte)
      BY <3>1, WireIs
    <3> QED BY <3>2, LenProperties
  <2>5. p \in Nat
    BY <1>8, <2>2 DEF Lying
  <2>15. p + n <= l
    BY <2>3, <2>4
  <2>16. p \in Nat /\ n \in Nat /\ l \in Nat
    BY <2>4, <2>5
  <2>6. PICK r : r = SubSeq(w, p + 1, p + n)
    OBVIOUS
  <2>7. r \in Seq(Byte) /\ Len(r) = n /\ \A y \in 1..n : r[y] = w[p + y]
    <3>1. w \in Seq(Byte) /\ p \in Nat /\ n \in Nat /\ p + n <= Len(w)
      BY <2>4, <2>15, <2>16
    <3> QED BY <2>6, <3>1, Sliced
  <2>8. PICK k \in Nat : k = p + n /\ k - n = p /\ n <= k /\ k <= l
    <3>1. p + n \in Nat /\ p + n - n = p /\ n <= p + n /\ p + n <= l
      BY <2>15, <2>16
    <3> QED BY <2>16, <3>1
  <2>9. Lying(j, k, r)
    <3>1. Laid(w, p, r, n)
      BY <2>7 DEF Laid
    <3> QED BY <2>4, <2>7, <2>8, <3>1 DEF Lying
  <2>10. Len(buf[s]) = 0 /\ p - 0 = p
    <3>1. Len(<< >>) = 0
      BY EmptySeq
    <3> QED BY <2>1, <2>5, <3>1
  <2>11. Hearing(j, phase[s], p, splitter[s], conv[s], end[s])
    BY <1>8, <2>2, <2>10
  <2>12. pos'[s] = k /\ buf'[s] = r /\ pos'[s] - Len(buf'[s]) = p
    BY <1>0, <2>3, <2>4, <2>6, <2>7, <2>8
  <2>13. Lying(job[s], pos'[s], buf'[s])
    BY <2>2, <2>9, <2>12
  <2>14. Hearing(job[s], phase'[s], pos'[s] - Len(buf'[s]), splitter'[s], conv'[s], end'[s])
    BY <2>1, <2>2, <2>11, <2>12
  <2> QED BY <1>0, <2>1, <2>3, <2>13, <2>14, OthersHear
<1>3. ASSUME NEW s \in Stream, WriteFails(s) \/ ReadEnds(s) PROVE HeardInv'
  <2>1. /\ phase[s] = "relay" /\ UNCHANGED <<job, phase, pos, buf, splitter, conv>>
        /\ \E how : end' = [end EXCEPT ![s] = how]
    BY <1>3 DEF WriteFails, ReadEnds, Reading
  <2>2. Hearing(job[s], "relay", pos[s] - Len(buf[s]), splitter[s], conv[s], end'[s])
    BY <1>8, <2>1 DEF Hearing
  <2>3. \A z \in Stream : z # s => end'[z] = end[z]
    BY <1>0, <2>1
  <2> QED BY <1>0, <1>8, <2>1, <2>2, <2>3, OthersHear
<1>4. ASSUME NEW s \in Stream, WriteLine(s) PROVE HeardInv'
  <2>1. phase[s] = "relay" /\ UNCHANGED <<job, phase, pos, end>>
    BY <1>4 DEF WriteLine
  <2>2. /\ DOMAIN buf' = Stream /\ DOMAIN splitter' = Stream
        /\ \A z \in Stream : z # s => buf'[z] = buf[z] /\ splitter'[z] = splitter[z]
        /\ Lying(job[s], pos[s], buf'[s])
        /\ Hearing(job[s], "relay", pos[s] - Len(buf'[s]), splitter'[s], conv'[s], end[s])
    BY <1>4, LineHears
  <2>3. \A z \in Stream : z # s => conv'[z] = conv[z]
    BY <1>4, HandlesPayloads
  <2> QED BY <1>0, <2>1, <2>2, <2>3, OthersHear
<1>5. ASSUME NEW s \in Stream, Flush(s) PROVE HeardInv'
  <2>1. /\ phase' = [phase EXCEPT ![s] = "closing"] /\ UNCHANGED <<job, pos, buf, end>>
        /\ \E sp : splitter' = [splitter EXCEPT ![s] = sp]
    BY <1>5 DEF Flush
  <2>2. Hearing(job[s], "closing", pos[s] - Len(buf[s]), splitter'[s], conv'[s], end[s])
    BY <1>5, FlushHears
  <2>3. \A z \in Stream : z # s => conv'[z] = conv[z]
    BY <1>5, HandlesPayloads
  <2>4. DOMAIN splitter' = Stream /\ \A z \in Stream : z # s => splitter'[z] = splitter[z]
    BY <1>0, <2>1
  <2> QED BY <1>0, <1>8, <2>1, <2>2, <2>3, <2>4, OthersHear
<1>6. ASSUME NEW s \in Stream, Close(s) PROVE HeardInv'
  <2>1. /\ phase[s] = "closing" /\ phase' = [phase EXCEPT ![s] = "saved"]
        /\ UNCHANGED <<job, pos, buf, splitter, end>>
        /\ conv' = IF end[s] = "left" THEN conv ELSE [conv EXCEPT ![s] = Finalize(conv[s])]
    BY <1>6 DEF Close
  <2>2. PICK j, c, x : j = job[s] /\ c = conv[s] /\ x = pos[s] - Len(buf[s])
    OBVIOUS
  <2>3. ConvType(c) /\ c.client = j.client /\ Framing(c)
    BY <2>1, <2>2 DEF StreamsInv, FramesInv, Ended
  <2>4. j.client # "native" => c.up = j.up /\ Heeds(c, HeardIn(j, 2, x))
    BY <1>8, <2>1, <2>2 DEF Hearing
  <2>5. j.client # "native" => Faith(Finalize(c), HeardIn(j, 2, x)) /\ Finalize(c).up = j.up
    BY <2>3, <2>4, EndFaith
  <2>6. conv'[s] = IF end[s] = "left" THEN c ELSE Finalize(c)
    BY <1>0, <2>1, <2>2
  <2>7. Hearing(j, "saved", x, splitter[s], conv'[s], end[s])
    BY <2>4, <2>5, <2>6 DEF Hearing
  <2>8. \A z \in Stream : z # s => conv'[z] = conv[z]
    BY <1>0, <2>1
  <2> QED BY <1>0, <1>8, <2>1, <2>2, <2>7, <2>8, OthersHear
<1>7. ASSUME NEW s \in Stream, FinishSession(s) PROVE HeardInv'
  <2>1. phase[s] = "saved" /\ phase' = [phase EXCEPT ![s] = "done"] /\ UNCHANGED <<job, pos, buf, splitter, conv, end>>
    BY <1>7 DEF FinishSession
  <2>2. Hearing(job[s], "done", pos[s] - Len(buf[s]), splitter[s], conv[s], end[s])
    BY <1>8, <2>1 DEF Hearing
  <2> QED BY <1>0, <1>8, <2>1, <2>2, OthersHear
<1>9. CASE (\E s \in Stream : ClientLeaves(s)) \/ Add \/ Tick \/ UNCHANGED vars
  <2>1. UNCHANGED <<job, phase, pos, buf, splitter, conv, end>>
    BY <1>9 DEF ClientLeaves, Add, Tick, vars, relayVars
  <2> QED BY <2>1 DEF HeardInv
<1> QED BY <1>1, <1>2, <1>3, <1>4, <1>5, <1>6, <1>7, <1>9 DEF Next

\* What has been heard, whether or not the closing events have been written.
LEMMA HeardFaith ==
    ASSUME StreamsInv, HeardInv, NEW s \in Stream, ~Native(s)
    PROVE  Faith(conv[s], Heard(s)) /\ conv[s].up = job[s].up /\ conv[s].client = job[s].client
<1>1. Hearing(job[s], phase[s], pos[s] - Len(buf[s]), splitter[s], conv[s], end[s])
  BY DEF HeardInv
<1>2. conv[s].up = job[s].up /\ (Faith(conv[s], Heard(s)) \/ Heeds(conv[s], Heard(s)))
  BY <1>1, HeardIs DEF Hearing, Native
<1> QED BY <1>2, HeedsFaith DEF StreamsInv

\* However the network cuts the bytes of a stream, and whatever events it brings
\* in whatever order, a converted stream carries exactly the text and, call by
\* call, the arguments of the events that were read whole, also when it ends or
\* breaks in the middle of one (sse.go:21-90, convert_stream.go:100-790).
THEOREM StreamsAreFaithful == Spec => []Faithful
<1>1. StreamsInv /\ HeardInv => Faithful
  <2> SUFFICES ASSUME StreamsInv, HeardInv, NEW s \in Stream, ~Native(s)
               PROVE  LET said == ToolEvents(Heard(s)) IN
                      /\ Saying(s, "text", IF conv[s].client = "responses" THEN conv[s].msgOut ELSE 0)
                           = OwedText(Heard(s), job[s].client, job[s].up)
                      /\ DOMAIN conv[s].tools = Calls(said)
                      /\ \A key \in DOMAIN conv[s].tools : Saying(s, "args", conv[s].tools[key]) = OwedArgs(said, key)
    BY DEF Faithful
  <2>1. Faith(conv[s], Heard(s)) /\ conv[s].up = job[s].up /\ conv[s].client = job[s].client
    BY HeardFaith
  <2> QED BY <2>1 DEF Faith, Saying, Place
<1>2. Init => StreamsInv /\ FramesInv /\ HeardInv
  BY InitStreams, InitFrames, InitHears
<1>3. StreamsInv /\ FramesInv /\ HeardInv /\ [Next]_vars => (StreamsInv /\ FramesInv /\ HeardInv)'
  BY StepStreams, StepFrames, StepHears
<1> QED BY <1>1, <1>2, <1>3, PTL DEF Spec

\* A client is told of a truncation, or of a tool call, when that is what the
\* upstream said of its end: the last time it did, when it did more than once,
\* and by whichever of three vocabularies (convert_stream.go:100-790).
THEOREM ReasonIsKept == Spec => []ReasonKept
<1>1. StreamsInv /\ HeardInv => ReasonKept
  <2> SUFFICES ASSUME StreamsInv, HeardInv, NEW s \in Stream, ~Native(s), NEW e \in Range(conv[s].out), e.ev = "finish"
               PROVE  LET last == LastFinish(Heard(s), job[s].up)
                          cut == last \in {"length", "max_tokens"}
                          called == Calls(ToolEvents(Heard(s))) # {} \/ last \in {"tool_calls", "tool_use"}
                      IN  /\ cut <=> e.say \in {"length", "max_tokens", "incomplete"}
                          /\ job[s].client # "responses" => ((called /\ ~cut) <=> e.say \in {"tool_calls", "tool_use"})
    BY DEF ReasonKept
  <2>1. Faith(conv[s], Heard(s)) /\ conv[s].up = job[s].up /\ conv[s].client = job[s].client
    BY HeardFaith
  <2>2. PICK i \in DOMAIN conv[s].out : e = conv[s].out[i]
    BY DEF Range
  <2>3. Right(job[s].client, e.say, LastFinish(Heard(s), job[s].up), Calls(ToolEvents(Heard(s))) # {})
    BY <2>1, <2>2 DEF Faith, Rightly
  <2> QED BY <2>3 DEF Right
<1>2. Init => StreamsInv /\ FramesInv /\ HeardInv
  BY InitStreams, InitFrames, InitHears
<1>3. StreamsInv /\ FramesInv /\ HeardInv /\ [Next]_vars => (StreamsInv /\ FramesInv /\ HeardInv)'
  BY StepStreams, StepFrames, StepHears
<1> QED BY <1>1, <1>2, <1>3, PTL DEF Spec
=============================================================================
