---------------------------- MODULE Throughput ----------------------------
(***************************************************************************)
(* Throughput of internal/gateway/throughput.go: the output tokens of the   *)
(* last few intervals, to which streams contribute estimates as they go and *)
(* correct them when they end.  Every operation holds t.mu.                 *)
(***************************************************************************)
EXTENDS Integers, Sequences, Functions

CONSTANTS
    Stream,  \* the streams, each of which opens one session
    Window   \* intervals in the window

ASSUME ThroughputAssumption == Window \in Nat \ {0}

VARIABLES
    cur,      \* tokens of the interval in progress
    buckets,  \* tokens of the last Window intervals, the latest last
    sess,     \* the open sessions: what each has contributed
    rate,     \* the tokens per window broadcast last
    rolled,   \* history: tokens that have left the window
    settled   \* history: the final counts of the sessions ended, and what was added

throughputVars == <<cur, buckets, sess, rate, rolled, settled>>

ThroughputTypeOK ==
    /\ cur \in Int
    /\ buckets \in [1..Window -> Int]
    /\ DOMAIN sess \subseteq Stream /\ \A s \in DOMAIN sess : sess[s] \in Nat
    /\ rate \in Nat
    /\ rolled \in Int
    /\ settled \in Int

ThroughputInit ==
    /\ cur = 0
    /\ buckets = [i \in 1..Window |-> 0]
    /\ sess = << >>
    /\ rate = 0
    /\ rolled = 0
    /\ settled = 0

StreamBegin(s) ==
    /\ sess' = [z \in DOMAIN sess \union {s} |-> IF z = s THEN 0 ELSE sess[z]]
    /\ UNCHANGED <<cur, buckets, rate, rolled, settled>>

\* The session's count only grows.
StreamUpdate(s, total) ==
    /\ IF s \in DOMAIN sess /\ total > sess[s]
       THEN /\ sess' = [sess EXCEPT ![s] = total]
            /\ cur' = cur + total - sess[s]
       ELSE UNCHANGED <<cur, sess>>
    /\ UNCHANGED <<buckets, rate, rolled, settled>>

End(s) == sess' = [z \in DOMAIN sess \ {s} |-> sess[z]]

\* Mutant: an estimate above the exact count is left as it is.
StreamFinishUpOnly(s, final) ==
    /\ IF s \in DOMAIN sess
       THEN /\ cur' = IF final > sess[s] THEN cur + final - sess[s] ELSE cur
            /\ End(s)
            /\ settled' = settled + final
       ELSE UNCHANGED <<cur, sess, settled>>
    /\ UNCHANGED <<buckets, rate, rolled>>

\* The difference to the exact count may be negative.
StreamFinish(s, final) ==
    /\ IF s \in DOMAIN sess
       THEN /\ cur' = cur + final - sess[s]
            /\ End(s)
            /\ settled' = settled + final
       ELSE UNCHANGED <<cur, sess, settled>>
    /\ UNCHANGED <<buckets, rate, rolled>>

AddTokens(n) ==
    /\ IF n > 0 THEN cur' = cur + n /\ settled' = settled + n ELSE UNCHANGED <<cur, settled>>
    /\ UNCHANGED <<buckets, sess, rate, rolled>>

\* Mutant: the interval's count is not reset.
rotateKeepsCount ==
    LET window == [i \in 1..Window |-> IF i < Window THEN buckets[i + 1] ELSE cur]
    IN  /\ buckets' = window
        /\ rate' = IF SumFunction(window) < 0 THEN 0 ELSE SumFunction(window)
        /\ rolled' = 0
        /\ UNCHANGED <<cur, sess, settled>>

rotate ==
    LET window == [i \in 1..Window |-> IF i < Window THEN buckets[i + 1] ELSE cur]
    IN  /\ buckets' = window
        /\ cur' = 0
        /\ rate' = IF SumFunction(window) < 0 THEN 0 ELSE SumFunction(window)
        /\ rolled' = rolled + buckets[1]
        /\ UNCHANGED <<sess, settled>>
-----------------------------------------------------------------------------
\* Tokens are neither lost nor counted twice however estimates, corrections and
\* rotations interleave: what is in the window and what has left it add up to
\* what ended streams produced and open ones have announced.
Counted == cur + SumFunction(buckets) + rolled = settled + SumFunction(sess)
=============================================================================
