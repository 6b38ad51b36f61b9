--------------------------- MODULE WeightedOrder ---------------------------
(***************************************************************************)
(* weightedOrder of internal/gateway/selector.go: the random order of the   *)
(* channels of one tier, drawn one by one with a probability proportional   *)
(* to the weight.  rand.Intn is a free choice.                              *)
(***************************************************************************)
EXTENDS Integers, FiniteSets, SequencesExt

CONSTANTS
    N,        \* channels of the tier
    Weights   \* the weights they may have been given

ASSUME WeightedOrderAssumption == N \in Nat \ {0} /\ Weights \subseteq Int

VARIABLES
    weights,  \* of the channels of the tier
    idx,      \* the indices not yet drawn
    out       \* the order drawn so far

orderVars == <<weights, idx, out>>

\* A weight of 0 or less counts as 1.
W(i) == IF weights[i] <= 0 THEN 1 ELSE weights[i]

\* The weights of the first k channels left.
Load == [k \in DOMAIN idx |-> W(idx[k])]
Total(k) == SumFunctionOnSet(Load, 1 .. k)

\* Mutant: the loop stops already at zero.
PickAtZero(r) ==
    CHOOSE k \in DOMAIN idx :
        /\ Total(k) >= r
        /\ \A l \in 1 .. k - 1 : Total(l) < r

\* The position of idx that the random number r selects: the first one at which
\* r, less the weights up to and including it, is negative.
Pick(r) ==
    CHOOSE k \in DOMAIN idx :
        /\ Total(k) > r
        /\ \A l \in 1 .. k - 1 : Total(l) <= r

OrderInit ==
    /\ weights \in [1 .. N -> Weights]
    /\ idx = [i \in 1 .. N |-> i]
    /\ out = << >>

Draw ==
    /\ idx # << >>
    /\ \E r \in 0 .. Total(Len(idx)) - 1 :
          /\ out' = Append(out, idx[Pick(r)])
          /\ idx' = RemoveAt(idx, Pick(r))
    /\ UNCHANGED weights

OrderSpec == OrderInit /\ [][Draw]_orderVars /\ WF_orderVars(Draw)

-----------------------------------------------------------------------------

OrderTypeOK ==
    /\ weights \in [1 .. N -> Weights]
    /\ idx \in Seq(1 .. N) /\ out \in Seq(1 .. N)

(* The load follows the weights: every channel that is left is selected by    *)
(* exactly as many random numbers as its weight, and none is lost or drawn    *)
(* twice on the way.                                                         *)
Proportional ==
    /\ IsInjective(idx \o out) /\ ToSet(idx \o out) = 1 .. N
    /\ \A k \in DOMAIN idx :
        Cardinality({r \in 0 .. Total(Len(idx)) - 1 : Pick(r) = k}) = W(idx[k])
=============================================================================
