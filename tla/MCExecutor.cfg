CONSTANTS
    Channel = {c1, c2}
    Model <- MCModel
    Request = {r1}
    Wants <- MCWants
    Configs <- MCConfigs
    Group <- MCGroup
    NoOne = NoOne
    N = 3
    Weights <- MCWeights
SPECIFICATION MCSpec
INVARIANTS OneAnswerOneRow RowMatchesAnswer NoStoneUnturned NoUpstreamTwice Proportional
PROPERTIES NoWorkForTheGone KeepsContract RequestsEnd
CHECK_DEADLOCK FALSE
