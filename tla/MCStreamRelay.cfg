CONSTANTS
    a = a
    b = b
    s0 = s0
    Piece = {a, b}
    Key = {"0", "1", "fc"}
    Torn = Torn
    Stream = {s0}
    Window = 2
    Jobs <- MCJobs
    ReadSize <- MCReadSize
    Adds <- MCAdds
SPECIFICATION FairSpec
INVARIANTS Faithful Framed ReasonKept OutputRecorded Counted
PROPERTIES RateSettles
CHECK_DEADLOCK FALSE
