CONSTANTS
    Sub = {s1}
    Topic = {t}
    TypeOf <- MCTypeOf
    Call = {c1, c2, c3}
    About <- MCAbout
    QueueSize = 2
    None = None
SPECIFICATION BusFairSpec
INVARIANTS PublishOrder PendingExact WaitMeansHandled
PROPERTIES Dispatched WaitReturns
CHECK_DEADLOCK FALSE
