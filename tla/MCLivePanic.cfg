CONSTANTS
    Req <- MCReq
    Client = {k1}
    Sub <- MCSub
    Topic <- MCSub
    TypeOf <- MCTypeOf
    Call <- MCCall
    About <- MCAbout
    Caster <- MCSub
    Message <- MCCall
    QueueSize = 1
    SendBuffer = 1
    None = None
    NoClient = NoClient
    Pong = Pong
SPECIFICATION Spec
INVARIANT OneClientHarmsNone
CHECK_DEADLOCK FALSE
