\* A REDIRECT ends the connection while timers are due in the same loop
\* iteration: the rest of the iteration is dispatched after shutdown().
CONSTANTS
    SessionIds = {s1}
    NoSession = NoSession
    ServiceIds = {1, 2}
    SvcTable <- MCSvcTable
    InCap = 1
    ReadMax = 1
    EgressMax = 1
    OutCap = 1
    MaxMsgId = 1
    MaxVersion = 0
    MaxPeerMsgs = 1
    MaxLocal = 0
    MsgIdMod = 65536
    TlsWants = {}
    TlsWriteWants = {}
    PeerKinds = {"REDIRECT"}
    DrainBatch = TRUE

SPECIFICATION Spec

VIEW View

PROPERTY ResultKept
