\* msg_id wrapping around (a 1-bit counter stands for the u16 of a release
\* build), with more requests outstanding than there are IDs.
CONSTANTS
    SessionIds = {s1}
    NoSession = NoSession
    ServiceIds = {1, 2}
    SvcTable <- MCSvcTable
    InCap = 2
    ReadMax = 2
    EgressMax = 1
    OutCap = 2
    MaxMsgId = 2
    MaxVersion = 1
    MaxPeerMsgs = 2
    MaxLocal = 0
    MsgIdMod = 2
    TlsWants = {}
    TlsWriteWants = {}
    PeerKinds = {"GET_STATUS", "PING"}
    DrainBatch = FALSE

SPECIFICATION Spec
CONSTRAINT MaxOutstanding

INVARIANT AcksMatchInFlight
VIEW View
