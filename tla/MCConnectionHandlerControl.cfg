\* Control Protocol and handshake, one session, a TLS layer that never blocks.
CONSTANTS
    SessionIds = {s1}
    NoSession = NoSession
    ServiceIds = {1, 2}
    SvcTable <- MCSvcTable
    InCap = 2
    ReadMax = 2
    EgressMax = 1
    OutCap = 2
    MaxMsgId = 2
    MaxVersion = 1
    MaxPeerMsgs = 2
    MaxLocal = 1
    MsgIdMod = 65536
    TlsWants = {}
    TlsWriteWants = {}
    PeerKinds = {"PING", "REGISTER", "UPDATE", "REDIRECT", "HUP", "RESET_SVC_TABLE",
                 "SCAN_NETWORK", "GET_STATUS", "STATUS", "UNKNOWN", "DATA"}
    DrainBatch = FALSE

SPECIFICATION Spec

INVARIANT AcksMatchInFlight
INVARIANT TableVersionsInOrder
PROPERTY AckProtocol
PROPERTY SessionProtocol
VIEW View
