\* TLS want-read/want-write outcomes on the tunnel, one session.
CONSTANTS
    SessionIds = {s1}
    NoSession = NoSession
    ServiceIds = {1, 2}
    SvcTable <- MCSvcTable
    InCap = 2
    ReadMax = 2
    EgressMax = 1
    OutCap = 2
    MaxMsgId = 2
    MaxVersion = 0
    MaxPeerMsgs = 2
    MaxLocal = 2
    MsgIdMod = 65536
    TlsWants = {"wantRead", "wantWrite"}
    TlsWriteWants = {"wantRead", "wantWrite"}
    PeerKinds = {"DATA", "PING"}
    DrainBatch = FALSE

SPECIFICATION Spec

INVARIANT WatchdogArmed
INVARIANT AcksMatchInFlight
VIEW View
