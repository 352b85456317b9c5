\* Eventual egress of session input under the event loop's fairness, with the
\* rest of a loop iteration dispatched after shutdown(); one
\* session, a TLS layer that never blocks. No view or symmetry: liveness.
CONSTANTS
    SessionIds = {s1}
    NoSession = NoSession
    ServiceIds = {1, 2}
    SvcTable <- MCSvcTable
    InCap = 2
    ReadMax = 2
    EgressMax = 1
    OutCap = 2
    MaxMsgId = 1
    MaxVersion = 0
    MaxPeerMsgs = 2
    MaxLocal = 2
    MsgIdMod = 65536
    TlsWants = {}
    TlsWriteWants = {}
    PeerKinds = {"DATA", "HUP"}
    DrainBatch = TRUE

SPECIFICATION LiveSpec

PROPERTY InputEventuallyForwarded
PROPERTY OutputEventuallyWritten
