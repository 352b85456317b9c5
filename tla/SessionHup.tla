----------------------------- MODULE SessionHup -----------------------------
(***************************************************************************)
(* What the Arrow client promises the Arrow Service about service          *)
(* sessions, whatever else it does. A session ID is opened by a service    *)
(* request. The service may close it with its own HUP; the client drops    *)
(* the session when it reads that HUP and does not answer it. Every       *)
(* session the client closes itself is announced with HUP(id, 0) (hangup   *)
(* or timeout) or HUP(id, 2) (socket error). A                              *)
(* request the client cannot serve is refused with HUP(id, 1), and only    *)
(* for an ID that has no open session. The service receives the client's   *)
(* HUPs in the order they were sent.                                       *)
(*                                                                         *)
(* ConnectionHandler implements it with open <- the live sessions, hups <- *)
(* the HUP frames in the output buffer and on the wire, and peerHups <-   *)
(* the session IDs of the service's HUPs the client has not read.          *)
(***************************************************************************)
EXTENDS Sequences

CONSTANT Ids            \* session IDs

VARIABLES
    open,               \* IDs of the sessions the client serves
    hups,               \* HUPs sent and not yet received, oldest first
    peerHups            \* IDs in the service's HUPs not yet read, oldest first

sessVars == <<open, hups, peerHups>>

Hup(s, code) == [sess |-> s, code |-> code]

Init ==
    /\ open = {}
    /\ hups = <<>>
    /\ peerHups = <<>>

(* The first request for an ID with no session creates the session.        *)
Open(s) ==
    /\ s \notin open
    /\ open' = open \cup {s}
    /\ UNCHANGED <<hups, peerHups>>

(* The client ends a session: the local service hung up or failed, or a    *)
(* write timed out.                                                         *)
ClientClose(s) ==
    /\ s \in open
    /\ open' = open \ {s}
    /\ \E code \in {0, 2} : hups' = Append(hups, Hup(s, code))
    /\ UNCHANGED peerHups

(* The service sends HUP for a session.                                   *)
PeerHup(s) ==
    /\ peerHups' = Append(peerHups, s)
    /\ UNCHANGED <<open, hups>>

(* The client reads the oldest service HUP: its session, if open, ends;   *)
(* no HUP is echoed.                                                       *)
PeerClose ==
    /\ peerHups # <<>>
    /\ open' = open \ {Head(peerHups)}
    /\ peerHups' = Tail(peerHups)
    /\ UNCHANGED hups

(* A request for an ID with no session that cannot be served.              *)
Refuse(s) ==
    /\ s \notin open
    /\ hups' = Append(hups, Hup(s, 1))
    /\ UNCHANGED <<open, peerHups>>

(* The service receives the oldest HUP in flight.                          *)
Deliver ==
    /\ hups # <<>>
    /\ hups' = Tail(hups)
    /\ UNCHANGED <<open, peerHups>>

Next ==
    \/ \E s \in Ids : Open(s) \/ ClientClose(s) \/ PeerHup(s) \/ Refuse(s)
    \/ PeerClose \/ Deliver

Spec == Init /\ [][Next]_sessVars

=============================================================================
