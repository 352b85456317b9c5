-------------------------- MODULE ConnectionHandler --------------------------
(***************************************************************************)
(* The Arrow client connection handler (ConnectionHandler in               *)
(* src/src/net/arrow/mod.rs) together with its environment: the remote     *)
(* Arrow Service at the other end of the TLS tunnel, the local services    *)
(* behind the session sockets, the mio event loop's readiness and timer    *)
(* events, and the thread that changes the shared service table.           *)
(*                                                                         *)
(* Every mio callback (Handler::ready, Handler::timeout) runs to           *)
(* completion on one thread, so each is one action, except the tunnel's    *)
(* ready() callback, which is split into its read half and its write half  *)
(* (arrowEv records the event set between them; nothing else runs until   *)
(* the write half has run).                                                *)
(*                                                                         *)
(* Data is abstracted to units: a session read moves 1..ReadMax units, a   *)
(* data frame carries at most EgressMax units, and a service request       *)
(* carries one unit. Message bodies are reduced to the fields the engine   *)
(* inspects.                                                               *)
(***************************************************************************)
EXTENDS Integers, Sequences, FiniteSets, Bags, SequencesExt, ArrowStream

CONSTANTS
    SessionIds,     \* session IDs the Arrow Service may use
    ServiceIds,     \* non-zero service IDs the Arrow Service may request
    SvcTable,       \* config lookup: "address", "control" (no address) or "missing"
    NoSession,      \* session field of control frames that carry none
    InCap,          \* session input buffer capacity (256 KiB), in units
    ReadMax,        \* most units one session socket read returns (32 KiB scratch)
    EgressMax,      \* most units in one data frame (32 KiB)
    OutCap,         \* tunnel output buffer capacity (256 KiB), in units
    MaxMsgId,       \* bound: PING timer fires only while msg_id < MaxMsgId
    MaxVersion,     \* bound on service table versions
    MaxPeerMsgs,    \* bound on frames the Arrow Service initiates
    MaxLocal,       \* bound on units all local services send
    MsgIdMod,       \* msg_id is a u16: 2^16 (a smaller width to reach the wrap)
    TlsWants,       \* want-read/want-write outcomes a TLS read may return
    TlsWriteWants,  \* want-read/want-write outcomes a TLS write may return
    PeerKinds,      \* kinds of frames the Arrow Service may initiate
    DrainBatch      \* explore the events mio still dispatches after shutdown()

ASSUME SvcTable \in [ServiceIds -> {"address", "control", "missing"}]
ASSUME NoSession \notin SessionIds
ASSUME TlsWants \cup TlsWriteWants \subseteq {"wantRead", "wantWrite"}
ASSUME \A n \in {InCap, ReadMax, EgressMax, OutCap} : n \in Nat \ {0}

ASSUME MsgIdMod \in {2^w : w \in 1..16}
ASSUME DrainBatch \in BOOLEAN

VARIABLES
    \* ConnectionHandler fields
    pstate,         \* state: "Handshake" | "Established"
    msgId,          \* msg_id
    expectedAcks,   \* expected_acks: VecDeque<u16>
    ackTout,        \* ack_tout
    writeTout,      \* write_tout (tunnel)
    lastUpdate,     \* last_update: version of the last table sent
    result,         \* result: "none" | "redirect" | "error"
    output,         \* output_buffer: frames waiting for the tunnel
    tstate,         \* stream.state (ArrowStream)
    tinterest,      \* interest registered for the tunnel socket (token 0)
    sessions,       \* sessions: HashMap<u32, SessionContext>, a function
    sessionQueue,   \* session_queue: VecDeque<u32>
    timers,         \* the event loop's pending one-shot timers (a bag)
    arrowEv,        \* event set of a tunnel ready() between its halves, or {}
    pendingEv,      \* events of the current batch still dispatched after shutdown()
    \* environment
    version,        \* config.version() of the shared app context
    toClient,       \* frames sent by the Arrow Service, not yet read
    tlsRecord,      \* a TLS record without application data is readable
    wire,           \* frames written into the tunnel, not yet received
    peerPending,    \* REGISTER/PING received by the service, not yet ACKed
    peerVersion,    \* table version the service last received (-1: none)
    peerBudget,     \* frames the service may still initiate
    local,          \* per session ID: the local service connection
    localBudget     \* units the local services may still send

engineVars == <<pstate, msgId, expectedAcks, ackTout, writeTout, lastUpdate,
                result, output, tstate, tinterest, sessions, sessionQueue,
                timers, arrowEv, pendingEv>>
peerVars == <<version, toClient, tlsRecord, wire, peerPending, peerVersion, peerBudget>>
localVars == <<local, localBudget>>
vars == <<engineVars, peerVars, localVars>>

-----------------------------------------------------------------------------
(* Timeout: "unset" (no deadline) or "armed" (a deadline is set). Time is  *)
(* abstract: when a check runs, an armed deadline may or may not have      *)
(* passed, so Timeout::check (unset or now < deadline) can fail only when  *)
(* armed. A failed check is acted on at once, so no state keeps it.       *)
TimeoutStates == {"unset", "armed"}

CtrlKinds == {"ACK", "PING", "REGISTER", "UPDATE", "REDIRECT", "HUP",
              "RESET_SVC_TABLE", "SCAN_NETWORK", "GET_STATUS", "STATUS", "UNKNOWN"}

(* A Control Protocol message in an Arrow message with service ID 0.       *)
(* arg: ACK/HUP error code, REGISTER/UPDATE table version, STATUS count.   *)
Ctrl(kind, id, sess, arg) ==
    [kind |-> kind, id |-> id, svc |-> 0, sess |-> sess, arg |-> arg]

(* An Arrow message for a service session carrying `len` units.            *)
Data(svc, sess, len) ==
    [kind |-> "DATA", id |-> 0, svc |-> svc, sess |-> sess, arg |-> len]

Frames ==
    [kind : CtrlKinds, id : 0..MsgIdMod - 1, svc : {0}, sess : SessionIds \cup {NoSession}, arg : Int]
    \cup [kind : {"DATA"}, id : {0}, svc : ServiceIds, sess : SessionIds, arg : Nat]

(* SessionContext: buffered units, socket interest and write timeout.      *)
Ctx == [svc : ServiceIds, inb : Nat, outb : Nat, rd : BOOLEAN, wr : BOOLEAN, wtout : TimeoutStates]

ASSUME PeerKinds \subseteq (CtrlKinds \ {"ACK"}) \cup {"DATA"}

TimerEvents == {"Update", "Ping", "Arrow"} \cup SessionIds

NextMsgId == (msgId + 1) % MsgIdMod

(***************************************************************************)
(* Event sources of one iteration of the mio loop (run_once): the I/O      *)
(* tokens (the tunnel, token 0, and the session tokens) are dispatched     *)
(* first, then the timers that are due. shutdown() only clears the run     *)
(* flag, so the rest of the iteration is still dispatched, and a callback  *)
(* is dispatched either while the loop runs or as part of that rest.       *)
(***************************************************************************)
IoEv(x) == <<"io", x>>
TimerEv(t) == <<"timer", t>>

Dispatchable(e) == result = "none" \/ e \in pendingEv

(* WriteBuffer::is_full for a session input buffer.                        *)
IsFull(c) == c.inb >= InCap

(* Units held by the tunnel output buffer (control frames are tiny).       *)
OutSize(o) == FoldLeft(LAMBDA acc, f : acc + (IF f.kind = "DATA" THEN f.arg ELSE 0), 0, o)

Live == DOMAIN sessions

-----------------------------------------------------------------------------
(***************************************************************************)
(* ConnectionHandler::new: connect, send REGISTER (msg_id 0) carrying the  *)
(* current table version, start the tunnel timeout check.                  *)
(***************************************************************************)
Init ==
    /\ version = 0
    /\ pstate = "Handshake"
    /\ msgId = 1
    /\ expectedAcks = <<0>>
    /\ ackTout = "armed"
    /\ writeTout = "armed"
    /\ lastUpdate = version
    /\ result = "none"
    /\ output = <<Ctrl("REGISTER", 0, NoSession, version)>>
    /\ tstate = "Ok"
    /\ tinterest = Both
    /\ sessions = <<>>
    /\ sessionQueue = <<>>
    /\ timers = SetToBag({"Arrow"})
    /\ arrowEv = {}
    /\ pendingEv = {}
    /\ toClient = <<>>
    /\ tlsRecord = FALSE
    /\ wire = <<>>
    /\ peerPending = <<>>
    /\ peerVersion = -1
    /\ peerBudget = MaxPeerMsgs
    /\ local = [s \in SessionIds |-> [avail |-> 0, st |-> "open"]]
    /\ localBudget = MaxLocal

-----------------------------------------------------------------------------
(* Sending (action fragments; each leaves msgId to its caller).            *)

(* Mutant: the write timeout is not armed when output starts to queue.    *)
send_message_noarm(f) ==
    /\ output' = Append(output, f)
    /\ writeTout' = writeTout
    /\ tinterest' = Both

(* Mutant: the tunnel's writable interest is not enabled.                 *)
send_message_nowake(f) ==
    /\ output' = Append(output, f)
    /\ writeTout' = IF output = <<>> THEN "armed" ELSE writeTout
    /\ tinterest' = tinterest

(* send_message: append to the output buffer, arm the write timeout when   *)
(* the buffer was empty, ask for tunnel read and write events.             *)
send_message(f) ==
    /\ output' = Append(output, f)
    /\ writeTout' = IF output = <<>> THEN "armed" ELSE writeTout
    /\ tinterest' = Both

(* Mutant: the message is sent without recording its expected ACK.       *)
send_unconfirmed_nopush(f) ==
    /\ ackTout' = IF expectedAcks = <<>> THEN "armed" ELSE ackTout
    /\ expectedAcks' = expectedAcks
    /\ send_message(f)

(* send_unconfirmed_control_message: also expect an ACK for it.            *)
send_unconfirmed(f) ==
    /\ ackTout' = IF expectedAcks = <<>> THEN "armed" ELSE ackTout
    /\ expectedAcks' = Append(expectedAcks, f.id)
    /\ send_message(f)

(* send_hup_message                                                        *)
send_hup(s, code) ==
    /\ send_message(Ctrl("HUP", msgId, s, code))
    /\ msgId' = NextMsgId

(* remove_session_context: drop the context (its socket is deregistered); *)
(* session_queue is left as it is.                                         *)
RemoveSession(s) == [x \in Live \ {s} |-> sessions[x]]

(* SessionContext::update_socket_events                                   *)
update_socket_events(c) == [c EXCEPT !.rd = ~IsFull(c), !.wr = c.outb > 0]

(* Mutant: the session write timeout is not armed on the first unit.     *)
ctx_send_message_noarm(c) ==
    LET c1 == [c EXCEPT !.outb = @ + 1]
    IN  IF c.outb = 0 THEN update_socket_events(c1) ELSE c1

(* SessionContext::send_message: queue one unit for the local service.     *)
ctx_send_message(c) ==
    LET c1 == [c EXCEPT !.outb = @ + 1]
    IN  IF c.outb = 0 THEN update_socket_events([c1 EXCEPT !.wtout = "armed"]) ELSE c1

-----------------------------------------------------------------------------
(* Control Protocol dispatch. Each handler defines the engine variables    *)
(* other than tstate, tinterest (set by the read) and arrowEv.             *)

Fatal == result' = "error"

(* Engine variables a frame handler may change.                           *)
handlerVars == <<pstate, msgId, expectedAcks, ackTout, writeTout, lastUpdate,
                 result, output, sessions, sessionQueue, timers, local>>

(***************************************************************************)
(* process_ack_message and process_handshake_ack: pop the head of         *)
(* expected_acks and re-arm or clear the ACK timeout before comparing; a   *)
(* mismatch or an empty queue is fatal; the ACK of REGISTER (in            *)
(* Handshake) establishes the connection or, with a non-zero code, fails.  *)
(***************************************************************************)
process_ack_message(f) ==
    LET rest    == IF expectedAcks = <<>> THEN <<>> ELSE Tail(expectedAcks)
        matches == expectedAcks # <<>> /\ Head(expectedAcks) = f.id
    IN
    /\ expectedAcks' = rest
    /\ ackTout' = IF rest = <<>> THEN "unset" ELSE "armed"
    /\ \/ /\ matches /\ pstate = "Handshake" /\ f.arg = 0
          /\ pstate' = "Established"
          /\ timers' = timers (+) SetToBag({"Update", "Ping"})
          /\ UNCHANGED result
       \/ /\ matches /\ pstate = "Handshake" /\ f.arg # 0
          /\ Fatal
          /\ UNCHANGED <<pstate, timers>>
       \/ /\ matches /\ pstate = "Established"
          /\ UNCHANGED <<pstate, timers, result>>
       \/ /\ ~matches
          /\ Fatal
          /\ UNCHANGED <<pstate, timers>>
    /\ UNCHANGED <<msgId, lastUpdate, output, writeTout, sessions, sessionQueue, local>>

(* process_ping_message: ACK the service's PING with its own msg_id.       *)
process_ping_message(f) ==
    \/ /\ pstate = "Established"
       /\ send_message(Ctrl("ACK", f.id, NoSession, 0))
       /\ UNCHANGED <<pstate, msgId, expectedAcks, ackTout, lastUpdate, result,
                      sessions, sessionQueue, timers, local>>
    \/ /\ pstate = "Handshake"
       /\ Fatal
       /\ UNCHANGED <<pstate, msgId, expectedAcks, ackTout, writeTout, lastUpdate,
                      output, sessions, sessionQueue, timers, local>>

(* process_redirect_message: the connection ends with the new address.    *)
process_redirect_message ==
    /\ result' = IF pstate = "Established" THEN "redirect" ELSE "error"
    /\ UNCHANGED <<pstate, msgId, expectedAcks, ackTout, writeTout, lastUpdate,
                   output, sessions, sessionQueue, timers, local>>

(* process_hup_message: drop the named session; no HUP is echoed.          *)
process_hup_message(f) ==
    /\ \/ /\ pstate = "Established"
          /\ sessions' = RemoveSession(f.sess)
          /\ UNCHANGED result
       \/ /\ pstate = "Handshake"
          /\ Fatal
          /\ UNCHANGED sessions
    /\ UNCHANGED <<pstate, msgId, expectedAcks, ackTout, writeTout, lastUpdate,
                   output, sessionQueue, timers, local>>

(* process_command: hand the command to the command channel; a failed send *)
(* is only logged. The handler's own state does not change.                *)
process_command == UNCHANGED handlerVars

(* process_status_request and send_status                                 *)
process_status_request ==
    /\ send_message(Ctrl("STATUS", msgId, NoSession, Cardinality(Live)))
    /\ msgId' = NextMsgId
    /\ UNCHANGED <<pstate, expectedAcks, ackTout, lastUpdate, result,
                   sessions, sessionQueue, timers, local>>

(* SessionContext::new: a fresh context with both events registered.       *)
NewCtx(svc) == [svc |-> svc, inb |-> 0, outb |-> 0, rd |-> TRUE, wr |-> TRUE, wtout |-> "unset"]

(***************************************************************************)
(* process_service_request with create_session_context: forward the       *)
(* request to the session, creating the session first if there is none;   *)
(* when the service is missing, has no address, or the connect fails,     *)
(* answer HUP(session, 1).                                                 *)
(***************************************************************************)
process_service_request(f) ==
    LET s == f.sess IN
    \/ /\ pstate = "Established"
       /\ s \in Live
       /\ sessions' = [sessions EXCEPT ![s] = ctx_send_message(@)]
       /\ UNCHANGED <<msgId, output, writeTout, sessionQueue, timers, local, result>>
    \/ /\ pstate = "Established"
       /\ s \notin Live
       /\ SvcTable[f.svc] = "address"
       /\ sessions' = sessions @@ (s :> ctx_send_message(NewCtx(f.svc)))
       /\ sessionQueue' = Append(sessionQueue, s)
       /\ timers' = timers (+) SetToBag({s})
       /\ local' = [local EXCEPT ![s] = [avail |-> 0, st |-> "open"]]
       /\ UNCHANGED <<msgId, output, writeTout, result>>
    \/ /\ pstate = "Established"
       /\ s \notin Live
       \* the service is missing or has no address, or the connect failed
       /\ send_hup(s, 1)
       /\ UNCHANGED <<sessions, sessionQueue, timers, local, result>>
    \/ /\ pstate = "Handshake"
       /\ Fatal
       /\ UNCHANGED <<msgId, output, writeTout, sessions, sessionQueue, timers, local>>

(* process_request and process_control_message: dispatch one complete     *)
(* Arrow message. UNKNOWN is refused by parse_control_message, REGISTER,   *)
(* UPDATE and STATUS by the dispatch's default arm.                        *)
process_request(f) ==
    IF f.svc # 0
    THEN process_service_request(f) /\ UNCHANGED <<expectedAcks, ackTout, lastUpdate, pstate>>
    ELSE CASE f.kind = "ACK"             -> process_ack_message(f)
           [] f.kind = "PING"            -> process_ping_message(f)
           [] f.kind = "REDIRECT"        -> process_redirect_message
           [] f.kind = "HUP"             -> process_hup_message(f)
           [] f.kind = "RESET_SVC_TABLE" -> process_command
           [] f.kind = "SCAN_NETWORK"    -> process_command
           [] f.kind = "GET_STATUS"      -> process_status_request
           [] OTHER                      -> Fatal /\ UNCHANGED <<pstate, msgId, expectedAcks,
                                               ackTout, writeTout, lastUpdate, output, sessions,
                                               sessionQueue, timers, local>>

-----------------------------------------------------------------------------
(* The tunnel socket (token 0).                                            *)

(* Level-triggered readiness mio reports for the tunnel: readable exactly  *)
(* when registered and bytes are waiting, writable when registered and the *)
(* send buffer has room (the environment decides), a hangup/error ("hup") *)
(* at any time.                                                            *)
TunnelReadiness ==
    { ev \in SUBSET {"readable", "writable", "hup"} :
        /\ ev # {}
        /\ ("readable" \in ev) = (tinterest.rd /\ (toClient # <<>> \/ tlsRecord))
        /\ "writable" \in ev => tinterest.wr }

(***************************************************************************)
(* arrow_socket_ready, read half (check_arrow_read_event, read_request):  *)
(* if the stream state lets this event set read, read once: TLS may want   *)
(* to read or write first, or one complete Arrow message is parsed and     *)
(* processed. A redirect or an error ends the callback.                    *)
(***************************************************************************)
ArrowSocketReadyRead ==
    /\ Dispatchable(IoEv("tunnel"))
    /\ arrowEv = {}
    /\ \E ev \in TunnelReadiness :
        \/ /\ ~can_read(tstate, ev)
           /\ arrowEv' = ev
           /\ UNCHANGED <<handlerVars, tstate, tinterest, peerVars, localBudget>>
        \/ /\ can_read(tstate, ev)
           /\ \E o \in TlsWants :
                /\ tstate' = AfterIo("Reader", o).st
                /\ tinterest' = AfterIo("Reader", o).int
           /\ tlsRecord' = FALSE
           /\ arrowEv' = ev
           /\ UNCHANGED <<handlerVars, version, toClient, wire, peerPending, peerVersion,
                          peerBudget, localBudget>>
        \/ /\ can_read(tstate, ev)
           /\ toClient # <<>>
           /\ tstate' = AfterIo("Reader", "done").st
           /\ tinterest' = AfterIo("Reader", "done").int
           /\ toClient' = Tail(toClient)
           /\ process_request(Head(toClient))
           /\ tlsRecord' = FALSE
           /\ arrowEv' = IF result' = result THEN ev ELSE {}
           /\ UNCHANGED <<version, wire, peerPending, peerVersion, peerBudget,
                          localBudget>>

(* Mutants: interest is not re-assessed when the buffer stops being full; *)
(* a whole chunk is dropped whatever was taken.                            *)
drop_input_bytes_noupdate(c, n) == [c EXCEPT !.inb = @ - n]

drop_input_bytes_chunk(c, n) ==
    LET c1 == [c EXCEPT !.inb = @ - EgressMax]
    IN  IF IsFull(c) /\ ~IsFull(c1) THEN update_socket_events(c1) ELSE c1

(* SessionContext::drop_input_bytes                                       *)
drop_input_bytes(c, n) ==
    LET c1 == [c EXCEPT !.inb = @ - n]
    IN  IF IsFull(c) /\ ~IsFull(c1) THEN update_socket_events(c1) ELSE c1

(* Mutant: a session with nothing to send is not rotated back.            *)
RECURSIVE fill_output_buffer_idle_dropped(_, _)
fill_output_buffer_idle_dropped(st, n) ==
    IF n = 0 \/ OutSize(st.out) >= OutCap THEN st
    ELSE LET s == Head(st.q) IN
         IF s \notin DOMAIN st.ctx \/ st.ctx[s].inb = 0
         THEN fill_output_buffer_idle_dropped([st EXCEPT !.q = Tail(@)], n - 1)
         ELSE LET c   == st.ctx[s]
                  len == Min({EgressMax, c.inb})
              IN fill_output_buffer_idle_dropped(
                   [q     |-> Append(Tail(st.q), s),
                    ctx   |-> [st.ctx EXCEPT ![s] = drop_input_bytes(c, len)],
                    out   |-> Append(st.out, Data(c.svc, s, len)),
                    wtout |-> IF st.out = <<>> THEN "armed" ELSE st.wtout],
                   n - 1)

(***************************************************************************)
(* fill_output_buffer: one round-robin pass over session_queue while the   *)
(* output buffer is not full. A live session is rotated to the tail after  *)
(* contributing a frame of min(EgressMax, buffered) units (nothing when    *)
(* its input is empty); an entry whose session is gone is dropped.         *)
(* st = [q: queue, ctx: sessions, out: output buffer, wtout: write_tout].  *)
(***************************************************************************)
RECURSIVE fill_output_buffer(_, _)
fill_output_buffer(st, n) ==
    IF n = 0 \/ OutSize(st.out) >= OutCap THEN st
    ELSE LET s == Head(st.q) IN
         IF s \notin DOMAIN st.ctx
         THEN fill_output_buffer([st EXCEPT !.q = Tail(@)], n - 1)
         ELSE LET c   == st.ctx[s]
                  len == IF c.inb > 0 THEN Min({EgressMax, c.inb}) ELSE 0
              IN fill_output_buffer(
                   [q     |-> Append(Tail(st.q), s),
                    ctx   |-> [st.ctx EXCEPT ![s] = drop_input_bytes(c, len)],
                    out   |-> IF len > 0 THEN Append(st.out, Data(c.svc, s, len)) ELSE st.out,
                    wtout |-> IF len > 0 /\ st.out = <<>> THEN "armed" ELSE st.wtout],
                   n - 1)

(***************************************************************************)
(* send_response: refill the output buffer; when it stays empty, stop     *)
(* asking for writable and clear the write timeout; otherwise write once:  *)
(* TLS may want to read or write first, or the head frame is sent and the  *)
(* write timeout re-armed.                                                 *)
(***************************************************************************)
send_response ==
    LET st == fill_output_buffer([q |-> sessionQueue, ctx |-> sessions,
                                  out |-> output, wtout |-> writeTout], Len(sessionQueue))
    IN
    /\ sessionQueue' = st.q
    /\ sessions' = st.ctx
    /\ \/ /\ st.out = <<>>
          /\ output' = <<>>
          /\ tinterest' = Interest(TRUE, FALSE)
          /\ writeTout' = "unset"
          /\ UNCHANGED <<tstate, wire>>
       \/ /\ st.out # <<>>
          /\ \E o \in {"done"} \cup TlsWriteWants :
               /\ tstate' = AfterIo("Writer", o).st
               /\ tinterest' = AfterIo("Writer", o).int
               /\ IF o = "done"
                  THEN /\ wire' = Append(wire, Head(st.out))
                       /\ output' = Tail(st.out)
                       /\ writeTout' = "armed"
                  ELSE /\ output' = st.out
                       /\ writeTout' = st.wtout
                       /\ UNCHANGED wire

(***************************************************************************)
(* arrow_socket_ready, write half (check_arrow_write_event): write if the  *)
(* stream state, as left by the read half, lets this event set write;     *)
(* then a hangup or socket error is fatal.                                 *)
(***************************************************************************)
ArrowSocketReadyWrite ==
    /\ arrowEv # {}
    /\ arrowEv' = {}
    /\ \/ /\ can_write(tstate, arrowEv)
          /\ send_response
       \/ /\ ~can_write(tstate, arrowEv)
          /\ UNCHANGED <<output, writeTout, tstate, tinterest, sessions, sessionQueue, wire>>
    /\ result' = IF "hup" \in arrowEv THEN "error" ELSE result
    /\ UNCHANGED <<pstate, msgId, expectedAcks, ackTout, lastUpdate, timers,
                   version, toClient, tlsRecord, peerPending, peerVersion, peerBudget, localVars>>

-----------------------------------------------------------------------------
(* Session sockets (token session_id | 1 << 24).                           *)

(* Level-triggered readiness mio reports for a session socket: readable   *)
(* exactly when registered and data or end of stream is waiting; hangup    *)
(* and error whenever they hold, whatever the interest.                    *)
SessionReadiness(s) ==
    { ev \in SUBSET {"readable", "writable", "hup", "error"} :
        /\ ev # {}
        /\ ("readable" \in ev) = (sessions[s].rd /\ (local[s].avail > 0 \/ local[s].st # "open"))
        /\ "writable" \in ev => sessions[s].wr
        /\ ("hup" \in ev) = (local[s].st = "closed")
        /\ ("error" \in ev) = (local[s].st = "failed") }

(* Units one read of the session socket returns (0 at end of stream).      *)
ReadAmounts(s, ev) ==
    IF "readable" \in ev /\ ~IsFull(sessions[s]) /\ local[s].avail > 0
    THEN 1..Min({ReadMax, local[s].avail}) ELSE {0}

(* Units one write to the session socket accepts (0: EWOULDBLOCK).         *)
WriteAmounts(s, ev) ==
    IF "writable" \in ev /\ sessions[s].outb > 0 THEN 0..sessions[s].outb ELSE {0}

(* SessionContext::check_read_event after reading r units.                 *)
check_read_event(c, ev, r) ==
    IF "readable" \notin ev THEN c
    ELSE IF IsFull(c) THEN update_socket_events(c)
    ELSE [c EXCEPT !.inb = @ + r]

(* SessionContext::check_write_event after writing w units.                *)
check_write_event(c, ev, w) ==
    IF "writable" \notin ev THEN c
    ELSE IF c.outb = 0 THEN [update_socket_events(c) EXCEPT !.wtout = "unset"]
    ELSE IF w > 0 THEN [c EXCEPT !.outb = @ - w, !.wtout = "armed"]
    ELSE c

(* Mutant: session_socket_ready without enable_socket_events on the tunnel. *)
SessionSocketReady_noarm(s) ==
    /\ Dispatchable(IoEv(s))
    /\ arrowEv = {}
    /\ s \in Live
    /\ \E ev \in SessionReadiness(s) :
       \E r \in ReadAmounts(s, ev), w \in WriteAmounts(s, ev) :
        LET c2 == check_write_event(check_read_event(sessions[s], ev, r), ev, w) IN
        /\ local' = [local EXCEPT ![s].avail = @ - r]
        /\ \/ /\ "error" \in ev
              /\ send_hup(s, 2)
              /\ sessions' = RemoveSession(s)
           \/ /\ "error" \notin ev /\ "hup" \in ev
              /\ send_hup(s, 0)
              /\ sessions' = RemoveSession(s)
           \/ /\ "error" \notin ev /\ "hup" \notin ev
              /\ sessions' = [sessions EXCEPT ![s] = c2]
              /\ UNCHANGED tinterest
              /\ UNCHANGED <<output, writeTout, msgId>>
        /\ UNCHANGED <<pstate, expectedAcks, ackTout, lastUpdate, result, tstate,
                       sessionQueue, timers, arrowEv, peerVars, localBudget>>

(***************************************************************************)
(* session_socket_ready with SessionContext::socket_ready: read, write,    *)
(* then on a socket error send HUP(s, 2), on hangup HUP(s, 0), and drop    *)
(* the session; otherwise, with input buffered, ask for tunnel events.     *)
(***************************************************************************)
SessionSocketReady(s) ==
    /\ Dispatchable(IoEv(s))
    /\ arrowEv = {}
    /\ s \in Live
    /\ \E ev \in SessionReadiness(s) :
       \E r \in ReadAmounts(s, ev), w \in WriteAmounts(s, ev) :
        LET c2 == check_write_event(check_read_event(sessions[s], ev, r), ev, w) IN
        /\ local' = [local EXCEPT ![s].avail = @ - r]
        /\ \/ /\ "error" \in ev
              /\ send_hup(s, 2)
              /\ sessions' = RemoveSession(s)
           \/ /\ "error" \notin ev /\ "hup" \in ev
              /\ send_hup(s, 0)
              /\ sessions' = RemoveSession(s)
           \/ /\ "error" \notin ev /\ "hup" \notin ev
              /\ sessions' = [sessions EXCEPT ![s] = c2]
              /\ tinterest' = IF c2.inb > 0 THEN Both ELSE tinterest
              /\ UNCHANGED <<output, writeTout, msgId>>
        /\ UNCHANGED <<pstate, expectedAcks, ackTout, lastUpdate, result, tstate,
                       sessionQueue, timers, arrowEv, peerVars, localBudget>>

-----------------------------------------------------------------------------
(* Timer events. A timer fires once; the handler re-arms a periodic one.   *)

TimerGuard(t) == Dispatchable(TimerEv(t)) /\ arrowEv = {} /\ t \in DOMAIN timers

(* Mutant: UPDATE is sent also when the version has not changed.         *)
TimerUpdate_geq ==
    /\ TimerGuard("Update")
    /\ \/ /\ version >= lastUpdate
          /\ send_message(Ctrl("UPDATE", msgId, NoSession, version))
          /\ msgId' = NextMsgId
          /\ lastUpdate' = version
       \/ /\ version < lastUpdate
          /\ UNCHANGED <<output, writeTout, tinterest, msgId, lastUpdate>>
    /\ UNCHANGED <<pstate, expectedAcks, ackTout, result, tstate, sessions,
                   sessionQueue, timers, arrowEv, peerVars, localVars>>

(* te_check_update with check_update: send UPDATE carrying the current    *)
(* table when its version is newer than the last one sent.                 *)
TimerUpdate ==
    /\ TimerGuard("Update")
    /\ \/ /\ version > lastUpdate
          /\ send_message(Ctrl("UPDATE", msgId, NoSession, version))
          /\ msgId' = NextMsgId
          /\ lastUpdate' = version
       \/ /\ version <= lastUpdate
          /\ UNCHANGED <<output, writeTout, tinterest, msgId, lastUpdate>>
    /\ UNCHANGED <<pstate, expectedAcks, ackTout, result, tstate, sessions,
                   sessionQueue, timers, arrowEv, peerVars, localVars>>

(* Mutant: send_ping_message without msg_id += 1.                         *)
TimerPing_noinc ==
    /\ TimerGuard("Ping")
    /\ msgId < MaxMsgId
    /\ send_unconfirmed(Ctrl("PING", msgId, NoSession, 0))
    /\ UNCHANGED <<msgId, pstate, lastUpdate, result, tstate, sessions, sessionQueue,
                   timers, arrowEv, peerVars, localVars>>

(* te_check_connection with send_ping_message                             *)
TimerPing ==
    /\ TimerGuard("Ping")
    /\ msgId < MaxMsgId
    /\ send_unconfirmed(Ctrl("PING", msgId, NoSession, 0))
    /\ msgId' = NextMsgId
    /\ UNCHANGED <<pstate, lastUpdate, result, tstate, sessions, sessionQueue,
                   timers, arrowEv, peerVars, localVars>>

(* te_check_timeout for token 0, check_arrow_timeout: a passed write or   *)
(* ACK deadline is fatal; otherwise the check is re-armed.                 *)
TimerCheckArrow ==
    /\ TimerGuard("Arrow")
    /\ \/ /\ "armed" \in {writeTout, ackTout}
          /\ Fatal
          /\ timers' = timers (-) SetToBag({"Arrow"})
       \/ UNCHANGED <<result, timers>>
    /\ UNCHANGED <<pstate, msgId, expectedAcks, ackTout, writeTout, lastUpdate, output,
                   tstate, tinterest, sessions, sessionQueue, arrowEv, peerVars, localVars>>

(* Mutant: the timed-out session is dropped without a HUP.                *)
TimerCheckSession_nohup(s) ==
    /\ TimerGuard(s)
    /\ \/ /\ s \in Live /\ sessions[s].wtout = "armed"
          /\ sessions' = RemoveSession(s)
          /\ timers' = timers (-) SetToBag({s})
          /\ UNCHANGED <<output, writeTout, tinterest, msgId>>
       \/ UNCHANGED <<output, writeTout, tinterest, msgId, sessions, timers>>
    /\ UNCHANGED <<pstate, expectedAcks, ackTout, lastUpdate, result, tstate,
                   sessionQueue, arrowEv, peerVars, localVars>>

(* te_check_timeout for a session token, check_session_timeout: a passed  *)
(* write deadline sends HUP(s, 0) and drops the session; otherwise the     *)
(* check is re-armed, also when the session no longer exists.              *)
TimerCheckSession(s) ==
    /\ TimerGuard(s)
    /\ \/ /\ s \in Live /\ sessions[s].wtout = "armed"
          /\ send_hup(s, 0)
          /\ sessions' = RemoveSession(s)
          /\ timers' = timers (-) SetToBag({s})
       \/ UNCHANGED <<output, writeTout, tinterest, msgId, sessions, timers>>
    /\ UNCHANGED <<pstate, expectedAcks, ackTout, lastUpdate, result, tstate,
                   sessionQueue, arrowEv, peerVars, localVars>>

-----------------------------------------------------------------------------
(* Environment: the Arrow Service, the local services, the config thread.  *)

EnvGuard == result = "none" /\ arrowEv = {}

(* Another thread changes the service table (a new version).               *)
ConfigChange ==
    /\ EnvGuard
    /\ version < MaxVersion
    /\ version' = version + 1
    /\ UNCHANGED <<engineVars, toClient, tlsRecord, wire, peerPending, peerVersion,
                   peerBudget, localVars>>

(* The Arrow Service receives the next frame from the tunnel.              *)
PeerReceive ==
    /\ EnvGuard
    /\ wire # <<>>
    /\ LET f == Head(wire) IN
       /\ wire' = Tail(wire)
       /\ peerPending' = IF f.kind \in {"REGISTER", "PING"}
                         THEN Append(peerPending, [id |-> f.id, kind |-> f.kind])
                         ELSE peerPending
       /\ peerVersion' = IF f.kind \in {"REGISTER", "UPDATE"} THEN f.arg ELSE peerVersion
    /\ UNCHANGED <<engineVars, version, toClient, tlsRecord, peerBudget, localVars>>

(* The Arrow Service ACKs the oldest REGISTER or PING it received; it may  *)
(* refuse REGISTER with a non-zero code.                                   *)
PeerAck ==
    /\ EnvGuard
    /\ peerPending # <<>>
    /\ \E code \in IF Head(peerPending).kind = "REGISTER" THEN {0, 1} ELSE {0} :
         toClient' = Append(toClient, Ctrl("ACK", Head(peerPending).id, NoSession, code))
    /\ peerPending' = Tail(peerPending)
    /\ UNCHANGED <<engineVars, version, tlsRecord, wire, peerVersion, peerBudget, localVars>>

(* Frames of kinds PeerKinds the Arrow Service may initiate, in any        *)
(* protocol state.                                                         *)
PeerFrames ==
    { Ctrl(k, 0, NoSession, 0) : k \in PeerKinds \ {"HUP", "DATA"} }
    \cup (IF "HUP" \in PeerKinds THEN { Ctrl("HUP", 0, s, 0) : s \in SessionIds } ELSE {})
    \cup (IF "DATA" \in PeerKinds
          THEN { Data(svc, s, 1) : svc \in ServiceIds, s \in SessionIds } ELSE {})

PeerSend ==
    /\ EnvGuard
    /\ peerBudget > 0
    /\ \E f \in PeerFrames : toClient' = Append(toClient, f)
    /\ peerBudget' = peerBudget - 1
    /\ UNCHANGED <<engineVars, version, tlsRecord, wire, peerPending, peerVersion, localVars>>

(* A TLS record without application data (e.g. a TLS 1.3 session ticket)  *)
(* arrives; reading it alone makes SSL_read return want-read.              *)
PeerTlsRecord ==
    /\ EnvGuard
    /\ "wantRead" \in TlsWants
    /\ peerBudget > 0
    /\ ~tlsRecord
    /\ tlsRecord' = TRUE
    /\ peerBudget' = peerBudget - 1
    /\ UNCHANGED <<engineVars, version, toClient, wire, peerPending, peerVersion, localVars>>

(* A local service sends one unit, closes, or fails.                       *)
LocalSend(s) ==
    /\ EnvGuard
    /\ s \in Live /\ local[s].st = "open"
    /\ localBudget > 0
    /\ local' = [local EXCEPT ![s].avail = @ + 1]
    /\ localBudget' = localBudget - 1
    /\ UNCHANGED <<engineVars, peerVars>>

LocalEnd(s) ==
    /\ EnvGuard
    /\ s \in Live /\ local[s].st = "open"
    /\ \E st \in {"closed", "failed"} : local' = [local EXCEPT ![s].st = st]
    /\ UNCHANGED <<engineVars, peerVars, localBudget>>

(***************************************************************************)
(* Handler::ready and Handler::timeout: when a callback sets the result,   *)
(* shutdown() is called, and the loop still dispatches the rest of its     *)
(* iteration: the other I/O events of the batch (when the callback was an  *)
(* I/O event) and the timers that are due. Which of them the batch holds   *)
(* is the poll's choice, so LoopExit may end the iteration after any of    *)
(* them. Each is dispatched once; a timer ends the I/O part.               *)
(***************************************************************************)
BatchRest(e) ==
    LET io == {IoEv("tunnel")} \cup {IoEv(s) : s \in Live}
        tm == {TimerEv(t) : t \in DOMAIN timers}
    IN  IF ~DrainBatch THEN {}
        ELSE IF e[1] = "io" THEN (io \cup tm) \ {e} ELSE tm \ {e}

Dispatch(e, A) ==
    /\ A
    /\ pendingEv' =
         IF result = "none" THEN (IF result' = "none" THEN {} ELSE BatchRest(e))
         ELSE IF e[1] = "timer" THEN {x \in pendingEv : x[1] = "timer"} \ {e}
         ELSE pendingEv \ {e}

(* The iteration ends; event_loop.run() sees the cleared run flag.         *)
LoopExit ==
    /\ pendingEv # {}
    /\ arrowEv = {}
    /\ pendingEv' = {}
    /\ UNCHANGED <<pstate, msgId, expectedAcks, ackTout, writeTout, lastUpdate,
                   result, output, tstate, tinterest, sessions, sessionQueue,
                   timers, arrowEv, peerVars, localVars>>

(* After the loop has stopped, ArrowClient::event_loop returns the result. *)
Terminated ==
    /\ result # "none"
    /\ pendingEv = {} /\ arrowEv = {}
    /\ UNCHANGED vars

Next ==
    \/ Dispatch(IoEv("tunnel"), ArrowSocketReadyRead)
    \/ Dispatch(IoEv("tunnel"), ArrowSocketReadyWrite)
    \/ \E s \in SessionIds : \/ Dispatch(IoEv(s), SessionSocketReady(s))
                             \/ Dispatch(TimerEv(s), TimerCheckSession(s))
                             \/ LocalSend(s) \/ LocalEnd(s)
    \/ Dispatch(TimerEv("Update"), TimerUpdate)
    \/ Dispatch(TimerEv("Ping"), TimerPing)
    \/ Dispatch(TimerEv("Arrow"), TimerCheckArrow)
    \/ LoopExit
    \/ ConfigChange \/ PeerReceive \/ PeerAck \/ PeerSend \/ PeerTlsRecord
    \/ Terminated

Spec == Init /\ [][Next]_vars

(* A tunnel ready() callback whose event set includes writable.           *)
TunnelWritableEvent ==
    Dispatch(IoEv("tunnel"), ArrowSocketReadyRead) /\ "writable" \in arrowEv'

(* A tunnel ready() callback that reads a complete Arrow message.          *)
TunnelFrameRead ==
    Dispatch(IoEv("tunnel"), ArrowSocketReadyRead) /\ toClient' # toClient

(***************************************************************************)
(* Fairness the event loop gives: mio's level-triggered poll reports       *)
(* writable on the tunnel for as long as writable interest is registered  *)
(* and the socket can take data (the Arrow Service keeps reading), and    *)
(* readable while bytes are waiting; TLS returns a record whose bytes have *)
(* all arrived; ready() runs to completion, so its write half follows its *)
(* read half. A read may return want-read while a message is waiting (its *)
(* bytes still arriving) but not for ever, so that read is strongly fair.  *)
(* A session socket that is ready is reported too. The Arrow Service, the  *)
(* local services, the other TLS outcomes and deadline expiry get no       *)
(* fairness.                                                               *)
(***************************************************************************)
Fairness ==
    /\ WF_vars(TunnelWritableEvent)
    /\ SF_vars(TunnelFrameRead)
    /\ \A s \in SessionIds : WF_vars(Dispatch(IoEv(s), SessionSocketReady(s)))
    /\ WF_vars(Dispatch(IoEv("tunnel"), ArrowSocketReadyWrite))

LiveSpec == Spec /\ Fairness

-----------------------------------------------------------------------------
(* Properties                                                              *)

(* The event loop is running (no result set yet).                          *)
Running == result = "none"

TypeOK ==
    /\ pstate \in {"Handshake", "Established"}
    /\ msgId \in 0..MsgIdMod - 1
    /\ expectedAcks \in Seq(0..MsgIdMod - 1)
    /\ {ackTout, writeTout} \subseteq TimeoutStates
    /\ lastUpdate \in 0..MaxVersion
    /\ result \in {"none", "redirect", "error"}
    /\ output \in Seq(Frames)
    /\ tstate \in StreamStates
    /\ tinterest \in [rd : BOOLEAN, wr : BOOLEAN]
    /\ Live \subseteq SessionIds /\ sessions \in [Live -> Ctx]
    /\ sessionQueue \in Seq(SessionIds)
    /\ IsABag(timers) /\ BagToSet(timers) \subseteq TimerEvents
    /\ arrowEv \subseteq {"readable", "writable", "hup"}
    /\ pendingEv \subseteq {IoEv("tunnel")} \cup {IoEv(x) : x \in SessionIds}
                           \cup {TimerEv(t) : t \in TimerEvents}
    /\ version \in 0..MaxVersion
    /\ toClient \in Seq(Frames) /\ wire \in Seq(Frames)
    /\ tlsRecord \in BOOLEAN
    /\ peerPending \in Seq([id : 0..MsgIdMod - 1, kind : {"REGISTER", "PING"}])
    /\ peerVersion \in -1..MaxVersion
    /\ peerBudget \in 0..MaxPeerMsgs
    /\ local \in [SessionIds -> [avail : Nat, st : {"open", "closed", "failed"}]]
    /\ localBudget \in 0..MaxLocal

(* The msg_id fields of the frames of `seq` whose kind is in `kinds`.      *)
IdsOf(seq, kinds) ==
    LET sel == SelectSeq(seq, LAMBDA f : f.kind \in kinds)
    IN  [i \in 1..Len(sel) |-> sel[i].id]

(***************************************************************************)
(* expected_acks, in order, is exactly the REGISTER and PING messages on   *)
(* their way: those the Arrow Service has ACKed (ACKs not yet read),       *)
(* those it has received, those on the wire and those still in the output  *)
(* buffer. send_unconfirmed_control_message, the msg_id counter and        *)
(* process_ack_message (which pops before comparing) must agree across     *)
(* the tunnel for every ACK to be accepted and none to be missed.          *)
(***************************************************************************)
AcksMatchInFlight ==
    Running =>
        expectedAcks = IdsOf(toClient, {"ACK"})
                       \o [i \in 1..Len(peerPending) |-> peerPending[i].id]
                       \o IdsOf(wire, {"REGISTER", "PING"})
                       \o IdsOf(output, {"REGISTER", "PING"})

(***************************************************************************)
(* Every wait has an armed watchdog: pending tunnel output has the write   *)
(* timeout set, outstanding ACKs have the ACK timeout set, and output      *)
(* queued for a local service has the session's write timeout set         *)
(* (send_message, fill_output_buffer, send_response, process_ack_message,  *)
(* SessionContext::send_message and check_write_event).                    *)
(***************************************************************************)
WatchdogArmed ==
    Running =>
    /\ output # <<>> => writeTout = "armed"
    /\ expectedAcks # <<>> => ackTout = "armed"
    /\ \A s \in Live : sessions[s].outb > 0 => sessions[s].wtout = "armed"

(***************************************************************************)
(* No lost wake-up on a session socket: readable interest is off only     *)
(* while the input buffer is full, writable interest only while the       *)
(* output buffer is empty (update_socket_events is re-run by               *)
(* drop_input_bytes and SessionContext::send_message at the transitions).  *)
(***************************************************************************)
NoLostSessionWakeup ==
    Running => \A s \in Live :
        /\ ~sessions[s].rd => IsFull(sessions[s])
        /\ ~sessions[s].wr => sessions[s].outb = 0

(* Every live session has a slot in session_queue, so fill_output_buffer   *)
(* visits it on every pass.                                                *)
NoStarvedSession ==
    Running => \A s \in Live : s \in ToSet(sessionQueue)

(* Table versions carried by the REGISTER and UPDATE frames of `seq`.      *)
VersionsOf(seq) ==
    LET sel == SelectSeq(seq, LAMBDA f : f.kind \in {"REGISTER", "UPDATE"})
    IN  [i \in 1..Len(sel) |-> sel[i].arg]

(***************************************************************************)
(* The service table versions the Arrow Service gets strictly increase,    *)
(* and last_update is the version of the most recent REGISTER or UPDATE    *)
(* sent (check_update against a version changed by another thread).       *)
(***************************************************************************)
TableVersionsInOrder ==
    LET vs == <<peerVersion>> \o VersionsOf(wire) \o VersionsOf(output)
    IN  Running => /\ \A i \in 1..Len(vs) - 1 : vs[i] < vs[i + 1]
                   /\ Last(vs) = lastUpdate


-----------------------------------------------------------------------------
(* Statements of spec.md the code does not meet (checked for a violation). *)

(***************************************************************************)
(* Spec 4.3: projecting readiness through the stream state keeps the       *)
(* engine from stalling. Pending tunnel output that a writable event       *)
(* cannot move (neither by a write nor by finishing a read TLS asked to    *)
(* retry on writable) waits for tunnel input, so some input must be on its *)
(* way (a TLS writer that wants to read waits for TLS input it is owed).  *)
(* ArrowStream::can_write is false in both Reader* states: after a         *)
(* read that consumed a TLS record without application data (want-read),   *)
(* the output waits for the Arrow Service, which waits for that output.    *)
(***************************************************************************)
WritableMovesOutput ==
    tinterest.wr /\ (can_write(tstate, {"writable"}) \/ can_read(tstate, {"writable"}))

PendingOutputNotBlockedOnInput ==
    Running /\ arrowEv = {} /\ output # <<>> /\ ~WritableMovesOutput
    /\ tstate # "WriterWantRead" =>    \* a TLS writer waiting on its own handshake input
        toClient # <<>> \/ tlsRecord

(***************************************************************************)
(* A local service that sends data and then closes has all of it          *)
(* forwarded: session_socket_ready, on a hangup, drops the session and     *)
(* with it the buffered input and what is still unread on the socket.     *)
(***************************************************************************)
LocalCloseLosesNoData ==
    [][\A s \in SessionIds :
         SessionSocketReady(s) /\ local[s].st = "closed" =>
             sessions[s].inb + local[s].avail = 0]_vars

(***************************************************************************)
(* Spec 8: egress is round robin, so no backlogged session gets more       *)
(* opportunities than another: each live session holds at most one slot   *)
(* of session_queue. remove_session_context leaves the old slot behind,   *)
(* and create_session_context adds a second one when the ID comes back.  *)
(***************************************************************************)
SessionFairShare ==
    Running => \A s \in Live :
        Len(SelectSeq(sessionQueue, LAMBDA x : x = s)) <= 1

(***************************************************************************)
(* Each session has exactly one pending timeout-check timer while it lives *)
(* and none after it is gone (create_session_context arms it,             *)
(* check_session_timeout re-arms it). check_session_timeout re-arms it     *)
(* also when the session no longer exists, so every session ever created  *)
(* leaves a timer firing every second, and a reused ID gets another one.  *)
(***************************************************************************)
SessionTimerPerLiveSession ==
    Running => \A s \in SessionIds :
        CopiesIn(s, timers) = IF s \in Live THEN 1 ELSE 0

(***************************************************************************)
(* The handler implements the abstract message-ID and ACK protocol         *)
(* (AckQueue): every control message it sends takes the next msg_id,      *)
(* REGISTER and PING queue in expected_acks in the order they are numbered,*)
(* an ACK retires only the oldest, and nothing changes after the result is *)
(* set. Checked across every handler that sends, ACKs and fails.           *)
(***************************************************************************)
Ack == INSTANCE AckQueue WITH
    IdMod <- MsgIdMod, nextId <- msgId, pending <- expectedAcks, open <- Running

AckProtocol == Ack!Spec

(* The client's HUP frames not yet received by the Arrow Service, in order. *)
HupsInFlight ==
    LET sel == SelectSeq(wire \o output, LAMBDA f : f.kind = "HUP")
    IN  [i \in 1..Len(sel) |-> [sess |-> sel[i].sess, code |-> sel[i].arg]]

(* The session IDs of the Arrow Service's HUPs the client has not read.    *)
PeerHupsUnread ==
    LET sel == SelectSeq(toClient, LAMBDA f : f.kind = "HUP")
    IN  [i \in 1..Len(sel) |-> sel[i].sess]

(***************************************************************************)
(* The handler implements the abstract session protocol (SessionHup):      *)
(* sessions are created only for IDs with none, every session the client   *)
(* drops (session_socket_ready on hangup or error, check_session_timeout)  *)
(* is announced with one HUP carrying the right code, only a peer HUP read *)
(* ends a session silently, HUP(s, 1) refuses only IDs without a session, and HUPs leave in *)
(* the order they were queued.                                             *)
(***************************************************************************)
Sess == INSTANCE SessionHup WITH
    Ids <- SessionIds, open <- Live, hups <- HupsInFlight, peerHups <- PeerHupsUnread

SessionProtocol == Sess!Spec

(***************************************************************************)
(* Data a local service has sent, once in a session's input buffer, is     *)
(* eventually forwarded into the tunnel, unless the session or the         *)
(* connection ends first: session_socket_ready enables tunnel events when  *)
(* input is buffered and fill_output_buffer serves every queued session    *)
(* whenever the tunnel is writable.                                        *)
(***************************************************************************)
InputEventuallyForwarded ==
    \A s \in SessionIds :
        (Running /\ s \in Live /\ sessions[s].inb > 0)
            ~> (~Running \/ s \notin Live \/ sessions[s].inb = 0)

(***************************************************************************)
(* Every frame queued for the tunnel (an ACK, a HUP, an UPDATE, data) is   *)
(* eventually written, unless the connection ends: every path that appends *)
(* to output_buffer registers writable interest (send_message,             *)
(* session_socket_ready), and send_response clears it only when the buffer *)
(* is empty after a refill.                                                *)
(***************************************************************************)
OutputEventuallyWritten ==
    (Running /\ output # <<>>) ~> (~Running \/ output = <<>>)

(***************************************************************************)
(* Spec 5: a REDIRECT received while Established ends the engine with      *)
(* Ok(address), and once a result is set no further events are processed. *)
(* Handler::ready and Handler::timeout assign self.result from every       *)
(* callback, and mio still dispatches the rest of the iteration after      *)
(* shutdown(), so the result the loop returns must be the first one set.   *)
(***************************************************************************)
ResultKept == [][result # "none" => result' = result]_vars

=============================================================================
