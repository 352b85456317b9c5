# TLA+ models of the Arrow client connection handler

This directory models `src/src/net/arrow/mod.rs`: the client side of the
Arrow protocol. The client keeps one TLS tunnel to an Arrow Service.
It forwards frames for service sessions to local TCP services, and it sends
their answers back through the tunnel.

## The system

`mod.rs` is one single-threaded mio event loop (`ConnectionHandler`,
driven by `ArrowClient::event_loop`) with these parts:

| part | code | state | operations |
|---|---|---|---|
| TLS tunnel wrapper | `ArrowStream` (117-233) | stream state `Ok`/`Reader*`/`Writer*`, registered interest | `read`, `write` (outcome done / want-read / want-write), `can_read`, `can_write`, `enable_socket_events` |
| socket registration | `register_socket`, `reregister_socket`, `deregister_socket` (51-100) | interest per token, level triggered, hangup and error always on | |
| local service connection | `SessionContext`, `ServiceStream` (242-480) | input buffer (256 KiB), output buffer, interest, write timeout | `socket_ready`, `check_read_event`, `check_write_event`, `drop_input_bytes`, `send_message`, `update_socket_events` |
| control protocol | `ConnectionHandler` (513-1168) | protocol state, `msg_id` (u16), `expected_acks`, ACK timeout, `last_update`, result | REGISTER at start, ACK, PING, REDIRECT, HUP, RESET_SVC_TABLE, SCAN_NETWORK, GET_STATUS, the other kinds refused |
| sessions and egress | `process_service_request`, `fill_output_buffer`, `send_response`, `session_socket_ready` (1171-1301) | session map, `session_queue`, tunnel output buffer, write timeout | create/forward/HUP, round-robin refill, write of the head of the output |
| timers | `Handler::timeout`, `te_check_*`, `check_*_timeout` (805-900, 1342-1358) | pending one-shot timers | UPDATE check (5 s), PING (60 s), timeout checks (1 s) of the tunnel and each session |
| dispatch and result | `Handler::ready`, `ArrowClient` (1319-1399) | `result` | tunnel token 0, session tokens; a result stops the loop |

How they interact:
1. A readiness event on the tunnel first reads, if `can_read` allows, and processes the frame read. A control message goes to the protocol handlers; a service frame goes to a session, which is created on the first frame.
2. Then, if `can_write` allows, it refills the output buffer round robin from the sessions' input buffers and writes.
3. A session event reads from the local service into the session's input buffer and writes the session's output buffer. On hangup or error it sends HUP and removes the session.
4. Timers send UPDATE and PING, and end the connection or a session when a deadline passes.
5. Another thread changes the service table, and the UPDATE check reads its version.

Hard behaviours:
- The TLS layer can block a read on a write, and a write on a read.
- Readiness is level triggered.
- Frames cross in flight: the Arrow Service sends HUP or data while the client is removing or creating the same session.
- ACKs are matched to messages by position in `expected_acks`.
- Buffers sit at their limits.
- Deadlines expire at any check.
- A session can be removed while its timer and queue slot remain.

## Modules

1. `ArrowStream.tla`: the stateless part of `ArrowStream`. It defines
   - the interest registered after a read or write with each outcome (`AfterIo`);
   - the projections `can_read` and `can_write` through the stream state.

   `ConnectionHandler` extends it.
2. `ConnectionHandler.tla`: the handler together with its environment.
   - **State.** Each field of `ConnectionHandler` that matters is a variable of the same name:
     - `pstate`, `msgId`, `expectedAcks`, `ackTout`, `writeTout`, `lastUpdate`, `result`;
     - `output`: the frames in the output buffer;
     - `tstate` and `tinterest`: the tunnel stream;
     - `sessions`: a function over the live session IDs to `[svc, inb, outb, rd, wr, wtout]`;
     - `sessionQueue`;
     - `timers`: a bag of pending timer events.
   - **Environment state.**
     - `toClient`: frames the Arrow Service sent;
     - `tlsRecord`: a TLS record with no application data;
     - `wire`, `peerPending` and `peerVersion`: what the service received and still has to ACK;
     - `local`: data waiting at, and the state of, each local service;
     - `version`: the service table version.
   - **Actions.** One action per callback:
     - `ArrowSocketReadyRead` and `ArrowSocketReadyWrite`: the two halves of one tunnel `ready()`. `arrowEv` holds the event set between them and nothing else runs in between.
     - `SessionSocketReady(s)`
     - `TimerUpdate`, `TimerPing`, `TimerCheckArrow`, `TimerCheckSession(s)`

     `Next` wraps each callback in `Dispatch(e, A)`, the part of `Handler::ready` and `Handler::timeout` that sets the result and calls `shutdown()`. In mio 0.5, `shutdown()` only clears the loop's run flag. The current iteration (`run_once`) still dispatches its other I/O events and then its due timers. When a callback sets the result, `pendingEv` becomes that rest of the iteration (`BatchRest`). Each of its events may still be dispatched once, a timer ends the I/O part, and `LoopExit` ends the iteration at any point. mio's source is not in this repository, so this dispatch order is modelled from mio 0.5's documented loop. The constant `DrainBatch` turns it on; with `DrainBatch = FALSE` the loop stops at once.

     Every handler the callbacks call is an operator named after its Rust function: `process_ack_message`, `process_service_request`, `fill_output_buffer` (RECURSIVE over the queue), `send_response`, `check_read_event`, `drop_input_bytes`, and so on.
   - **Environment actions.**
     - `PeerReceive`: the service receives a frame.
     - `PeerAck`: the service ACKs REGISTER or PING in order, and may refuse REGISTER.
     - `PeerSend`: the service sends a frame of a kind in `PeerKinds`.
     - `PeerTlsRecord`: a TLS record with no application data arrives.
     - `LocalSend`: a local service sends data.
     - `LocalEnd`: a local service closes or fails.
     - `ConfigChange`: the service table version changes.
3. `AckQueue.tla`: what the client promises about Control Protocol
   message IDs and ACKs, whatever else it does. `nextId` is the ID the next
   control message gets (modulo `IdMod`), `pending` the IDs of the requests
   waiting for an ACK, oldest first, `open` whether the connection runs.
   - `Request`: REGISTER or PING, which take the next ID and wait for an ACK.
   - `Notify`: UPDATE, HUP or STATUS, which take the next ID only.
   - `Retire`: an ACK retires the oldest request.
   - `Close`: the connection ends; nothing changes after.

   `ConnectionHandler` defines `Ack == INSTANCE AckQueue WITH IdMod <- MsgIdMod,
   nextId <- msgId, pending <- expectedAcks, open <- Running`, and the run
   `control` checks `AckProtocol == Ack!Spec` as a PROPERTY:
   every step of the handler is a step of the ACK queue or leaves its
   variables unchanged. The abstract queue says nothing changes once the connection has
   ended, so this run keeps `DrainBatch = FALSE`. The abstract queue allows
   repeated IDs and wraps its counter with the same expression as the handler,
   so a wrapped counter cannot break it; the wrap is checked by
   `AcksMatchInFlight` in `msgid_wrap` instead. With it on, a PING timer
   due in the rest of the iteration still takes a msg_id after shutdown; that
   send goes nowhere, because the loop never runs again.
4. `SessionHup.tla`: what the client promises the Arrow Service about
   service sessions. `open` is the set of session IDs the client serves,
   `hups` the client's HUPs not yet received, oldest first, and `peerHups`
   the IDs of the service's HUPs the client has not yet read.
   - `Open(s)`: a request for an ID with no session creates one
     (`process_service_request`, `create_session_context`).
   - `ClientClose(s)`: the client ends a session and sends HUP(s, 0) for a
     hangup or timeout, or HUP(s, 2) for a socket error
     (`check_session_timeout`, `session_socket_ready`).
   - `PeerHup(s)`: the service sends HUP(s).
   - `PeerClose`: the client reads the oldest service HUP, and that session
     ends with no HUP back (`process_hup_message`).
   - `Refuse(s)`: a request it cannot serve, for an ID with no session, is
     answered with HUP(s, 1).
   - `Deliver`: the service receives the oldest client HUP.

   `ConnectionHandler` defines `Sess == INSTANCE SessionHup WITH Ids <-
   SessionIds, open <- Live, hups <- HupsInFlight, peerHups <- PeerHupsUnread`.
   `HupsInFlight` is the HUP frames in the output buffer and on the wire, and
   `PeerHupsUnread` is the HUP frames in the service-to-client stream. The run
   `control` checks `SessionProtocol == Sess!Spec`. So a session is never
   dropped without a HUP unless the service asked for it, and never refused
   while it is live.
5. `MCConnectionHandler.tla`: the model values for TLC. It defines
   - the service lookup table;
   - session symmetry;
   - `MaxOutstanding`, a state constraint for the wrap run;
   - a `View` under which all terminated states with the same result count as one, once the rest of the iteration has been dispatched. After shutdown the handler's state is dead, so every invariant is stated for the running loop (`Running => ...`).

Abstractions:
- Data is counted in units: a session read moves 1..`ReadMax` units, and a data frame carries at most `EgressMax` units.
- A frame is a record of the fields the handler inspects.
- One tunnel read delivers one frame. A `read_request` that parses several frames is the same as several reads whose write halves do nothing.
- A deadline is `unset` or `armed`, and a check may find an armed one expired.
- `msg_id` wraps modulo the constant `MsgIdMod`: 2^16 (a release build) in most runs, 2 in `msgid_wrap`. The PING timer fires only while fewer than `MaxMsgId` messages have been sent.
- TLS outcomes are constants: `TlsWants` for reads and `TlsWriteWants` for writes, each a subset of want-read and want-write.
- Control frames count 0 units in the output buffer (they are a few bytes next to a 32 KiB data chunk).

## Runs

All runs use `MCConnectionHandler` with small buffers: `InCap` of 1–2 units, `ReadMax` 2, `EgressMax` 1 and `OutCap` 2. These bounds reach every buffer edge:
- a full session input buffer;
- the overshoot of a read started one unit before full;
- a drain back to not-full;
- a full tunnel output buffer.

| run | cfg | expect | properties | what it shows |
|---|---|---|---|---|
| sessions | `MCConnectionHandler.cfg` | pass | TypeOK, WatchdogArmed, NoLostSessionWakeup, NoStarvedSession | Two sessions (symmetric), peer DATA and HUP (2 frames), 2 units from local services, TLS never blocks. Every wait has an armed watchdog. Session interest is off only while the buffer state justifies it. Every live session stays in the round robin. |
| control | `MCConnectionHandlerControl.cfg` | pass | AcksMatchInFlight, TableVersionsInOrder, AckProtocol, SessionProtocol | One session. Every control kind can arrive in either protocol state (2 frames). PING ids up to 2, one table change. `expected_acks` is exactly the REGISTER and PING ids in flight, in order. The versions the service gets increase, and `last_update` is the last one. The handler refines the ACK queue and the session protocol. |
| tls | `MCConnectionHandlerTls.cfg` | pass | WatchdogArmed, AcksMatchInFlight | TLS reads and writes may return want-read or want-write, and data-less TLS records arrive. The same bookkeeping holds. |
| tls_stall | `MCTlsStall.cfg` | violation | PendingOutputNotBlockedOnInput | A data-less TLS record read right after connecting leaves REGISTER unsent with only readable registered. The Arrow Service waits for REGISTER, so nothing arrives until the 20 s write timeout kills the connection. This contradicts spec 4.3. |
| local_close | `MCLocalClose.cfg` | violation | LocalCloseLosesNoData | A local service that answers and closes at once: readable and hangup come in one event, and the answer is dropped with the session. |
| queue_dup | `MCQueueDup.cfg` | violation | SessionFairShare | A session removed (write timeout, HUP, local close) and created again under the same ID has two `session_queue` slots, so it gets twice the egress share. |
| msgid_wrap | `MCMsgIdWrap.cfg` | pass | AcksMatchInFlight | `MsgIdMod` 2, so the counter wraps at every second message; PINGs, GET_STATUS and one table change; at most 3 outstanding ACKs. Positional matching survives the wrap. |
| liveness | `MCLiveness.cfg` | pass | InputEventuallyForwarded, OutputEventuallyWritten | One session, peer DATA and HUP, 2 local units, TLS never blocks, the rest of the iteration dispatched after shutdown, under `LiveSpec`. Data in a session's input buffer is eventually forwarded into the tunnel, and every queued frame is eventually written, or the session or connection ends. |
| timer_leak | `MCTimerLeak.cfg` | violation | SessionTimerPerLiveSession | A session closed by its local service keeps its timeout-check timer, re-armed every second for the rest of the connection. |
| result_kept | `MCResultKept.cfg` | violation | ResultKept | With `DrainBatch`: a REDIRECT sets the redirect result, and the tunnel timeout check due in the same iteration then overwrites it with a timeout error (`Handler::timeout`, line 1351). The client reconnects to the old service. Spec 5 says the engine returns the redirect and that no further events are processed. |

Each property of a passing run has a mutant in `ConnectionHandler.tla`. The mutant is an operator defined just before the one it replaces, and it models a plausible slip in that code:
- a dropped `write_tout.set`;
- an `expected_acks.push_back` left out;
- `update_socket_events` not called in `drop_input_bytes`;
- an idle session not rotated back;
- `>=` for `>` in `check_update`;
- a whole chunk dropped from the input buffer;
- `msg_id += 1` left out of the PING timer (breaks `AckProtocol`);
- `session_socket_ready` not enabling tunnel events (breaks `InputEventuallyForwarded`);
- `send_message` not enabling writable interest (breaks `OutputEventuallyWritten`);
- a timed-out session removed without `send_hup_message` (breaks `SessionProtocol`).

TLC finds each mutant's property violated under its run's cfg.

The three large passing runs take 45–80 s each (0.8–1.1 M distinct states under the view); `control` about 80 s, `msgid_wrap` about 260 K states and `liveness` about 140 K states, under a minute. Bigger budgets (three peer frames, three local units) did not finish within 5 minutes.

## Fairness

The safety runs use `Spec` with no fairness. `LiveSpec` adds only what mio and
the code guarantee (`Fairness` in `ConnectionHandler.tla`):
- `WF_vars(TunnelWritableEvent)`: the poll is level triggered, so writable is
  reported on the tunnel for as long as writable interest is registered (the
  Arrow Service keeps reading its socket).
- `SF_vars(TunnelFrameRead)`: readable is reported while bytes wait, and a TLS
  read that returns want-read with a message waiting (its bytes still
  arriving) does not do so for ever. The read is enabled only between
  callbacks, so weak fairness would not say this.
- `WF_vars(Dispatch(IoEv(s), SessionSocketReady(s)))`: a ready session socket is reported.
- `WF_vars(Dispatch(IoEv("tunnel"), ArrowSocketReadyWrite))`: `ready()` runs to completion, so its
  write half follows its read half.

The Arrow Service, the local services, configuration changes, the TLS
want outcomes and deadline expiry get none: the client cannot make them
happen. Timers are not fair either, although mio and real time do fire
them. So no liveness property is checked where only a timer ends the wait.
After a data-less TLS record leaves the stream in `ReaderWantRead`, buffered
session data waits for the Arrow Service, and writable events spin without
writing (`can_write` is false). There the 60 s PING arms the ACK and write
deadlines, and the tunnel timeout check ends the connection, which the
properties' `~Running` disjunct accepts. The spin is a cost, not a wrong
state, so no run claims it as a violation. The liveness run keeps TLS from
blocking.

## Not modelled

- The protocol framing and the control message codec. They are not in the given source; frames are abstract.
- Byte-level bodies and their parsing, including the unchecked `CStr::from_ptr` of REDIRECT.
- mio internals beyond the dispatch order of one iteration. Which events a poll returns is a free choice (`BatchRest`, `LoopExit`), and a timer instance due twice (the leaked session timer) is dispatched once per iteration.
- The result of GET_STATUS, SCAN_NETWORK and RESET_SVC_TABLE in Handshake. The code handles them in any state, spec 4.7.5 allows this and spec 8 forbids it. The model follows the code and accepts them in either state; no property states spec 8's restriction, since spec 4.7.5 contradicts it.
- Real time: the lengths of the periods and deadlines.
- The contents of the service table and the scanning flag. Only the table's
  version is modelled. The scanning flag is set and cleared by the network
  scanner, which is outside the given source. So the shared application
  context stays partly modelled.

## Plan for later work

1. The HUP error code of a service HUP is ignored (`XXX` at line 1142). If the
   code is ever processed, `PeerClose` would need it.
2. A composition with two connections in a row (redirect), if the caller loop in the binary is brought under `src/`.
