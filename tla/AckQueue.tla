------------------------------ MODULE AckQueue ------------------------------
(***************************************************************************)
(* What the Arrow client promises about Control Protocol message IDs and  *)
(* acknowledgements, whatever else it does. Every control message it      *)
(* sends takes the next msg_id (modulo the width of the counter). A        *)
(* message that needs an ACK joins the queue of outstanding requests, in  *)
(* order. An ACK retires the oldest outstanding request only. Once the    *)
(* connection has ended, nothing changes.                                   *)
(*                                                                         *)
(* ConnectionHandler implements it with nextId <- msgId,                   *)
(* pending <- expectedAcks and open <- (result = "none").                  *)
(***************************************************************************)
EXTENDS Naturals, Sequences

CONSTANT IdMod          \* number of distinct message IDs (2^16 for a u16)

VARIABLES
    nextId,             \* ID the next control message gets
    pending,            \* IDs of the requests waiting for their ACK, oldest first
    open                \* the connection has not ended

ackVars == <<nextId, pending, open>>

Next1 == (nextId + 1) % IdMod

(* The connection starts with REGISTER (ID 0) sent and waiting for its ACK. *)
Init ==
    /\ nextId = 1 % IdMod
    /\ pending = <<0>>
    /\ open = TRUE

(* A message that expects an ACK (REGISTER, PING).                         *)
Request ==
    /\ open
    /\ pending' = Append(pending, nextId)
    /\ nextId' = Next1
    /\ UNCHANGED open

(* A message that expects none (UPDATE, HUP, STATUS); an ACK the client     *)
(* sends reuses the peer's ID and is not a step here.                      *)
Notify ==
    /\ open
    /\ nextId' = Next1
    /\ UNCHANGED <<pending, open>>

(* The ACK of the oldest outstanding request.                              *)
Retire ==
    /\ open
    /\ pending # <<>>
    /\ pending' = Tail(pending)
    /\ UNCHANGED <<nextId, open>>

(* The connection ends (error or redirect); an ACK that ends it has        *)
(* retired the oldest request first.                                       *)
Close ==
    /\ open
    /\ open' = FALSE
    /\ pending' \in {pending, IF pending = <<>> THEN <<>> ELSE Tail(pending)}
    /\ UNCHANGED nextId

Next == Request \/ Notify \/ Retire \/ Close

Spec == Init /\ [][Next]_ackVars

=============================================================================
