---------------------------- MODULE ArrowStream ----------------------------
(***************************************************************************)
(* The TLS tunnel wrapper ArrowStream of src/src/net/arrow/mod.rs: the     *)
(* tracked stream state, the readiness interest it registers with the      *)
(* event loop after every read or write, and the projection of a           *)
(* readiness event set through the state (can_read / can_write).          *)
(*                                                                         *)
(* The module has no variables: the engine (ConnectionHandler) keeps the   *)
(* stream state and interest and applies these operators.                  *)
(***************************************************************************)

StreamStates ==
    {"Ok", "ReaderWantRead", "ReaderWantWrite", "WriterWantRead", "WriterWantWrite"}

(* Readiness interest of a socket registered with the mio event loop.      *)
Interest(readable, writable) == [rd |-> readable, wr |-> writable]

Both == Interest(TRUE, TRUE)

(* Outcome of one NonblockingSslStream read or write call.                 *)
IoOutcomes == {"done", "wantRead", "wantWrite"}

(***************************************************************************)
(* ArrowStream::read and ArrowStream::write: the stream state and the     *)
(* interest re-registered after a call with a given outcome. `side` is     *)
(* "Reader" for read and "Writer" for write.                               *)
(***************************************************************************)
WantState == [Reader |-> [wantRead |-> "ReaderWantRead", wantWrite |-> "ReaderWantWrite"],
              Writer |-> [wantRead |-> "WriterWantRead", wantWrite |-> "WriterWantWrite"]]

AfterIo(side, outcome) ==
    CASE outcome = "wantRead"  -> [st |-> WantState[side].wantRead,  int |-> Interest(TRUE, FALSE)]
      [] outcome = "wantWrite" -> [st |-> WantState[side].wantWrite, int |-> Interest(FALSE, TRUE)]
      [] outcome = "done"      -> [st |-> "Ok",                      int |-> Both]

(* ArrowStream::can_read: may a read be attempted on readiness `ev`?       *)
can_read(state, ev) ==
    \/ state \in {"Ok", "ReaderWantRead"} /\ "readable" \in ev
    \/ state = "ReaderWantWrite" /\ "writable" \in ev

(* ArrowStream::can_write: may a write be attempted on readiness `ev`?     *)
can_write(state, ev) ==
    \/ state \in {"Ok", "WriterWantWrite"} /\ "writable" \in ev
    \/ state = "WriterWantRead" /\ "readable" \in ev

=============================================================================
