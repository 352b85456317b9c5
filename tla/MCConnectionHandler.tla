------------------------ MODULE MCConnectionHandler ------------------------
(* Model-checking instance of ConnectionHandler.                           *)
EXTENDS ConnectionHandler, TLC

(* Service 1 has a local address; service 2 is a Control Protocol service. *)
MCSvcTable == (1 :> "address") @@ (2 :> "control")

Symmetry == Permutations(SessionIds)

(* Once the result is set the event loop stops and the handler's state is *)
(* dropped: terminated states are told apart only by their result.         *)
View == IF result = "none" \/ pendingEv # {} \/ arrowEv # {} THEN vars ELSE result


(* Bound for runs where msg_id wraps: at most three requests outstanding.  *)
MaxOutstanding == Len(expectedAcks) <= 3

=============================================================================
