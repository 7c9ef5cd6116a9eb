--------------------------- MODULE RequestPromise ---------------------------
(***************************************************************************)
(* What a client may rely on: each of its requests gets one outcome, once  *)
(* (src/src/request.rs: finalized is terminal, "a second cancellation of   *)
(* an already-finished request has nothing left to cancel").  RequestStream *)
(* implements this.                                                        *)
(***************************************************************************)
CONSTANTS Requests, Outcomes

VARIABLE outcome

OpenRequests == {r \in Requests : outcome[r] = "none"}

Init == outcome = [r \in Requests |-> "none"]

\* Some open requests get their outcome; an outcome is never revised.
Conclude ==
    \E chosen \in SUBSET OpenRequests :
        /\ outcome' \in [Requests -> Outcomes \cup {"none"}]
        /\ \A r \in Requests \ chosen : outcome'[r] = outcome[r]

Spec == Init /\ [][Conclude]_outcome
=============================================================================
