------------------------------ MODULE Exchange ------------------------------
(***************************************************************************)
(* RC Clients that share one transport: send_acf_abb and send_acf_gbb of   *)
(* src/src/udp.rs, src/src/shmem.rs, src/src/l2.rs and                     *)
(* src/src/tlstransport.rs.  All four write the request, take the next     *)
(* frame that arrives and compare its byte_bus_id with the request's.      *)
(* Frames wait in the queue of an InProcChannel, behind its mutex and      *)
(* condition variable, or in the receive buffer of a socket, whose readers *)
(* sleep and wake in the same way.  The medium may do what Faults lists.   *)
(***************************************************************************)
EXTENDS Integers, Sequences, FiniteSets

CONSTANTS Callers,     \* threads that send over the transport
          Patient,     \* those that pass no timeout
          Headers,     \* the byte_bus_id and message type of a request
          Foreign,     \* a frame that does not decode: other EtherType, short, garbled
          Faults,      \* what the medium does, see Mishaps
          MaxCalls,    \* requests a run is about
          MaxFaults    \* faults a run is about

\* The header fields of a request or an answer a client could look at; num is
\* the transaction_num, here the number of the request.
Messages == [header : Headers, num : Nat]

Mishaps  == {"timeout", "error", "overlap", "lose", "repeat", "reorder", "foreign"}
Outcomes == {"none", "Ok", "Timeout", "EpError", "Other"}

ASSUME ExchangeAssumption ==
    /\ IsFiniteSet(Callers) /\ Patient \subseteq Callers
    /\ Headers \subseteq [bus : Nat, format : {"ACF_ABB", "ACF_GBB"}]
    /\ Foreign \notin Messages
    /\ MaxCalls \in Nat /\ MaxFaults \in Nat
    /\ Faults \subseteq Mishaps

VARIABLES
    requests,  \* on their way to the server
    frames,    \* what has arrived for the clients and nobody took
    notices,   \* arrivals whose notify_one is still to run
    call,      \* per caller, the request of its last call, Foreign if none was sent
    pc,        \* per caller: "idle", "locking" the queue, "waiting"
    expired,   \* callers whose deadline is over
    result,    \* per caller, what the last call returned
    answer,    \* per caller, the answer its last call returned, Foreign if none
    calls,     \* requests sent
    faults,    \* faults the medium has had
    mishaps,   \* history: what has disturbed the exchange
    lag,       \* history: how many requests behind the last accepted answer was
    owed       \* history: frames to come that no call in progress has asked for

wires == <<requests, frames, notices>>
vars == <<requests, frames, notices, call, pc, expired, result, answer,
          calls, faults, mishaps, lag, owed>>

Init ==
    /\ requests = <<>> /\ frames = <<>> /\ notices = 0
    /\ call = [c \in Callers |-> Foreign]
    /\ pc = [c \in Callers |-> "idle"] /\ expired = {}
    /\ result = [c \in Callers |-> "none"] /\ answer = [c \in Callers |-> Foreign]
    /\ calls = 0 /\ faults = 0 /\ mishaps = {} /\ lag = 0 /\ owed = 0

-----------------------------------------------------------------------------
(* The client. *)

\* Broken variant: any answer will do.
verify_echo_back_lax(request, response) == "Ok"

\* Only the byte_bus_id is compared.
verify_echo_back(request, response) ==
    IF response.header.bus # request.header.bus THEN "EpError" ELSE "Ok"

\* What send_acf_abb or send_acf_gbb makes of the frame it took.
Judge(request, frame) ==
    IF frame = Foreign \/ frame.header.format # request.header.format THEN "Other"
    ELSE verify_echo_back(request, frame)

\* A call that ends before anything is written: a zero timeout, a message
\* that does not encode, a socket that does not send.
Decline(c, error) ==
    /\ pc[c] = "idle"
    /\ result' = [result EXCEPT ![c] = error]
    /\ call' = [call EXCEPT ![c] = Foreign] /\ answer' = [answer EXCEPT ![c] = Foreign]
    /\ UNCHANGED <<wires, pc, expired, calls, faults, mishaps, lag, owed>>

Send(c, header) ==
    /\ pc[c] = "idle" /\ calls < MaxCalls
    /\ LET message == [header |-> header, num |-> calls + 1]
       IN  /\ requests' = Append(requests, message)
           /\ call' = [call EXCEPT ![c] = message]
    /\ calls' = calls + 1
    /\ pc' = [pc EXCEPT ![c] = "locking"]
    /\ result' = [result EXCEPT ![c] = "none"] /\ answer' = [answer EXCEPT ![c] = Foreign]
    /\ mishaps' = IF \E d \in Callers : pc[d] # "idle" THEN mishaps \cup {"overlap"} ELSE mishaps
    /\ UNCHANGED <<frames, notices, expired, faults, lag, owed>>

Leave(c) ==
    /\ pc' = [pc EXCEPT ![c] = "idle"]
    /\ expired' = expired \ {c}

\* Broken variant: the newest frame is taken.
Take_newest(c) ==
    /\ pc[c] = "locking" /\ frames # <<>>
    /\ LET frame   == frames[Len(frames)]
           verdict == Judge(call[c], frame)
       IN  /\ result' = [result EXCEPT ![c] = verdict]
           /\ answer' = [answer EXCEPT ![c] = IF verdict = "Ok" THEN frame ELSE Foreign]
           /\ lag' = IF verdict = "Ok" THEN call[c].num - frame.num ELSE lag
    /\ frames' = SubSeq(frames, 1, Len(frames) - 1)
    /\ Leave(c)
    /\ UNCHANGED <<requests, notices, call, calls, faults, mishaps, owed>>

\* Broken variant: the frame stays in the queue.
Take_peek(c) ==
    /\ pc[c] = "locking" /\ frames # <<>>
    /\ LET frame   == Head(frames)
           verdict == Judge(call[c], frame)
       IN  /\ result' = [result EXCEPT ![c] = verdict]
           /\ answer' = [answer EXCEPT ![c] = IF verdict = "Ok" THEN frame ELSE Foreign]
           /\ lag' = IF verdict = "Ok" THEN call[c].num - frame.num ELSE lag
    /\ Leave(c)
    /\ UNCHANGED <<frames, requests, notices, call, calls, faults, mishaps, owed>>

\* Broken variant: a frame of another bus is left for the call it may belong to.
Take_own_bus(c) ==
    /\ pc[c] = "locking" /\ frames # <<>>
    /\ LET frame   == Head(frames)
           verdict == Judge(call[c], frame)
       IN  /\ result' = [result EXCEPT ![c] = verdict]
           /\ answer' = [answer EXCEPT ![c] = IF verdict = "Ok" THEN frame ELSE Foreign]
           /\ lag' = IF verdict = "Ok" THEN call[c].num - frame.num ELSE lag
           /\ frames' = IF verdict = "EpError" THEN frames ELSE Tail(frames)
    /\ Leave(c)
    /\ UNCHANGED <<requests, notices, call, calls, faults, mishaps, owed>>

\* The queue is not empty: the oldest frame is taken, late or not.
Take(c) ==
    /\ pc[c] = "locking" /\ frames # <<>>
    /\ LET frame   == Head(frames)
           verdict == Judge(call[c], frame)
       IN  /\ result' = [result EXCEPT ![c] = verdict]
           /\ answer' = [answer EXCEPT ![c] = IF verdict = "Ok" THEN frame ELSE Foreign]
           /\ lag' = IF verdict = "Ok" THEN call[c].num - frame.num ELSE lag
    /\ frames' = Tail(frames)
    /\ Leave(c)
    /\ UNCHANGED <<requests, notices, call, calls, faults, mishaps, owed>>

\* The queue is empty: the caller sleeps, which releases the mutex.
Wait(c) ==
    /\ pc[c] = "locking" /\ frames = <<>> /\ c \notin expired
    /\ pc' = [pc EXCEPT ![c] = "waiting"]
    /\ UNCHANGED <<wires, call, expired, result, answer, calls, faults, mishaps, lag, owed>>


GiveUp(c) ==
    /\ pc[c] = "locking" /\ frames = <<>> /\ c \in expired
    /\ Leave(c)
    /\ result' = [result EXCEPT ![c] = "Timeout"]
    /\ mishaps' = mishaps \cup {"timeout"} /\ owed' = owed + 1
    /\ UNCHANGED <<wires, call, answer, calls, faults, lag>>

\* A socket fails before anything has arrived; its reader leaves as well.
ReceiveFails(c) ==
    /\ "error" \in Faults /\ faults < MaxFaults
    /\ pc[c] # "idle" /\ frames = <<>>
    /\ Leave(c)
    /\ result' = [result EXCEPT ![c] = "Other"]
    /\ faults' = faults + 1
    /\ mishaps' = mishaps \cup {"error"} /\ owed' = owed + 1
    /\ UNCHANGED <<wires, call, answer, calls, lag>>

\* wait_timeout returns on its own.
TimeUp(c) ==
    /\ pc[c] # "idle" /\ c \notin Patient \cup expired
    /\ expired' = expired \cup {c}
    /\ pc' = [pc EXCEPT ![c] = "locking"]
    /\ UNCHANGED <<wires, call, result, answer, calls, faults, mishaps, lag, owed>>

-----------------------------------------------------------------------------
(* The server, which answers requests in order and echoes their headers, and
   the medium. *)

Arrive(frame) == frames' = Append(frames, frame) /\ notices' = notices + 1

Serve ==
    /\ requests # <<>>
    /\ Arrive(Head(requests))
    /\ requests' = Tail(requests)
    /\ UNCHANGED <<call, pc, expired, result, answer, calls, faults, mishaps, lag, owed>>

\* Broken variant: nobody is told of an arrival.
Notify_nobody ==
    /\ notices > 0
    /\ notices' = notices - 1
    /\ UNCHANGED <<requests, frames, call, pc, expired, result, answer, calls, faults,
                   mishaps, lag, owed>>

\* notify_one, after the queue is unlocked: some sleeping caller wakes.
Notify ==
    /\ notices > 0
    /\ notices' = notices - 1
    /\ \/ /\ \A c \in Callers : pc[c] # "waiting"
          /\ UNCHANGED pc
       \/ \E c \in Callers : pc[c] = "waiting" /\ pc' = [pc EXCEPT ![c] = "locking"]
    /\ UNCHANGED <<requests, frames, call, expired, result, answer, calls, faults,
                   mishaps, lag, owed>>

Without(s, i) == SubSeq(s, 1, i - 1) \o SubSeq(s, i + 1, Len(s))
Twice(s, i)   == SubSeq(s, 1, i) \o SubSeq(s, i, Len(s))
Swapped(s, i) == [s EXCEPT ![i] = s[i + 1], ![i + 1] = s[i]]

\* Frames that a fault adds to those that are under way.
Surplus(kind) == IF kind = "lose" THEN -1 ELSE IF kind = "reorder" THEN 0 ELSE 1

\* A frame is lost, repeated, overtaken by the next, or not for this client.
\* To the client a request that is lost or repeated looks like its answer.
Fault(kind) ==
    /\ kind \in Faults /\ faults < MaxFaults
    /\ \/ /\ kind = "lose" /\ UNCHANGED notices
          /\ \E i \in DOMAIN frames : frames' = Without(frames, i)
       \/ /\ kind = "repeat" /\ notices' = notices + 1
          /\ \E i \in DOMAIN frames : frames' = Twice(frames, i)
       \/ /\ kind = "reorder" /\ UNCHANGED notices
          /\ \E i \in 1 .. Len(frames) - 1 : frames' = Swapped(frames, i)
       \/ kind = "foreign" /\ Arrive(Foreign)
    /\ faults' = faults + 1
    /\ mishaps' = mishaps \cup {kind}
    /\ owed' = owed + Surplus(kind)
    /\ UNCHANGED <<requests, call, pc, expired, result, answer, calls, lag>>

Continue(c) == Take(c) \/ Wait(c) \/ GiveUp(c)

Next ==
    \/ \E c \in Callers, error \in {"Timeout", "Other"} : Decline(c, error)
    \/ \E c \in Callers : Continue(c) \/ TimeUp(c) \/ ReceiveFails(c)
    \/ \E c \in Callers, header \in Headers : Send(c, header)
    \/ Serve
    \/ Notify
    \/ \E kind \in Faults : Fault(kind)

Spec == Init /\ [][Next]_vars

\* A thread that runs is scheduled, a deadline comes, the server answers.
Fairness ==
    /\ \A c \in Callers : WF_vars(Continue(c)) /\ WF_vars(TimeUp(c))
    /\ WF_vars(Serve) /\ WF_vars(Notify)

FairSpec == Spec /\ Fairness

-----------------------------------------------------------------------------
(* Properties. *)

\* Types; a frame that is accepted has the bus and the format of the request
\* (acf.rs, verify_echo_back).
TypeOK ==
    /\ requests \in Seq(Messages) /\ frames \in Seq(Messages \cup {Foreign}) /\ notices \in Nat
    /\ call \in [Callers -> Messages \cup {Foreign}]
    /\ expired \subseteq Callers \ Patient
    /\ pc \in [Callers -> {"idle", "locking", "waiting"}]
    /\ result \in [Callers -> Outcomes] /\ answer \in [Callers -> Messages \cup {Foreign}]
    /\ calls \in 0 .. MaxCalls /\ faults \in 0 .. MaxFaults
    /\ mishaps \subseteq Mishaps /\ lag \in Int /\ owed \in Int
    /\ \A c \in Callers : result[c] = "Ok" =>
          answer[c] # Foreign /\ answer[c].header = call[c].header

\* As long as nothing has gone wrong, no call has given up and no two calls
\* have overlapped, every call returns the answer to its own request.
OwnAnswerUndisturbed ==
    mishaps = {} => \A c \in Callers : pc[c] = "idle" /\ call[c] # Foreign =>
        result[c] = "Ok" /\ answer[c] = call[c]

\* What is under way is what the calls in progress wait for, and what is owed:
\* the answer of each call that gave up, and what the medium added, less what
\* it lost.  Every call takes one frame for the one it sent.  A frame of another
\* bus or format ends the call that takes it and is gone, and two calls that
\* overlap may take each other's answers but leave none behind: once they are
\* over, a client that is owed nothing has an empty queue.
BacklogIsOwed ==
    Len(requests) + Len(frames) = Cardinality({c \in Callers : pc[c] # "idle"}) + owed

\* A frame goes to one call, whoever waits for it: unless the medium repeats
\* frames, no two callers are given one and the same answer, however calls
\* overlap, give up and accept answers to the requests of others.
AnswersNotShared ==
    "repeat" \notin mishaps =>
        \A c, d \in Callers : c # d /\ answer[c] # Foreign => answer[c] # answer[d]

\* Nobody sleeps on a queue that holds a frame unless a wake-up is due: the
\* notice of an arrival is never lost, not even to a caller that times out.
NoLostWakeup ==
    (\E c \in Callers : pc[c] = "waiting") =>
        Len(frames) <= notices + Cardinality({c \in Callers : pc[c] = "locking"})

\* Without losses, swaps and overlapping calls the answers a client accepts
\* never catch up with its requests again: retrying does not resynchronise.
LagNeverShrinks == [][mishaps' \cap {"lose", "reorder", "overlap"} = {} => lag' >= lag]_vars


\* "Per-transaction correlation id" (acf.rs:319), "named for matching a
\* response to its request" (request.rs:1219): an accepted answer carries the
\* transaction_num of its request.
AnswerMatchesTransaction ==
    \A c \in Callers : pc[c] = "idle" /\ result[c] = "Ok" => answer[c].num = call[c].num
=============================================================================
