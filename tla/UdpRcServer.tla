---------------------------- MODULE UdpRcServer ----------------------------
(***************************************************************************)
(* The UDP front of an RC Server (src/src/udp.rs, struct UdpRcServer) and  *)
(* the claim on the discovery stream it keeps (src/src/discovery.rs).      *)
(* Threads call serve_one in loops of their own.  `now` is an argument of  *)
(* the call, so it is read before the call waits for a datagram.  What     *)
(* handle_abb does is module RcServer; here it only answers or errs.       *)
(***************************************************************************)
EXTENDS Lifecycle, Sequences

CONSTANTS
    Threads,          \* the threads that call serve_one
    NoThread,
    Streams,          \* the stream_ids a frame may carry
    Broadcast,        \* DISCOVERY_BROADCAST_STREAM_ID, one of them
    NoStream,
    Frames,           \* the request frames that arrive
    HandleAbbErrors,  \* the errors handle_abb returns
    Timeout,          \* discovery_timeout, in ticks
    MaxClock          \* bound: the clock stops there

\* address is what decode_register_address finds: -1 for a short payload.
Requests == [bus : Nat, write : BOOLEAN, address : Int]

ASSUME ConstantsAssumption ==
    /\ NoThread \notin Threads
    /\ Broadcast \in Streams
    /\ NoStream \notin Streams
    /\ Frames \subseteq Seq(Requests) \ {<<>>}
    /\ HandleAbbErrors \subseteq WireErrors \cup LocalErrors
    /\ Timeout \in Nat
    /\ MaxClock \in Nat

VARIABLES
    clock,            \* the instants Instant::now() reads
    claim,            \* Mutex<Option<DiscoveryClaim>>: NoClaim is None
    claim_lock,       \* the thread that holds that mutex
    pc, call,         \* where each thread is in serve_one and its locals
    granted_at        \* history: when the claim was last granted

vars == <<clock, claim, claim_lock, pc, call, granted_at>>

PCs == {"idle", "recv", "dispatch", "claim", "send"}

NoClaim == [claimant |-> NoStream, claimed_at |-> 0]
NoCall == [now |-> 0, stream |-> NoStream, frame |-> <<>>, replies |-> <<>>]

Init ==
    /\ clock = 0
    /\ claim = NoClaim
    /\ claim_lock = NoThread
    /\ pc = [t \in Threads |-> "idle"]
    /\ call = [t \in Threads |-> NoCall]
    /\ granted_at = 0

-----------------------------------------------------------------------------
(* discovery.rs: the shapes it recognises and the rules of the claim. *)
DISCOVERY_REGISTER_ADDRESS == 0

\* Broken variant: the sentinel address is taken for a client.
is_discovery_broadcast_never(stream) == FALSE

is_discovery_broadcast_stream_id(stream) == stream = Broadcast

is_discovery_request(m) ==
    m.bus = EP0_BYTE_BUS_ID /\ ~m.write /\ m.address = DISCOVERY_REGISTER_ADDRESS

is_discovery_configure_request(m) ==
    m.bus = EP0_BYTE_BUS_ID /\ m.write /\ m.address = DISCOVERY_REGISTER_ADDRESS

\* Broken variant: the distance between the two instants, whichever is first.
has_lapsed_unsaturated(c, now) ==
    (IF now >= c.claimed_at THEN now - c.claimed_at ELSE c.claimed_at - now) >= Timeout

\* saturating_duration_since: a `now` before the claim counts as no time at all.
has_lapsed(c, now) ==
    (IF now >= c.claimed_at THEN now - c.claimed_at ELSE 0) >= Timeout

\* Broken variant: a lapsed claim still excludes.
claim_permits_unlapsing(c, who, now) == c.claimant \in {NoStream, who}

claim_permits(c, who, now) ==
    c.claimant \in {NoStream, who} \/ has_lapsed(c, now)

check_discovery_access(c, requester, kind, now) ==
    IF kind = "Read" THEN "Ok"
    ELSE IF is_discovery_broadcast_stream_id(requester) THEN "InvalidParameter"
    ELSE IF claim_permits(c, requester, now) THEN "Ok"
    ELSE "UnauthorizedAccess"

try_claim_discovery_stream(c, claimant, now) ==
    IF is_discovery_broadcast_stream_id(claimant) THEN "InvalidParameter"
    ELSE IF claim_permits(c, claimant, now) THEN "Ok"
    ELSE "RequestRejected"

-----------------------------------------------------------------------------
Goto(t, label, c) ==
    /\ pc' = [pc EXCEPT ![t] = label]
    /\ call' = [call EXCEPT ![t] = c]

Return(t) == Goto(t, "idle", NoCall)

\* dispatch_request has one request in hand, the first without a reply.
InHand(c) == c.frame[Len(c.replies) + 1]

Answer(t, code) ==
    LET c == [call[t] EXCEPT !.replies = Append(@, code)]
    IN Goto(t, IF Len(c.replies) = Len(c.frame) THEN "send" ELSE "dispatch", c)

\* An error without a wire code leaves serve_one, the replies so far unsent.
Fail(t, error) == IF error \in WireErrors THEN Answer(t, error) ELSE Return(t)

ServeOne(t) ==
    /\ pc[t] = "idle"
    /\ Goto(t, "recv", [NoCall EXCEPT !.now = clock])
    /\ UNCHANGED <<clock, claim, claim_lock, granted_at>>

\* The wait times out, or what arrived does not decode.
ReceiveFails(t) ==
    /\ pc[t] = "recv"
    /\ Return(t)
    /\ UNCHANGED <<clock, claim, claim_lock, granted_at>>

Receive(t) ==
    /\ pc[t] = "recv"
    /\ \E s \in Streams, f \in Frames :
         Goto(t, "dispatch", [call[t] EXCEPT !.stream = s, !.frame = f])
    /\ UNCHANGED <<clock, claim, claim_lock, granted_at>>

\* A discovery read copies the claim under its mutex and is never refused.
AnswerDiscovery(t) ==
    /\ pc[t] = "dispatch"
    /\ is_discovery_request(InHand(call[t]))
    /\ claim_lock = NoThread
    /\ LET verdict == check_discovery_access(claim, call[t].stream, "Read", call[t].now)
       IN IF verdict = "Ok" THEN Answer(t, "Ok") ELSE Fail(t, verdict)
    /\ UNCHANGED <<clock, claim, claim_lock, granted_at>>

\* Broken variant: the guard is dropped between the two gates.
HoldClaim_dropped(t) == UNCHANGED claim_lock

HoldClaim(t) == claim_lock' = t

\* A claim attempt takes the mutex and passes the first gate, or drops the
\* mutex with its refusal.
ConfigureCheck(t) ==
    /\ pc[t] = "dispatch"
    /\ is_discovery_configure_request(InHand(call[t]))
    /\ claim_lock = NoThread
    /\ LET verdict == check_discovery_access(claim, call[t].stream, "Configure", call[t].now)
       IN IF verdict = "Ok"
          THEN HoldClaim(t) /\ Goto(t, "claim", call[t])
          ELSE UNCHANGED claim_lock /\ Fail(t, verdict)
    /\ UNCHANGED <<clock, claim, granted_at>>

\* The second gate, then the store, under the same guard.
ConfigureClaim(t) ==
    /\ pc[t] = "claim"
    /\ LET verdict == try_claim_discovery_stream(claim, call[t].stream, call[t].now)
       IN IF verdict = "Ok"
          THEN /\ claim' = [claimant |-> call[t].stream, claimed_at |-> call[t].now]
               /\ granted_at' = clock
               /\ Answer(t, "Ok")
          ELSE UNCHANGED <<claim, granted_at>> /\ Fail(t, verdict)
    /\ claim_lock' = NoThread
    /\ UNCHANGED clock

\* Anything else goes to handle_abb, unless it came from the broadcast address.
Dispatch(t) ==
    /\ pc[t] = "dispatch"
    /\ ~is_discovery_request(InHand(call[t]))
    /\ ~is_discovery_configure_request(InHand(call[t]))
    /\ IF is_discovery_broadcast_stream_id(call[t].stream)
       THEN Fail(t, "InvalidParameter")
       ELSE \/ Answer(t, "Ok")
            \/ \E error \in HandleAbbErrors : Fail(t, error)
    /\ UNCHANGED <<clock, claim, claim_lock, granted_at>>

\* The response frame goes out; send_to's own error is only returned.
Send(t) ==
    /\ pc[t] = "send"
    /\ Return(t)
    /\ UNCHANGED <<clock, claim, claim_lock, granted_at>>

Tick ==
    /\ clock < MaxClock
    /\ clock' = clock + 1
    /\ UNCHANGED <<claim, claim_lock, pc, call, granted_at>>

Step(t) ==
    \/ ServeOne(t) \/ ReceiveFails(t) \/ Receive(t)
    \/ AnswerDiscovery(t) \/ ConfigureCheck(t) \/ ConfigureClaim(t)
    \/ Dispatch(t) \/ Send(t)

Next == Tick \/ \E t \in Threads : Step(t)

Spec == Init /\ [][Next]_vars

-----------------------------------------------------------------------------
Clients == Streams \ {Broadcast}
Codes == WireErrors \cup {"Ok"}
Claims == [claimant : Clients \cup {NoStream}, claimed_at : Nat]
Calls == [now : Nat, stream : Streams \cup {NoStream},
          frame : Frames \cup {<<>>}, replies : Seq(Codes)]

\* Shape of the server's fields and locals.  A claim is held by a real client,
\* never by the broadcast address, and counts from an instant that has passed.
TypeOK ==
    /\ clock \in 0..MaxClock
    /\ claim \in Claims
    /\ claim.claimed_at <= clock
    /\ claim_lock \in Threads \cup {NoThread}
    /\ pc \in [Threads -> PCs]
    /\ call \in [Threads -> Calls]
    /\ \A t \in Threads : call[t].now <= clock
    /\ granted_at \in 0..clock

\* dispatch_request asks check_discovery_access and then, on the claim as it is
\* by then, try_claim_discovery_stream ("composing both demonstrates they
\* agree"): what passed the first gate passes the second, whoever else claims.
GatesAgree ==
    \A t \in Threads : pc[t] = "claim" =>
        try_claim_discovery_stream(claim, call[t].stream, call[t].now) = "Ok"

\* A claim attempt is refused as unauthorised only while another client holds
\* a claim that is still running at the attempt's own `now`: a lapsed claim is
\* open to any claimant, and a holder can always refresh.
RefusedOnlyWhileLive ==
    [][\A t \in Threads :
         /\ pc[t] = "dispatch"
         /\ is_discovery_configure_request(InHand(call[t]))
         /\ call'[t].replies = Append(call[t].replies, "UnauthorizedAccess")
         => /\ claim.claimant \notin {NoStream, call[t].stream}
            /\ call[t].now < claim.claimed_at + Timeout]_vars

\* However serve_one calls interleave, the claim behaves as a lease timed by
\* the `now` each call was given: no takeover before the timeout.
Lease == INSTANCE DiscoveryLease WITH
    Streams <- Clients, holder <- claim.claimant, since <- claim.claimed_at
ClaimIsLease == Lease!Spec

\* DISCOVERY_TIME_OUT is "the interval a claim on the discovery stream survives
\* without being refreshed": nobody takes it sooner after it was granted.
ClaimSurvivesTimeout ==
    [][claim.claimant # NoStream /\ claim'.claimant # claim.claimant =>
         clock >= granted_at + Timeout]_vars
=============================================================================
