------------------------ MODULE UdpRcServerProofs ------------------------
(* Theorems about UdpRcServer, for every number of serving threads, every set
   of streams and frames and every timeout. *)
EXTENDS UdpRcServer, TLAPS

\* A thread past recv has a request in hand; the broadcast address never gets
\* as far as the second gate.
InCall(t) ==
    /\ pc[t] = "recv" => call[t].replies = <<>>
    /\ pc[t] \in {"dispatch", "claim"} =>
         /\ call[t].stream \in Streams
         /\ call[t].frame \in Frames
         /\ Len(call[t].replies) < Len(call[t].frame)
    /\ pc[t] = "claim" => call[t].stream # Broadcast

LocalTypeOK ==
    /\ pc \in [Threads -> PCs]
    /\ call \in [Threads -> Calls]
    /\ \A t \in Threads : call[t].now <= clock

LocalInv == LocalTypeOK /\ \A t \in Threads : InCall(t)

TypeInv == TypeOK /\ \A t \in Threads : InCall(t)

-----------------------------------------------------------------------------
\* The empty call has the type of a call.
LEMMA NoCallType == NoCall \in Calls
BY DEF NoCall, Calls

\* Leaving serve_one keeps the locals well typed.
LEMMA ReturnType ==
    ASSUME LocalInv, NEW t \in Threads, Return(t), UNCHANGED clock, clock \in Nat
    PROVE  LocalInv'
PROOF
<1>1. /\ pc' = [pc EXCEPT ![t] = "idle"]
      /\ call' = [call EXCEPT ![t] = NoCall]
  BY DEF Return, Goto
<1>2. NoCall.now <= clock
  BY DEF NoCall
<1>3. LocalTypeOK'
  BY <1>1, <1>2, NoCallType DEF LocalInv, LocalTypeOK, PCs
<1>4. ASSUME NEW u \in Threads PROVE InCall(u)'
  BY <1>1 DEF LocalInv, LocalTypeOK, InCall
<1> QED BY <1>3, <1>4 DEF LocalInv

\* A request in hand that gets a code leaves the locals well typed.
LEMMA AnswerType ==
    ASSUME LocalInv, NEW t \in Threads, pc[t] \in {"dispatch", "claim"},
           NEW code \in Codes, Answer(t, code), UNCHANGED clock
    PROVE  LocalInv'
PROOF
<1> DEFINE c == [call[t] EXCEPT !.replies = Append(@, code)]
<1>1. /\ call[t] \in Calls
      /\ call[t].stream \in Streams
      /\ call[t].frame \in Frames
      /\ call[t].now <= clock
      /\ Len(call[t].replies) < Len(call[t].frame)
  BY DEF LocalInv, LocalTypeOK, InCall
<1>r. Append(call[t].replies, code) \in Seq(Codes)
  BY <1>1 DEF Calls
<1>2. /\ c \in Calls /\ c.frame = call[t].frame /\ c.stream = call[t].stream
      /\ c.now = call[t].now /\ c.replies = Append(call[t].replies, code)
  BY <1>1, <1>r DEF Calls
<1>3. /\ Len(c.replies) = Len(call[t].replies) + 1
      /\ Len(call[t].replies) \in Nat /\ Len(c.frame) \in Nat
  BY <1>1, <1>2, ConstantsAssumption DEF Calls
<1>4. /\ call' = [call EXCEPT ![t] = c]
      /\ pc' = [pc EXCEPT ![t] = IF Len(c.replies) = Len(c.frame)
                                 THEN "send" ELSE "dispatch"]
  BY DEF Answer, Goto
<1>h. HIDE DEF c
<1>5. LocalTypeOK'
  BY <1>1, <1>2, <1>4 DEF LocalInv, LocalTypeOK, PCs
<1>6. ASSUME NEW u \in Threads PROVE InCall(u)'
  <2>1. CASE u = t
    BY <1>1, <1>2, <1>3, <1>4, <2>1 DEF InCall, LocalInv, LocalTypeOK
  <2>2. CASE u # t
    BY <1>4, <2>2 DEF InCall, LocalInv, LocalTypeOK
  <2> QED BY <2>1, <2>2
<1> QED BY <1>5, <1>6 DEF LocalInv

\* So does a request that fails.
LEMMA FailType ==
    ASSUME LocalInv, NEW t \in Threads, pc[t] \in {"dispatch", "claim"},
           NEW error \in WireErrors \cup LocalErrors, Fail(t, error),
           UNCHANGED clock, clock \in Nat
    PROVE  LocalInv'
PROOF
<1>1. CASE error \in WireErrors
  BY <1>1, AnswerType DEF Fail, Codes
<1>2. CASE error \notin WireErrors
  BY <1>2, ReturnType DEF Fail
<1> QED BY <1>1, <1>2

-----------------------------------------------------------------------------
\* The verdicts of the two gates of the claim.
LEMMA Verdicts ==
    ASSUME NEW c, NEW who, NEW now
    PROVE  /\ check_discovery_access(c, who, "Read", now) = "Ok"
           /\ check_discovery_access(c, who, "Configure", now)
                \in {"Ok", "InvalidParameter", "UnauthorizedAccess"}
           /\ check_discovery_access(c, who, "Configure", now) = "Ok"
                <=> who # Broadcast /\ claim_permits(c, who, now)
           /\ try_claim_discovery_stream(c, who, now)
                \in {"Ok", "InvalidParameter", "RequestRejected"}
           /\ try_claim_discovery_stream(c, who, now) = "Ok"
                <=> who # Broadcast /\ claim_permits(c, who, now)
BY DEF check_discovery_access, try_claim_discovery_stream,
       is_discovery_broadcast_stream_id

\* Each step of a thread preserves the type of its locals.
LEMMA StepLocals ==
    ASSUME TypeInv, NEW t \in Threads, Step(t)
    PROVE  LocalInv'
PROOF
<1>1. LocalInv /\ clock \in Nat
  BY ConstantsAssumption DEF TypeInv, TypeOK, LocalInv, LocalTypeOK
<1>2. CASE ServeOne(t)
  <2>1. /\ pc' = [pc EXCEPT ![t] = "recv"]
        /\ call' = [call EXCEPT ![t] = [NoCall EXCEPT !.now = clock]]
        /\ clock' = clock
    BY <1>2 DEF ServeOne, Goto
  <2>2. /\ [NoCall EXCEPT !.now = clock] \in Calls
        /\ [NoCall EXCEPT !.now = clock].now = clock
        /\ [NoCall EXCEPT !.now = clock].replies = <<>>
    <3>1. NoCall.replies = <<>>
      BY DEF NoCall
    <3> QED BY <1>1, <3>1, NoCallType DEF Calls
  <2>3. LocalTypeOK'
    BY <1>1, <2>1, <2>2 DEF LocalInv, LocalTypeOK, PCs
  <2>4. \A u \in Threads : InCall(u)'
    BY <1>1, <2>1, <2>2 DEF LocalInv, LocalTypeOK, InCall
  <2> QED BY <2>3, <2>4 DEF LocalInv
<1>3. CASE ReceiveFails(t)
  BY <1>1, <1>3, ReturnType DEF ReceiveFails
<1>4. CASE Receive(t)
  <2>1. PICK s \in Streams, f \in Frames :
          Goto(t, "dispatch", [call[t] EXCEPT !.stream = s, !.frame = f])
    BY <1>4 DEF Receive
  <2> DEFINE c == [call[t] EXCEPT !.stream = s, !.frame = f]
  <2>2. call[t] \in Calls /\ call[t].now <= clock
    BY <1>1 DEF LocalInv, LocalTypeOK
  <2>3. c \in Calls /\ c.stream = s /\ c.frame = f /\ c.now = call[t].now
        /\ c.replies = call[t].replies
    BY <2>2 DEF Calls
  <2>4. Len(c.replies) = 0 /\ Len(f) > 0
    <3>1. call[t].replies = <<>>
      BY <1>1, <1>4 DEF LocalInv, InCall, Receive
    <3>2. f \in Seq(Requests) /\ f # <<>>
      BY ConstantsAssumption
    <3> QED BY <2>3, <3>1, <3>2
  <2>5. /\ pc' = [pc EXCEPT ![t] = "dispatch"]
        /\ call' = [call EXCEPT ![t] = c]
        /\ clock' = clock
    BY <1>4, <2>1 DEF Receive, Goto
  <2>h. HIDE DEF c
  <2>6. LocalTypeOK'
    BY <1>1, <2>2, <2>3, <2>5 DEF LocalInv, LocalTypeOK, PCs
  <2>7. \A u \in Threads : InCall(u)'
    BY <1>1, <2>3, <2>4, <2>5 DEF LocalInv, LocalTypeOK, InCall
  <2> QED BY <2>6, <2>7 DEF LocalInv
<1>5. CASE AnswerDiscovery(t)
  <2>1. pc[t] = "dispatch" /\ clock' = clock /\ Answer(t, "Ok")
    BY <1>5, Verdicts DEF AnswerDiscovery
  <2> QED BY <1>1, <2>1, AnswerType DEF Codes
<1>6. CASE ConfigureCheck(t)
  <2> DEFINE verdict == check_discovery_access(claim, call[t].stream, "Configure", call[t].now)
  <2>1. verdict \in {"Ok", "InvalidParameter", "UnauthorizedAccess"}
    BY Verdicts
  <2>2. verdict = "Ok" => call[t].stream # Broadcast
    BY Verdicts
  <2>3. /\ pc[t] = "dispatch" /\ clock' = clock
        /\ IF verdict = "Ok" THEN Goto(t, "claim", call[t]) ELSE Fail(t, verdict)
    BY <1>6 DEF ConfigureCheck
  <2>h. HIDE DEF verdict
  <2>4. CASE verdict = "Ok"
    <3>1. pc' = [pc EXCEPT ![t] = "claim"] /\ call' = [call EXCEPT ![t] = call[t]]
      BY <2>3, <2>4 DEF Goto
    <3>2. LocalTypeOK'
      BY <1>1, <2>3, <3>1 DEF LocalInv, LocalTypeOK, PCs
    <3>3. \A u \in Threads : InCall(u)'
      BY <1>1, <2>2, <2>3, <2>4, <3>1 DEF LocalInv, LocalTypeOK, InCall
    <3> QED BY <3>2, <3>3 DEF LocalInv
  <2>5. CASE verdict # "Ok"
    BY <1>1, <2>1, <2>3, <2>5, FailType DEF WireErrors
  <2> QED BY <2>4, <2>5
<1>7. CASE ConfigureClaim(t)
  <2> DEFINE verdict == try_claim_discovery_stream(claim, call[t].stream, call[t].now)
  <2>1. verdict \in {"Ok", "InvalidParameter", "RequestRejected"}
    BY Verdicts
  <2>2. /\ pc[t] = "claim" /\ clock' = clock
        /\ IF verdict = "Ok" THEN Answer(t, "Ok") ELSE Fail(t, verdict)
    BY <1>7 DEF ConfigureClaim
  <2>h. HIDE DEF verdict
  <2>3. CASE verdict = "Ok"
    BY <1>1, <2>2, <2>3, AnswerType DEF Codes
  <2>4. CASE verdict # "Ok"
    BY <1>1, <2>1, <2>2, <2>4, FailType DEF WireErrors
  <2> QED BY <2>3, <2>4
<1>8. CASE Dispatch(t)
  <2>1. /\ pc[t] = "dispatch" /\ clock' = clock
        /\ \/ Fail(t, "InvalidParameter")
           \/ Answer(t, "Ok")
           \/ \E error \in HandleAbbErrors : Fail(t, error)
    BY <1>8 DEF Dispatch
  <2>2. "InvalidParameter" \in WireErrors /\ "Ok" \in Codes
    BY DEF WireErrors, Codes
  <2> QED BY <1>1, <2>1, <2>2, AnswerType, FailType, ConstantsAssumption
<1>9. CASE Send(t)
  BY <1>1, <1>9, ReturnType DEF Send
<1> QED
  BY <1>2, <1>3, <1>4, <1>5, <1>6, <1>7, <1>8, <1>9 DEF Step

-----------------------------------------------------------------------------
\* The claim, the clock and the history keep their types too.
LEMMA TypeStep == TypeInv /\ [Next]_vars => TypeInv'
PROOF
<1> SUFFICES ASSUME TypeInv, [Next]_vars PROVE TypeInv'
  OBVIOUS
<1>1. /\ LocalInv
      /\ clock \in 0..MaxClock /\ clock \in Int /\ MaxClock \in Nat
      /\ claim \in Claims /\ claim.claimed_at \in Nat /\ claim.claimed_at <= clock
      /\ claim_lock \in Threads \cup {NoThread}
      /\ granted_at \in 0..clock
  BY ConstantsAssumption DEF TypeInv, TypeOK, LocalInv, LocalTypeOK, Claims
<1>2. CASE UNCHANGED vars
  BY <1>2 DEF TypeInv, TypeOK, InCall, vars
<1>3. CASE Tick
  <2>1. /\ clock' = clock + 1 /\ clock < MaxClock
        /\ UNCHANGED <<claim, claim_lock, pc, call, granted_at>>
    BY <1>3 DEF Tick
  <2>2. \A t \in Threads : call[t].now \in Nat /\ call[t].now <= clock
    BY <1>1 DEF LocalInv, LocalTypeOK, Calls
  <2>3. \A t \in Threads : call'[t].now <= clock'
    BY <1>1, <2>1, <2>2
  <2>4. clock' \in 0..MaxClock /\ granted_at' \in 0..clock' /\ claim'.claimed_at <= clock'
    BY <1>1, <2>1
  <2> QED BY <1>1, <2>1, <2>3, <2>4 DEF TypeInv, TypeOK, InCall, LocalInv, LocalTypeOK
<1>4. ASSUME NEW t \in Threads, Step(t) PROVE TypeInv'
  <2>1. LocalInv'
    BY <1>4, StepLocals
  <2>2. /\ clock' = clock
        /\ claim_lock' \in Threads \cup {NoThread}
    BY <1>1, <1>4 DEF Step, ServeOne, ReceiveFails, Receive, AnswerDiscovery,
       ConfigureCheck, HoldClaim, ConfigureClaim, Dispatch, Send
  <2>3. /\ claim' \in Claims /\ claim'.claimed_at <= clock
        /\ granted_at' \in 0..clock
    <3>1. CASE ConfigureClaim(t)
      <4>1. /\ call[t].stream \in Clients
            /\ call[t].now \in Nat /\ call[t].now <= clock
        BY <1>1, <3>1 DEF LocalInv, LocalTypeOK, InCall, Calls, Clients, ConfigureClaim
      <4>2. \/ /\ claim' = [claimant |-> call[t].stream, claimed_at |-> call[t].now]
               /\ granted_at' = clock
            \/ UNCHANGED <<claim, granted_at>>
        BY <3>1 DEF ConfigureClaim
      <4> QED BY <1>1, <4>1, <4>2 DEF Claims
    <3>2. CASE ~ConfigureClaim(t)
      BY <1>1, <1>4, <3>2 DEF Step, ServeOne, ReceiveFails, Receive, AnswerDiscovery,
         ConfigureCheck, Dispatch, Send
    <3> QED BY <3>1, <3>2
  <2> QED BY <1>1, <2>1, <2>2, <2>3 DEF TypeInv, TypeOK, LocalInv, LocalTypeOK
<1> QED BY <1>2, <1>3, <1>4 DEF Next

\* Every field of UdpRcServer and every local of serve_one keeps its type,
\* whatever calls interleave; in particular no claim is ever held by the
\* broadcast address or dated in the future.
THEOREM TypeInvariant == Spec => []TypeInv
PROOF
<1>1. Init => TypeInv
  BY NoCallType, ConstantsAssumption
     DEF Init, TypeInv, TypeOK, InCall, NoClaim, NoCall, Claims, PCs
<1> QED BY <1>1, TypeStep, PTL DEF Spec

\* The type invariant of the run.
THEOREM TypeCorrect == Spec => []TypeOK
PROOF
<1>1. TypeInv => TypeOK
  BY DEF TypeInv
<1> QED BY <1>1, TypeInvariant, PTL

-----------------------------------------------------------------------------
\* Only the thread between the two gates holds the claim's mutex, so the claim
\* it was let through on is the claim it finds.
ClaimGuarded == \A t \in Threads : pc[t] = "claim" => claim_lock = t

GateInv == ClaimGuarded /\ GatesAgree

\* At most one thread is between the gates, and nobody else stores a claim.
LEMMA GateStep == TypeInv /\ GateInv /\ [Next]_vars => GateInv'
PROOF
<1> SUFFICES ASSUME TypeInv, GateInv, [Next]_vars PROVE GateInv'
  OBVIOUS
<1>1. CASE UNCHANGED vars
  BY <1>1 DEF GateInv, ClaimGuarded, GatesAgree, vars
<1>2. CASE Tick
  BY <1>2 DEF GateInv, ClaimGuarded, GatesAgree, Tick
<1>3. ASSUME NEW t \in Threads, Step(t) PROVE GateInv'
  <2>0. /\ NoThread \notin Threads
        /\ pc \in [Threads -> PCs] /\ call \in [Threads -> Calls]
    BY ConstantsAssumption DEF TypeInv, TypeOK
  <2>1. CASE ConfigureCheck(t)
    <3>1. /\ claim_lock = NoThread /\ claim' = claim
          /\ \A u \in Threads : pc[u] # "claim"
      BY <2>0, <2>1 DEF ConfigureCheck, GateInv, ClaimGuarded
    <3>2. \A u \in Threads : u # t => pc'[u] = pc[u]
      BY <2>0, <2>1 DEF ConfigureCheck, Fail, Answer, Return, Goto
    <3>3. CASE check_discovery_access(claim, call[t].stream, "Configure", call[t].now) = "Ok"
      <4>1. claim_lock' = t /\ call'[t] = call[t]
        BY <2>0, <2>1, <3>3 DEF ConfigureCheck, HoldClaim, Goto
      <4>2. try_claim_discovery_stream(claim, call[t].stream, call[t].now) = "Ok"
        BY <3>3, Verdicts
      <4>3. try_claim_discovery_stream(claim', call'[t].stream, call'[t].now) = "Ok"
        BY <3>1, <4>1, <4>2
      <4> QED BY <3>1, <3>2, <4>1, <4>3 DEF GateInv, ClaimGuarded, GatesAgree
    <3>4. CASE check_discovery_access(claim, call[t].stream, "Configure", call[t].now) # "Ok"
      <4>1. pc'[t] # "claim"
        BY <2>0, <2>1, <3>4 DEF ConfigureCheck, Fail, Answer, Return, Goto
      <4> QED BY <3>1, <3>2, <4>1 DEF GateInv, ClaimGuarded, GatesAgree
    <3> QED BY <3>3, <3>4
  <2>2. CASE ConfigureClaim(t)
    <3>1. /\ pc'[t] # "claim"
          /\ \A u \in Threads : u # t => pc'[u] = pc[u]
      BY <2>0, <2>2 DEF ConfigureClaim, Fail, Answer, Return, Goto
    <3>2. \A u \in Threads : pc[u] = "claim" => u = t
      BY <2>2 DEF ConfigureClaim, GateInv, ClaimGuarded
    <3> QED BY <3>1, <3>2 DEF GateInv, ClaimGuarded, GatesAgree
  <2>3. CASE ~ConfigureCheck(t) /\ ~ConfigureClaim(t)
    <3>1. /\ UNCHANGED <<claim, claim_lock>>
          /\ pc[t] # "claim" /\ pc'[t] # "claim"
          /\ \A u \in Threads : u # t => pc'[u] = pc[u] /\ call'[u] = call[u]
      BY <1>3, <2>0, <2>3 DEF Step, ServeOne, ReceiveFails, Receive, AnswerDiscovery,
         Dispatch, Send, Fail, Answer, Return, Goto
    <3>2. ClaimGuarded'
      BY <3>1 DEF GateInv, ClaimGuarded
    <3>3. ASSUME NEW u \in Threads, pc'[u] = "claim"
          PROVE try_claim_discovery_stream(claim', call'[u].stream, call'[u].now) = "Ok"
      <4>1. pc[u] = "claim" /\ call'[u] = call[u]
        BY <3>1, <3>3
      <4>2. try_claim_discovery_stream(claim, call[u].stream, call[u].now) = "Ok"
        BY <4>1 DEF GateInv, GatesAgree
      <4> QED BY <3>1, <4>1, <4>2
    <3> QED BY <3>2, <3>3 DEF GateInv, GatesAgree
  <2> QED BY <2>1, <2>2, <2>3
<1> QED BY <1>1, <1>2, <1>3 DEF Next

\* What passes check_discovery_access is granted by try_claim_discovery_stream.
THEOREM GatesAlwaysAgree == Spec => []GatesAgree
PROOF
<1>1. Init => GateInv
  BY DEF Init, GateInv, ClaimGuarded, GatesAgree
<1>2. GateInv => GatesAgree
  BY DEF GateInv
<1> QED BY <1>1, <1>2, GateStep, TypeInvariant, PTL DEF Spec

-----------------------------------------------------------------------------
\* A step of the server is a step of the lease, or none.
LEMMA LeaseStep == TypeInv /\ [Next]_vars =>
    [Lease!Next]_<<claim.claimant, claim.claimed_at, clock>>
PROOF
<1> SUFFICES ASSUME TypeInv, [Next]_vars
             PROVE  [Lease!Next]_<<claim.claimant, claim.claimed_at, clock>>
  OBVIOUS
<1>1. CASE UNCHANGED vars
  BY <1>1 DEF vars
<1>2. CASE Tick
  BY <1>2 DEF Tick, Lease!Next, Lease!Pass
<1>3. ASSUME NEW t \in Threads, Step(t)
      PROVE  [Lease!Next]_<<claim.claimant, claim.claimed_at, clock>>
  <2>1. CASE ConfigureClaim(t) /\ claim' # claim
    <3>1. /\ try_claim_discovery_stream(claim, call[t].stream, call[t].now) = "Ok"
          /\ claim' = [claimant |-> call[t].stream, claimed_at |-> call[t].now]
          /\ clock' = clock
      BY <2>1 DEF ConfigureClaim
    <3>2. /\ call[t].stream \in Clients
          /\ call[t].now \in 0..clock
      <4>1. /\ pc[t] = "claim" /\ clock \in Nat
            /\ call[t] \in Calls /\ call[t].now <= clock
        BY <2>1, ConstantsAssumption DEF ConfigureClaim, TypeInv, TypeOK
      <4> QED BY <4>1 DEF TypeInv, InCall, Calls, Clients
    <3>3. Lease!Free(call[t].stream, call[t].now)
      BY <3>1, Verdicts DEF claim_permits, has_lapsed, Lease!Free, Lease!Elapsed
    <3>4. Lease!Grant(call[t].stream)
      BY <3>1, <3>2, <3>3 DEF Lease!Grant
    <3> QED BY <3>2, <3>4 DEF Lease!Next
  <2>2. CASE claim' = claim
    <3>1. clock' = clock
      BY <1>3 DEF Step, ServeOne, ReceiveFails, Receive, AnswerDiscovery,
         ConfigureCheck, ConfigureClaim, Dispatch, Send
    <3> QED BY <2>2, <3>1
  <2>3. ConfigureClaim(t) \/ claim' = claim
    BY <1>3 DEF Step, ServeOne, ReceiveFails, Receive, AnswerDiscovery,
       ConfigureCheck, Dispatch, Send
  <2> QED BY <2>1, <2>2, <2>3
<1> QED BY <1>1, <1>2, <1>3 DEF Next

\* The discovery claim implements the lease: a takeover waits for the timeout,
\* counted between the `now` of the two calls, for any number of threads.
THEOREM ClaimImplementsLease == Spec => ClaimIsLease
PROOF
<1>1. Init => Lease!Init
  BY DEF Init, NoClaim, Lease!Init
<1> QED BY <1>1, LeaseStep, TypeInvariant, PTL DEF Spec, ClaimIsLease, Lease!Spec

-----------------------------------------------------------------------------
\* A refusal as unauthorised means that another client's claim was running at
\* the `now` of the attempt.
THEOREM RefusalsAreJustified == Spec => RefusedOnlyWhileLive
PROOF
<1> DEFINE A == \A t \in Threads :
         /\ pc[t] = "dispatch"
         /\ is_discovery_configure_request(InHand(call[t]))
         /\ call'[t].replies = Append(call[t].replies, "UnauthorizedAccess")
         => /\ claim.claimant \notin {NoStream, call[t].stream}
            /\ call[t].now < claim.claimed_at + Timeout
<1>1. ASSUME TypeInv, [Next]_vars, NEW t \in Threads,
             pc[t] = "dispatch",
             is_discovery_configure_request(InHand(call[t])),
             call'[t].replies = Append(call[t].replies, "UnauthorizedAccess")
      PROVE  /\ claim.claimant \notin {NoStream, call[t].stream}
             /\ call[t].now < claim.claimed_at + Timeout
  <2> DEFINE verdict == check_discovery_access(claim, call[t].stream, "Configure", call[t].now)
  <2>1. /\ pc \in [Threads -> PCs] /\ call \in [Threads -> Calls]
        /\ call[t].replies \in Seq(Codes) /\ call[t].now \in Int
        /\ claim.claimed_at \in Int /\ Timeout \in Nat
    BY <1>1, ConstantsAssumption DEF TypeInv, TypeOK, Calls, Claims
  <2>2. call'[t] # call[t]
    BY <1>1, <2>1
  <2>3. Step(t)
    <3>1. ~UNCHANGED vars /\ ~Tick
      BY <2>2 DEF vars, Tick
    <3>2. PICK u \in Threads : Step(u)
      BY <1>1, <3>1 DEF Next
    <3>3. u # t => call'[t] = call[t]
      BY <2>1, <3>2 DEF Step, ServeOne, ReceiveFails, Receive, AnswerDiscovery,
         ConfigureCheck, ConfigureClaim, Dispatch, Send, Fail, Answer, Return, Goto
    <3> QED BY <2>2, <3>2, <3>3
  <2>4. ConfigureCheck(t)
    BY <1>1, <2>3 DEF Step, ServeOne, ReceiveFails, Receive, AnswerDiscovery,
       ConfigureClaim, Dispatch, Send, is_discovery_request, is_discovery_configure_request
  <2>5. verdict # "Ok" /\ Fail(t, verdict)
    <3>1. verdict = "Ok" => call'[t] = call[t]
      BY <2>1, <2>4 DEF ConfigureCheck, Goto
    <3> QED BY <2>2, <2>4, <3>1 DEF ConfigureCheck
  <2>6. verdict \in {"InvalidParameter", "UnauthorizedAccess"}
    BY <2>5, Verdicts
  <2>7. call'[t].replies = Append(call[t].replies, verdict)
    <3>h. HIDE DEF verdict
    <3>1. Answer(t, verdict)
      BY <2>5, <2>6 DEF Fail, WireErrors
    <3>2. call' = [call EXCEPT ![t] = [call[t] EXCEPT !.replies = Append(@, verdict)]]
      BY <3>1 DEF Answer, Goto
    <3> QED BY <2>1, <3>2 DEF Calls
  <2>8. verdict = "UnauthorizedAccess"
    <3>h. HIDE DEF verdict
    <3>1. "UnauthorizedAccess" \in Codes /\ verdict \in Codes
      BY <2>6 DEF Codes, WireErrors
    <3>2. Append(call[t].replies, verdict) = Append(call[t].replies, "UnauthorizedAccess")
      BY <1>1, <2>7
    <3> QED BY <2>1, <3>1, <3>2
  <2>9. ~claim_permits(claim, call[t].stream, call[t].now)
    BY <2>8 DEF check_discovery_access
  <2> QED BY <2>1, <2>9 DEF claim_permits, has_lapsed
<1>2. TypeInv /\ [Next]_vars => [A]_vars
  BY <1>1
<1> QED BY <1>2, TypeInvariant, PTL DEF Spec, RefusedOnlyWhileLive

-----------------------------------------------------------------------------
(* How far ClaimSurvivesTimeout is from true.  The claim is timed by the `now`
   of the call that stored it and ended by the `now` of the call that takes it
   over, and `now` is as old as the wait for the datagram was long. *)

\* No request is dispatched more than delay ticks after its call's `now`.
ServedWithin(delay) ==
    \A t \in Threads : pc[t] \in {"dispatch", "claim"} => clock <= call[t].now + delay

\* The recorded claim is at most delay older than its grant.
GrantedWithin(delay) ==
    claim.claimant # NoStream => granted_at <= claim.claimed_at + delay

\* What a step that stores a claim knows.
LEMMA ClaimStored ==
    ASSUME TypeInv, NEW t \in Threads, Step(t), claim' # claim
    PROVE  /\ pc[t] = "claim" /\ claim' = [claimant |-> call[t].stream, claimed_at |-> call[t].now]
           /\ granted_at' = clock
           /\ claim_permits(claim, call[t].stream, call[t].now)
           /\ call[t].now \in 0 .. clock /\ clock \in Nat
PROOF
<1>1. ConfigureClaim(t)
  BY DEF Step, ServeOne, ReceiveFails, Receive, AnswerDiscovery, ConfigureCheck, Dispatch, Send
<1>2. try_claim_discovery_stream(claim, call[t].stream, call[t].now) = "Ok"
  BY <1>1 DEF ConfigureClaim
<1>3. call[t] \in Calls /\ call[t].now <= clock /\ clock \in Nat
  BY ConstantsAssumption DEF TypeInv, TypeOK
<1> QED BY <1>1, <1>2, <1>3, Verdicts DEF ConfigureClaim, Calls

LEMMA SkewStep ==
    ASSUME NEW delay \in Nat, TypeInv, GrantedWithin(delay), ServedWithin(delay), [Next]_vars
    PROVE  /\ GrantedWithin(delay)'
           /\ claim.claimant # NoStream /\ claim'.claimant # claim.claimant =>
                 clock + delay >= granted_at + Timeout
PROOF
<1>1. /\ clock \in Nat /\ claim.claimed_at \in Nat /\ granted_at \in Nat /\ Timeout \in Nat
  BY ConstantsAssumption DEF TypeInv, TypeOK, Claims
<1>2. CASE UNCHANGED <<claim, granted_at>>
  BY <1>2 DEF GrantedWithin
<1>3. ASSUME NEW t \in Threads, Step(t), claim' # claim
      PROVE  /\ GrantedWithin(delay)'
             /\ claim.claimant # NoStream /\ claim'.claimant # claim.claimant =>
                   clock + delay >= granted_at + Timeout
  <2>1. /\ pc[t] = "claim" /\ claim' = [claimant |-> call[t].stream, claimed_at |-> call[t].now]
        /\ granted_at' = clock /\ claim_permits(claim, call[t].stream, call[t].now)
        /\ call[t].now \in 0 .. clock
    BY <1>3, ClaimStored
  <2>2. clock <= call[t].now + delay
    BY <2>1 DEF ServedWithin
  <2>3. GrantedWithin(delay)'
    BY <2>1, <2>2 DEF GrantedWithin
  <2>4. ASSUME claim.claimant # NoStream, claim'.claimant # claim.claimant
        PROVE  clock + delay >= granted_at + Timeout
    <3>1. has_lapsed(claim, call[t].now)
      BY <2>1, <2>4 DEF claim_permits
    <3>2. granted_at <= claim.claimed_at + delay
      BY <2>4 DEF GrantedWithin
    <3>3. call[t].now >= claim.claimed_at + Timeout \/ Timeout = 0
      BY <1>1, <2>1, <3>1 DEF has_lapsed
    <3>4. granted_at <= clock
      BY <1>1 DEF TypeInv, TypeOK
    <3> QED BY <1>1, <2>1, <3>2, <3>3, <3>4
  <2> QED BY <2>3, <2>4
<1>4. ASSUME NEW t \in Threads, Step(t), claim' = claim, granted_at' # granted_at
      PROVE  GrantedWithin(delay)'
  <2>1. /\ ConfigureClaim(t) /\ claim' = [claimant |-> call[t].stream, claimed_at |-> call[t].now]
        /\ pc[t] = "claim" /\ granted_at' = clock
    BY <1>4 DEF Step, ServeOne, ReceiveFails, Receive, AnswerDiscovery, ConfigureCheck,
       ConfigureClaim, Dispatch, Send
  <2>2. clock <= call[t].now + delay
    BY <2>1 DEF ServedWithin
  <2> QED BY <2>1, <2>2 DEF GrantedWithin
<1>5. Tick \/ UNCHANGED vars => UNCHANGED <<claim, granted_at>>
  BY DEF Tick, vars
<1> QED BY <1>2, <1>3, <1>4, <1>5 DEF Next, GrantedWithin

\* DISCOVERY_TIME_OUT is kept up to the time a call spends between its `now`
\* and its dispatch: calls that are served at once keep it exactly, and a server
\* whose calls wait for datagrams as long as the timeout need not keep it at all.
THEOREM ClaimSurvivesUpToDelay ==
    ASSUME NEW CONSTANT delay \in Nat
    PROVE  Spec /\ []ServedWithin(delay) =>
             [][claim.claimant # NoStream /\ claim'.claimant # claim.claimant =>
                  clock + delay >= granted_at + Timeout]_vars
PROOF
<1> DEFINE A == claim.claimant # NoStream /\ claim'.claimant # claim.claimant =>
                   clock + delay >= granted_at + Timeout
           Granted == GrantedWithin(delay)
           Served == ServedWithin(delay)
<1>1. Init => Granted
  BY DEF Init, NoClaim, GrantedWithin
<1>2. TypeInv /\ Granted /\ Served /\ [Next]_vars => Granted' /\ [A]_vars
  BY SkewStep
<1> HIDE DEF A, Granted, Served
<1>3. Spec /\ []Served => [][A]_vars
  BY <1>1, <1>2, TypeInvariant, PTL DEF Spec
<1> QED BY <1>3 DEF A, Served

\* Served without delay, a claim survives its timeout as documented.
THEOREM PromptClaimsSurvive == Spec /\ []ServedWithin(0) => ClaimSurvivesTimeout
PROOF
<1> DEFINE A == claim.claimant # NoStream /\ claim'.claimant # claim.claimant =>
                   clock >= granted_at + Timeout
           Granted == GrantedWithin(0)
           Served == ServedWithin(0)
<1>1. Init => Granted
  BY DEF Init, NoClaim, GrantedWithin
<1>2. TypeInv /\ Granted /\ Served /\ [Next]_vars => Granted' /\ [A]_vars
  <2> SUFFICES ASSUME TypeInv, Granted, Served, [Next]_vars PROVE Granted' /\ A
    OBVIOUS
  <2>1. /\ GrantedWithin(0)'
        /\ claim.claimant # NoStream /\ claim'.claimant # claim.claimant =>
              clock + 0 >= granted_at + Timeout
    BY SkewStep
  <2>2. clock \in Nat
    BY ConstantsAssumption DEF TypeInv, TypeOK
  <2> QED BY <2>1, <2>2
<1> HIDE DEF A, Granted, Served
<1>3. Spec /\ []Served => [][A]_vars
  BY <1>1, <1>2, TypeInvariant, PTL DEF Spec
<1> QED BY <1>3 DEF A, Served, ClaimSurvivesTimeout
=============================================================================
