------------------------------ MODULE RcServer ------------------------------
(***************************************************************************)
(* The in-process RC Server (src/src/mock.rs, struct RcServer), shared by  *)
(* threads that answer frames, register endpoints, move the lifecycle and  *)
(* name the root client, all at once.  Every field of the struct has a     *)
(* mutex or an atomic of its own, and one call takes them one after the    *)
(* other: an action here is what happens between two of those accesses.    *)
(***************************************************************************)
EXTENDS Lifecycle, Sequences

CONSTANTS
    Threads,          \* the threads that hold an Arc<RcServer>
    NoThread,
    May,              \* May[t]: the calls thread t makes
    Streams,          \* StreamIds
    NoStream,
    Buses,            \* byte_bus_id values
    MaxBus,           \* BYTE_MESSAGE_INFO_11BIT_MAX
    Impls,            \* Endpoint objects
    NoImpl,
    Blocks,           \* payloads that decode as a GeneralRegisters block
    Short,            \* any shorter payload, the empty one included
    Frames,           \* the request frames that arrive
    EndpointErrors,   \* the errors an Endpoint implementation returns
    MaxEndpointId,    \* bound: no registration starts past this id
    SeqModulus        \* sequence_num goes out as a u8: 256

CallKinds == {"frame", "register", "transition", "root"}
Payloads == Blocks \cup {Short}
Requests == [bus : Buses, write : BOOLEAN, txn : Nat, payload : Payloads]
EndpointIds == 0..MaxEndpointId
NoId == -1
Pairs == Streams \X Buses

ASSUME ConstantsAssumption ==
    /\ NoThread \notin Threads
    /\ NoStream \notin Streams
    /\ NoImpl \notin Impls
    /\ Short \notin Blocks
    /\ Buses \subseteq Nat
    /\ MaxBus \in Nat
    /\ May \in [Threads -> SUBSET CallKinds]
    /\ Frames \subseteq Seq(Requests)
    /\ <<>> \notin Frames
    /\ EndpointErrors \subseteq WireErrors \cup LocalErrors
    /\ MaxEndpointId \in Nat
    /\ SeqModulus \in Nat \ {0}
    /\ Blocks # {}

VARIABLES
    state, state_lock,              \* Mutex<RcServerState> and who holds it
    general,                        \* Mutex<GeneralRegisters>
    root_client,                    \* Mutex<Option<StreamId>>
    endpoints,                      \* Mutex<EndpointTable>
    endpoint_impls,                 \* Mutex<HashMap<EndpointId, Arc<dyn Endpoint>>>
    next_endpoint_id,               \* AtomicU32
    sequence_num,                   \* AtomicU32, seen only as a u8
    buf,                            \* what each Endpoint object holds
    pc, call,                       \* where each thread is and its locals
    owner, roots                    \* history, read by no action

shared == <<state, state_lock, general, root_client, endpoints,
            endpoint_impls, next_endpoint_id, sequence_num, buf>>
vars == <<shared, pc, call, owner, roots>>

Replies == [bus : Buses, txn : Nat, code : WireErrors \cup {"Ok"},
            payload : Payloads]

PCs == {"idle", "ep0_state", "ep0_check", "ep0_access", "lookup", "resolve",
        "access", "respond", "reg_table", "reg_count", "reg_store", "guard"}

\* The locals of the call a thread is in: one shape for every kind of call.
NoCall == [stream |-> NoStream, frame |-> <<>>, replies |-> <<>>,
           state |-> INITIAL, bus |-> 0, id |-> 0, impl |-> NoImpl,
           target |-> INITIAL]

Init ==
    /\ state = INITIAL
    /\ state_lock = NoThread
    /\ general \in Blocks
    /\ root_client = NoStream
    /\ endpoints = [p \in Pairs |-> NoId]
    /\ endpoint_impls = [i \in EndpointIds |-> NoImpl]
    /\ next_endpoint_id = 0
    /\ sequence_num = 0
    /\ buf = [e \in Impls |-> Short]
    /\ pc = [t \in Threads |-> "idle"]
    /\ call = [t \in Threads |-> NoCall]
    /\ owner = [p \in Pairs |-> NoImpl]
    /\ roots = [t \in Threads |-> {}]

\* Thread t goes to label with the locals c.
Goto(t, label, c) ==
    /\ pc' = [pc EXCEPT ![t] = label]
    /\ call' = [call EXCEPT ![t] = c]

Return(t) == Goto(t, "idle", NoCall)

-----------------------------------------------------------------------------
(* handle_ntscf_frame: the requests of a frame go through handle_abb in wire
   order.  The request in hand is the first one without a reply. *)
InHand(c) == c.frame[Len(c.replies) + 1]

\* route_byte_bus_id, or the end of the batch.
Route(c) ==
    IF Len(c.replies) = Len(c.frame) THEN "respond"
    ELSE IF InHand(c).bus = EP0_BYTE_BUS_ID THEN "ep0_state" ELSE "lookup"

\* Broken variant: the reply starts from a default header.
ReplyTo_default(request, code, payload) ==
    [bus |-> request.bus, txn |-> 0, code |-> code, payload |-> payload]

\* build_response_info and build_error_response both echo the request's
\* byte_bus_id and transaction_num.
ReplyTo(request, code, payload) ==
    [bus |-> request.bus, txn |-> request.txn, code |-> code, payload |-> payload]

Answer(t, code, payload) ==
    LET c == [call[t] EXCEPT !.replies = Append(@, ReplyTo(InHand(call[t]), code, payload)),
                             !.id = 0, !.impl = NoImpl, !.state = INITIAL]
    IN /\ Goto(t, Route(c), c)
       /\ roots' = [roots EXCEPT ![t] = {}]

\* Broken variant: a local error is retried in place of leaving.
Fail_retrying(t, error) ==
    IF error \in WireErrors
    THEN Answer(t, error, Short)
    ELSE Goto(t, Route(call[t]), call[t]) /\ UNCHANGED roots

\* An error without a wire code leaves handle_ntscf_frame at once: the replies
\* made so far are dropped.
Fail(t, error) ==
    IF error \in WireErrors
    THEN Answer(t, error, Short)
    ELSE /\ Return(t)
         /\ roots' = [roots EXCEPT ![t] = {}]

HandleFrame(t) ==
    /\ pc[t] = "idle"
    /\ "frame" \in May[t]
    /\ \E s \in Streams, f \in Frames :
         LET c == [NoCall EXCEPT !.stream = s, !.frame = f]
         IN Goto(t, Route(c), c)
    /\ UNCHANGED <<shared, owner, roots>>

\* handle_abb, EP0: self.state() waits for the state mutex, copies, releases it.
Ep0ReadState(t) ==
    /\ pc[t] = "ep0_state"
    /\ state_lock = NoThread
    /\ Goto(t, "ep0_check", [call[t] EXCEPT !.state = state])
    /\ roots' = [roots EXCEPT ![t] = {root_client}]
    /\ UNCHANGED <<shared, owner>>

\* The root client is copied under its own mutex; the decision is made on the
\* two copies.
Ep0Check(t) ==
    /\ pc[t] = "ep0_check"
    /\ LET verdict == check_ep0_access_for_stream(call[t].state, "General",
                          InHand(call[t]).write, call[t].stream, root_client)
       IN IF verdict = "Ok"
          THEN Goto(t, "ep0_access", call[t]) /\ UNCHANGED roots
          ELSE Fail(t, verdict)
    /\ UNCHANGED <<shared, owner>>

Ep0Read(t) ==
    /\ pc[t] = "ep0_access"
    /\ ~InHand(call[t]).write
    /\ Answer(t, "Ok", general)
    /\ UNCHANGED <<shared, owner>>

Ep0Write(t) ==
    /\ pc[t] = "ep0_access"
    /\ InHand(call[t]).write
    /\ InHand(call[t]).payload \in Blocks
    /\ general' = InHand(call[t]).payload
    /\ Answer(t, "Ok", Short)
    /\ UNCHANGED <<state, state_lock, root_client, endpoints, endpoint_impls,
                   next_endpoint_id, sequence_num, buf, owner>>

Ep0WriteShort(t) ==
    /\ pc[t] = "ep0_access"
    /\ InHand(call[t]).write
    /\ InHand(call[t]).payload \notin Blocks
    /\ Fail(t, "ShortFrame")
    /\ UNCHANGED <<shared, owner>>

\* handle_abb, device endpoint: the table, then the map of implementations,
\* each under its own mutex.
Lookup(t) ==
    /\ pc[t] = "lookup"
    /\ LET id == endpoints[<<call[t].stream, InHand(call[t]).bus>>]
       IN IF id = NoId
          THEN Fail(t, "EpNotFound")
          ELSE Goto(t, "resolve", [call[t] EXCEPT !.id = id]) /\ UNCHANGED roots
    /\ UNCHANGED <<shared, owner>>

Resolve(t) ==
    /\ pc[t] = "resolve"
    /\ LET e == endpoint_impls[call[t].id]
       IN IF e = NoImpl
          THEN Fail(t, "EpNotFound")
          ELSE Goto(t, "access", [call[t] EXCEPT !.impl = e]) /\ UNCHANGED roots
    /\ UNCHANGED <<shared, owner>>

DeviceRead(t) ==
    /\ pc[t] = "access"
    /\ ~InHand(call[t]).write
    /\ Answer(t, "Ok", buf[call[t].impl])
    /\ UNCHANGED <<shared, owner>>

DeviceWrite(t) ==
    /\ pc[t] = "access"
    /\ InHand(call[t]).write
    /\ buf' = [buf EXCEPT ![call[t].impl] = InHand(call[t]).payload]
    /\ Answer(t, "Ok", Short)
    /\ UNCHANGED <<state, state_lock, general, root_client, endpoints,
                   endpoint_impls, next_endpoint_id, sequence_num, owner>>

\* MockEndpoint never errs; the Endpoints that wrap another one may.  A read
\* reply too long for encode_acf_abb leaves the batch the same way.
DeviceError(t) ==
    /\ pc[t] = "access"
    /\ \E error \in EndpointErrors : Fail(t, error)
    /\ UNCHANGED <<shared, owner>>

\* Broken variant: the counter goes out without its truncation to a u8.
Respond_untruncated(t) ==
    /\ pc[t] = "respond"
    /\ sequence_num' = sequence_num + 1
    /\ Return(t)
    /\ UNCHANGED <<state, state_lock, general, root_client, endpoints,
                   endpoint_impls, next_endpoint_id, buf, owner, roots>>

\* Every request has its reply: number the response frame and return it, or the
\* error of encode_ntscf_frame.
Respond(t) ==
    /\ pc[t] = "respond"
    /\ sequence_num' = (sequence_num + 1) % SeqModulus
    /\ Return(t)
    /\ UNCHANGED <<state, state_lock, general, root_client, endpoints,
                   endpoint_impls, next_endpoint_id, buf, owner, roots>>

-----------------------------------------------------------------------------
(* register_endpoint: load the id, register the pair under the table's mutex,
   count the id, store the implementation under the map's mutex. *)
RegisterLoadId(t) ==
    /\ pc[t] = "idle"
    /\ "register" \in May[t]
    /\ next_endpoint_id <= MaxEndpointId
    /\ \E s \in Streams, b \in Buses, e \in Impls :
         Goto(t, "reg_table", [NoCall EXCEPT !.stream = s, !.bus = b, !.impl = e,
                                             !.id = next_endpoint_id])
    /\ UNCHANGED <<shared, owner, roots>>

\* Broken variant: a taken pair is registered again.
register_overwriting(p) == p[2] <= MaxBus

\* EndpointTable::register: InvalidSize and EpError leave the table alone.
register(p) == p[2] <= MaxBus /\ endpoints[p] = NoId

RegisterInTable(t) ==
    LET p == <<call[t].stream, call[t].bus>>
    IN /\ pc[t] = "reg_table"
       /\ IF register(p)
          THEN /\ endpoints' = [endpoints EXCEPT ![p] = call[t].id]
               /\ owner' = [owner EXCEPT ![p] = call[t].impl]
               /\ Goto(t, "reg_count", call[t])
          ELSE Return(t) /\ UNCHANGED <<endpoints, owner>>
       /\ UNCHANGED <<state, state_lock, general, root_client, endpoint_impls,
                      next_endpoint_id, sequence_num, buf, roots>>

\* Broken variant: the id is not counted.
RegisterCountId_missing(t) ==
    /\ pc[t] = "reg_count"
    /\ Goto(t, "reg_store", call[t])
    /\ UNCHANGED <<shared, owner, roots>>

RegisterCountId(t) ==
    /\ pc[t] = "reg_count"
    /\ next_endpoint_id' = next_endpoint_id + 1
    /\ Goto(t, "reg_store", call[t])
    /\ UNCHANGED <<state, state_lock, general, root_client, endpoints,
                   endpoint_impls, sequence_num, buf, owner, roots>>

\* Broken variant: stored under the counter's value after the increment.
RegisterStoreImpl_late(t) ==
    /\ pc[t] = "reg_store"
    /\ endpoint_impls' = [endpoint_impls EXCEPT ![next_endpoint_id] = call[t].impl]
    /\ Return(t)
    /\ UNCHANGED <<state, state_lock, general, root_client, endpoints,
                   next_endpoint_id, sequence_num, buf, owner, roots>>

RegisterStoreImpl(t) ==
    /\ pc[t] = "reg_store"
    /\ endpoint_impls' = [endpoint_impls EXCEPT ![call[t].id] = call[t].impl]
    /\ Return(t)
    /\ UNCHANGED <<state, state_lock, general, root_client, endpoints,
                   next_endpoint_id, sequence_num, buf, owner, roots>>

-----------------------------------------------------------------------------
(* try_transition keeps the state mutex from its read of the state, through the
   caller's consistency closure, to its store. *)
\* Broken variants: the state is read and stored under two separate locks, or
\* the lock is kept.
LockState_apart(t) == UNCHANGED state_lock
UnlockState_kept(t) == UNCHANGED state_lock

LockState(t) ==
    /\ state_lock = NoThread
    /\ state_lock' = t

UnlockState(t) ==
    /\ state_lock' = NoThread

TransitionBegin(t) ==
    /\ pc[t] = "idle"
    /\ "transition" \in May[t]
    /\ LockState(t)
    /\ \E target \in RcServerStates :
         Goto(t, "guard", [NoCall EXCEPT !.state = state, !.target = target])
    /\ UNCHANGED <<state, general, root_client, endpoints, endpoint_impls,
                   next_endpoint_id, sequence_num, buf, owner, roots>>

TransitionEnd(t) ==
    /\ pc[t] = "guard"
    /\ \E consistent \in BOOLEAN :
         state' = IF try_transition(call[t].state, call[t].target, consistent) = "Ok"
                  THEN call[t].target ELSE state
    /\ UnlockState(t)
    /\ Return(t)
    /\ UNCHANGED <<general, root_client, endpoints, endpoint_impls,
                   next_endpoint_id, sequence_num, buf, owner, roots>>

SetRootClient(t) ==
    /\ pc[t] = "idle"
    /\ "root" \in May[t]
    /\ \E s \in Streams \cup {NoStream} :
         /\ root_client' = s
         /\ roots' = [u \in Threads |-> IF roots[u] = {} THEN {} ELSE roots[u] \cup {s}]
    /\ UNCHANGED <<state, state_lock, general, endpoints, endpoint_impls,
                   next_endpoint_id, sequence_num, buf, pc, call, owner>>

-----------------------------------------------------------------------------
\* The rest of a call once it has started.
HandleAbb(t) ==
    \/ Ep0ReadState(t) \/ Ep0Check(t) \/ Ep0Read(t) \/ Ep0Write(t) \/ Ep0WriteShort(t)
    \/ Lookup(t) \/ Resolve(t) \/ DeviceRead(t) \/ DeviceWrite(t) \/ DeviceError(t)

Continue(t) ==
    \/ HandleAbb(t) \/ Respond(t)
    \/ RegisterInTable(t) \/ RegisterCountId(t) \/ RegisterStoreImpl(t)
    \/ TransitionEnd(t)

Begin(t) ==
    HandleFrame(t) \/ RegisterLoadId(t) \/ TransitionBegin(t) \/ SetRootClient(t)

Next == \E t \in Threads : Begin(t) \/ Continue(t)

Spec == Init /\ [][Next]_vars

\* A thread inside a call keeps being scheduled; nothing makes it start another.
FairSpec == Spec /\ \A t \in Threads : WF_vars(Continue(t))

-----------------------------------------------------------------------------
SharedTypeOK ==
    /\ state \in RcServerStates
    /\ state_lock \in Threads \cup {NoThread}
    /\ general \in Blocks
    /\ root_client \in Streams \cup {NoStream}
    /\ endpoints \in [Pairs -> EndpointIds \cup {NoId}]
    /\ endpoint_impls \in [EndpointIds -> Impls \cup {NoImpl}]
    /\ next_endpoint_id \in Nat
    /\ sequence_num \in 0..(SeqModulus - 1)
    /\ buf \in [Impls -> Payloads]
    /\ owner \in [Pairs -> Impls \cup {NoImpl}]

Calls == [stream : Streams \cup {NoStream}, frame : Frames \cup {<<>>},
          replies : Seq(Replies), state : RcServerStates, bus : Buses \cup {0},
          id : EndpointIds, impl : Impls \cup {NoImpl}, target : RcServerStates]

LocalTypeOK ==
    /\ pc \in [Threads -> PCs]
    /\ call \in [Threads -> Calls]
    /\ roots \in [Threads -> SUBSET (Streams \cup {NoStream})]

\* Shape of the server's fields and of every thread's locals.
TypeOK == SharedTypeOK /\ LocalTypeOK

\* register_endpoint hands out fresh ids: two registered pairs never share an
\* EndpointId, however registrations interleave.
UniqueEndpointIds ==
    \A p, q \in Pairs : endpoints[p] = endpoints[q] /\ endpoints[p] # NoId => p = q

\* handle_abb takes the table's mutex, lets it go and takes the map's: whatever
\* was registered in between, the Endpoint it ends up calling is the one that
\* was registered under the request's own (stream_id, byte_bus_id).
ReachesRegisteredEndpoint ==
    \A t \in Threads : pc[t] = "access" =>
        call[t].impl = owner[<<call[t].stream, InHand(call[t]).bus>>]

\* Once register_endpoint has returned Ok the pair resolves to the Endpoint it
\* was given, for as long as the server lives.
RegisteredPairsResolve ==
    \A p \in Pairs :
        \/ endpoints[p] = NoId
        \/ endpoint_impls[endpoints[p]] = owner[p]
        \/ \E t \in Threads : /\ pc[t] \in {"reg_count", "reg_store"}
                            /\ <<call[t].stream, call[t].bus>> = p

\* handle_abb decides on copies of the state and of the root client: a write
\* it lets through to the general registers comes from a stream that was the
\* root client at some moment of that very request.
Ep0WriteAuthority ==
    \A t \in Threads : pc[t] = "ep0_access" /\ InHand(call[t]).write =>
        call[t].stream \in roots[t]

\* "An EP0 write from the root client succeeds in every state": a stream that
\* is the root client all through its EP0 write is never refused, whatever the
\* lifecycle does meanwhile.
RootIsNeverRefused ==
    [][\A t \in Threads :
         /\ pc[t] = "ep0_check" /\ pc'[t] # "ep0_check"
         /\ InHand(call[t]).write /\ roots[t] = {call[t].stream}
         => pc'[t] = "ep0_access"]_vars

\* A response frame carries one reply per request, in wire order, each echoing
\* the byte_bus_id and transaction_num of its own request.
RepliesInWireOrder ==
    \A t \in Threads : pc[t] = "respond" =>
        /\ Len(call[t].replies) = Len(call[t].frame)
        /\ \A i \in 1..Len(call[t].frame) :
              /\ call[t].replies[i].bus = call[t].frame[i].bus
              /\ call[t].replies[i].txn = call[t].frame[i].txn

\* Concurrent try_transition calls never move the server along a transition
\* that is_transition_defined excludes (no jump over HwConfigured, no way out
\* of RcpConfigured).
LifecycleSteps == [][state' # state => is_transition_defined(state, state')]_vars

\* W*: once the HwConfig registers are locked they stay locked.
HwConfigLockIsPermanent ==
    [][~is_register_writable(state, "HwConfig") =>
         ~is_register_writable(state', "HwConfig")]_vars

\* Nobody keeps the state mutex: every try_transition lets go of it, refused
\* ones included.
StateLockIsReleased ==
    \A t \in Threads : (state_lock = t) ~> (state_lock # t)

\* A frame is answered or refused unless lifecycle transitions keep taking the
\* state mutex for ever (std's mutex is not fair).
FrameCallsReturn ==
    <>[](state_lock = NoThread) =>
        \A t \in Threads : (call[t].frame # <<>>) ~> (pc[t] = "idle")

\* What the documentation says and concurrent callers can break: see README.
\* set_root_client: the root client is "the one stream permitted to write EP0".
OnlyRootWritesEp0 ==
    [][general' # general =>
         \E t \in Threads : pc[t] = "ep0_access" /\ call[t].stream = root_client]_vars
=============================================================================
