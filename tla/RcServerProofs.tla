--------------------------- MODULE RcServerProofs ---------------------------
(* Theorems about RcServer, for every number of threads, streams, buses and
   endpoints and for every set of frames. *)
EXTENDS RcServer, TLAPS

FramePCs == {"ep0_state", "ep0_check", "ep0_access", "lookup", "resolve", "access"}
RegisterPCs == {"reg_table", "reg_count", "reg_store"}

\* What a thread's locals hold at each point of a call: a request in hand while
\* a frame is dispatched, a pair and an Endpoint while one is registered.
InCall(t) ==
    /\ pc[t] \in FramePCs \cup {"respond"} =>
         call[t].stream \in Streams /\ call[t].frame \in Frames
    /\ pc[t] \in FramePCs => Len(call[t].replies) < Len(call[t].frame)
    /\ pc[t] = "respond" => Len(call[t].replies) = Len(call[t].frame)
    /\ pc[t] = "access" => call[t].impl \in Impls
    /\ pc[t] \in RegisterPCs =>
         call[t].stream \in Streams /\ call[t].bus \in Buses /\ call[t].impl \in Impls

TypeInv == TypeOK /\ \A t \in Threads : InCall(t)
LocalInv == LocalTypeOK /\ \A t \in Threads : InCall(t)

-----------------------------------------------------------------------------
(* Lemmas on the helpers the actions are built from. *)

\* The request in hand is one of the frame's requests.
LEMMA InHandIsRequest ==
    ASSUME NEW c, c.frame \in Frames, c.replies \in Seq(Replies),
           Len(c.replies) < Len(c.frame)
    PROVE  /\ InHand(c) \in Requests
           /\ InHand(c) = c.frame[Len(c.replies) + 1]
BY ConstantsAssumption DEF InHand

\* The empty call has the type of a call.
LEMMA NoCallType == NoCall \in Calls
BY ConstantsAssumption DEF NoCall, Calls, RcServerStates, INITIAL, EndpointIds

\* A reply to a request, added to the replies of a call, leaves a call.
LEMMA AnswerType ==
    ASSUME LocalInv, NEW t \in Threads, pc[t] \in FramePCs,
           NEW code \in WireErrors \cup {"Ok"}, NEW payload \in Payloads,
           Answer(t, code, payload)
    PROVE  LocalInv'
PROOF
<1> DEFINE reply == ReplyTo(InHand(call[t]), code, payload)
           c == [call[t] EXCEPT !.replies = Append(@, reply),
                                !.id = 0, !.impl = NoImpl, !.state = INITIAL]
<1>1. /\ call[t] \in Calls
      /\ call[t].stream \in Streams
      /\ call[t].frame \in Frames
      /\ Len(call[t].replies) < Len(call[t].frame)
  BY DEF LocalInv, LocalTypeOK, InCall
<1>2. reply \in Replies
  BY <1>1, InHandIsRequest DEF Calls, ReplyTo, Replies, Requests
<1>r. Append(call[t].replies, reply) \in Seq(Replies)
  <2> HIDE DEF reply
  <2> QED BY <1>1, <1>2 DEF Calls
<1>3. /\ c \in Calls /\ c.frame = call[t].frame /\ c.stream = call[t].stream
      /\ c.replies = Append(call[t].replies, reply)
  <2> HIDE DEF reply
  <2>1. INITIAL \in RcServerStates /\ 0 \in EndpointIds
    BY ConstantsAssumption DEF RcServerStates, INITIAL, EndpointIds
  <2> QED BY <1>1, <1>r, <2>1 DEF Calls
<1>4. /\ Len(c.replies) = Len(call[t].replies) + 1
      /\ Len(call[t].replies) \in Nat /\ Len(c.frame) \in Nat
  BY <1>1, <1>2, <1>3, ConstantsAssumption DEF Calls
<1>5. /\ Route(c) \in {"respond", "ep0_state", "lookup"}
      /\ Route(c) = "respond" => Len(c.replies) = Len(c.frame)
      /\ Route(c) # "respond" => Len(c.replies) < Len(c.frame)
  BY <1>1, <1>3, <1>4 DEF Route
<1>6. /\ pc' = [pc EXCEPT ![t] = Route(c)]
      /\ call' = [call EXCEPT ![t] = c]
      /\ roots' = [roots EXCEPT ![t] = {}]
  BY DEF Answer, Goto
<1>7. LocalTypeOK'
  BY <1>3, <1>5, <1>6 DEF LocalInv, LocalTypeOK, PCs
<1>8. ASSUME NEW u \in Threads PROVE InCall(u)'
  <2>1. CASE u = t
    BY <1>1, <1>3, <1>5, <1>6, <2>1 DEF InCall, FramePCs, RegisterPCs, LocalInv, LocalTypeOK
  <2>2. CASE u # t
    BY <1>6, <2>2 DEF InCall, LocalInv, LocalTypeOK
  <2> QED BY <2>1, <2>2
<1> QED BY <1>7, <1>8 DEF LocalInv

\* Leaving a call keeps the locals typed.
LEMMA ReturnType ==
    ASSUME LocalInv, NEW t \in Threads, Return(t),
           roots' \in [Threads -> SUBSET (Streams \cup {NoStream})]
    PROVE  LocalInv'
PROOF
<1>1. /\ pc' = [pc EXCEPT ![t] = "idle"]
      /\ call' = [call EXCEPT ![t] = NoCall]
  BY DEF Return, Goto
<1>2. LocalTypeOK'
  BY <1>1, NoCallType DEF LocalInv, LocalTypeOK, PCs
<1>3. ASSUME NEW u \in Threads PROVE InCall(u)'
  BY <1>1 DEF InCall, LocalInv, LocalTypeOK, FramePCs, RegisterPCs
<1> QED BY <1>2, <1>3 DEF LocalInv

\* A refused request either gets its error reply or ends the call.
LEMMA FailType ==
    ASSUME LocalInv, NEW t \in Threads, pc[t] \in FramePCs,
           NEW error, Fail(t, error)
    PROVE  LocalInv'
PROOF
<1>1. CASE error \in WireErrors
  BY <1>1, AnswerType DEF Fail, Payloads
<1>2. CASE error \notin WireErrors
  <2>1. roots' \in [Threads -> SUBSET (Streams \cup {NoStream})]
    BY <1>2 DEF Fail, LocalInv, LocalTypeOK
  <2> QED BY <1>2, <2>1, ReturnType DEF Fail
<1> QED BY <1>1, <1>2

\* Moving on with other locals keeps them typed when the mover's are.
LEMMA GotoType ==
    ASSUME LocalInv, NEW t \in Threads, NEW label \in PCs, NEW c \in Calls,
           Goto(t, label, c), InCall(t)',
           roots' \in [Threads -> SUBSET (Streams \cup {NoStream})]
    PROVE  LocalInv'
PROOF
<1>1. LocalTypeOK'
  BY DEF LocalInv, LocalTypeOK, Goto
<1>2. ASSUME NEW u \in Threads PROVE InCall(u)'
  <2>1. CASE u = t
    BY <2>1
  <2>2. CASE u # t
    BY <2>2 DEF InCall, LocalInv, LocalTypeOK, Goto
  <2> QED BY <2>1, <2>2
<1> QED BY <1>1, <1>2 DEF LocalInv

-----------------------------------------------------------------------------
(* Type correctness. *)

\* The first request of a frame is routed like every other.
LEMMA HandleFrameType ==
    ASSUME LocalInv, NEW t \in Threads, HandleFrame(t)
    PROVE  LocalInv'
PROOF
<1>1. PICK s \in Streams, f \in Frames :
        LET c == [NoCall EXCEPT !.stream = s, !.frame = f] IN Goto(t, Route(c), c)
  BY DEF HandleFrame
<1> DEFINE c == [NoCall EXCEPT !.stream = s, !.frame = f]
<1>2. /\ c \in Calls
      /\ c.stream = s /\ c.frame = f /\ c.replies = <<>>
  BY NoCallType DEF Calls, NoCall
<1>3. Len(c.frame) \in Nat /\ Len(c.frame) # 0
  BY <1>2, ConstantsAssumption
<1>4. /\ Route(c) \in {"ep0_state", "lookup"}
      /\ Len(c.replies) < Len(c.frame)
  BY <1>2, <1>3 DEF Route
<1>5. Goto(t, Route(c), c) /\ roots' = roots
  BY <1>1 DEF HandleFrame
<1> HIDE DEF c
<1>6. InCall(t)'
  BY <1>2, <1>4, <1>5 DEF InCall, Goto, LocalInv, LocalTypeOK, FramePCs, RegisterPCs
<1> QED BY <1>2, <1>4, <1>5, <1>6, GotoType DEF PCs, LocalInv, LocalTypeOK

\* Moving to another label of the frame with locals that keep the frame.
LEMMA StayInFrameType ==
    ASSUME LocalInv, NEW t \in Threads, pc[t] \in FramePCs,
           NEW label \in FramePCs, NEW c \in Calls,
           c.stream = call[t].stream, c.frame = call[t].frame,
           c.replies = call[t].replies,
           label = "access" => c.impl \in Impls,
           Goto(t, label, c),
           roots' \in [Threads -> SUBSET (Streams \cup {NoStream})]
    PROVE  LocalInv'
PROOF
<1>1. InCall(t) /\ pc'[t] = label /\ call'[t] = c
  BY DEF LocalInv, LocalTypeOK, Goto
<1>2. InCall(t)'
  BY <1>1 DEF InCall, FramePCs, RegisterPCs
<1> QED BY <1>2, GotoType DEF PCs, FramePCs

\* The steps of handle_abb keep the locals typed.
LEMMA HandleAbbType ==
    ASSUME TypeInv, NEW t \in Threads, HandleAbb(t)
    PROVE  LocalInv' /\ SharedTypeOK'
PROOF
<1>1. LocalInv /\ SharedTypeOK /\ InCall(t) /\ call[t] \in Calls
  BY DEF TypeInv, LocalInv, TypeOK, LocalTypeOK
<1>f. pc[t] \in FramePCs
  BY DEF HandleAbb, Ep0ReadState, Ep0Check, Ep0Read, Ep0Write, Ep0WriteShort, Lookup,
         Resolve, DeviceRead, DeviceWrite, DeviceError, FramePCs
<1>h. InHand(call[t]) \in Requests /\ call[t].stream \in Streams
  BY <1>1, <1>f, InHandIsRequest DEF InCall, Calls
<1>2. CASE Ep0ReadState(t)
  <2> DEFINE c == [call[t] EXCEPT !.state = state]
  <2>1. /\ c \in Calls /\ c.stream = call[t].stream /\ c.frame = call[t].frame
        /\ c.replies = call[t].replies
    BY <1>1 DEF Calls, SharedTypeOK
  <2>2. Goto(t, "ep0_check", c)
    BY <1>2 DEF Ep0ReadState
  <2>3. roots' \in [Threads -> SUBSET (Streams \cup {NoStream})]
    BY <1>1, <1>2 DEF Ep0ReadState, LocalInv, LocalTypeOK, SharedTypeOK
  <2> HIDE DEF c
  <2>4. LocalInv'
    BY <1>1, <1>f, <2>1, <2>2, <2>3, StayInFrameType DEF FramePCs
  <2> QED BY <1>1, <1>2, <2>4 DEF Ep0ReadState, SharedTypeOK, shared
<1>3. CASE Ep0Check(t)
  <2> DEFINE verdict == check_ep0_access_for_stream(call[t].state, "General",
                            InHand(call[t]).write, call[t].stream, root_client)
  <2>1. CASE verdict = "Ok"
    <3>1. Goto(t, "ep0_access", call[t]) /\ roots' = roots
      BY <1>3, <2>1 DEF Ep0Check
    <3> QED BY <1>1, <1>3, <1>f, <3>1, StayInFrameType
            DEF Ep0Check, SharedTypeOK, shared, FramePCs, LocalInv, LocalTypeOK
  <2>2. CASE verdict # "Ok"
    <3>1. Fail(t, verdict)
      BY <1>3, <2>2 DEF Ep0Check
    <3> HIDE DEF verdict
    <3> QED BY <1>1, <1>3, <1>f, <3>1, FailType DEF Ep0Check, SharedTypeOK, shared
  <2> QED BY <2>1, <2>2
<1>4. CASE Ep0Read(t)
  <2>1. Answer(t, "Ok", general) /\ general \in Payloads
    BY <1>1, <1>4 DEF Ep0Read, SharedTypeOK, Payloads
  <2> QED BY <1>1, <1>4, <1>f, <2>1, AnswerType DEF Ep0Read, SharedTypeOK, shared
<1>5. CASE Ep0Write(t)
  <2>1. Answer(t, "Ok", Short) /\ Short \in Payloads
    BY <1>5 DEF Ep0Write, Payloads
  <2> QED BY <1>1, <1>5, <1>f, <2>1, AnswerType DEF Ep0Write, SharedTypeOK
<1>6. CASE Ep0WriteShort(t)
  BY <1>1, <1>6, <1>f, FailType DEF Ep0WriteShort, SharedTypeOK, shared
<1>7. CASE Lookup(t)
  <2> DEFINE id == endpoints[<<call[t].stream, InHand(call[t]).bus>>]
             c == [call[t] EXCEPT !.id = id]
  <2>1. id \in EndpointIds \cup {NoId}
    BY <1>1, <1>h DEF SharedTypeOK, Pairs, Requests
  <2>2. CASE id = NoId
    <3>1. Fail(t, "EpNotFound")
      BY <1>7, <2>2 DEF Lookup
    <3> QED BY <1>1, <1>7, <1>f, <3>1, FailType DEF Lookup, SharedTypeOK, shared
  <2>3. CASE id # NoId
    <3>1. Goto(t, "resolve", c) /\ roots' = roots
      BY <1>7, <2>3 DEF Lookup
    <3> HIDE DEF id
    <3>2. /\ c \in Calls /\ c.stream = call[t].stream /\ c.frame = call[t].frame
          /\ c.replies = call[t].replies
      BY <1>1, <2>1, <2>3 DEF Calls
    <3> HIDE DEF c
    <3>3. LocalInv'
      BY <1>1, <1>f, <3>1, <3>2, StayInFrameType DEF FramePCs, LocalInv, LocalTypeOK
    <3> QED BY <1>1, <1>7, <3>3 DEF Lookup, SharedTypeOK, shared
  <2> QED BY <2>2, <2>3
<1>8. CASE Resolve(t)
  <2> DEFINE e == endpoint_impls[call[t].id]
             c == [call[t] EXCEPT !.impl = e]
  <2>1. e \in Impls \cup {NoImpl}
    BY <1>1 DEF SharedTypeOK, Calls
  <2>2. CASE e = NoImpl
    <3>1. Fail(t, "EpNotFound")
      BY <1>8, <2>2 DEF Resolve
    <3> QED BY <1>1, <1>8, <1>f, <3>1, FailType DEF Resolve, SharedTypeOK, shared
  <2>3. CASE e # NoImpl
    <3>1. Goto(t, "access", c) /\ roots' = roots
      BY <1>8, <2>3 DEF Resolve
    <3> HIDE DEF e
    <3>2. /\ c \in Calls /\ c.stream = call[t].stream /\ c.frame = call[t].frame
          /\ c.replies = call[t].replies /\ c.impl \in Impls
      BY <1>1, <2>1, <2>3 DEF Calls
    <3> HIDE DEF c
    <3>3. LocalInv'
      BY <1>1, <1>f, <3>1, <3>2, StayInFrameType DEF FramePCs, LocalInv, LocalTypeOK
    <3> QED BY <1>1, <1>8, <3>3 DEF Resolve, SharedTypeOK, shared
  <2> QED BY <2>2, <2>3
<1>9. CASE DeviceRead(t)
  <2>1. Answer(t, "Ok", buf[call[t].impl]) /\ buf[call[t].impl] \in Payloads
    BY <1>1, <1>9 DEF DeviceRead, SharedTypeOK, InCall
  <2> QED BY <1>1, <1>9, <1>f, <2>1, AnswerType DEF DeviceRead, SharedTypeOK, shared
<1>10. CASE DeviceWrite(t)
  <2>1. Answer(t, "Ok", Short) /\ Short \in Payloads
    BY <1>10 DEF DeviceWrite, Payloads
  <2>2. InHand(call[t]).payload \in Payloads
    BY <1>h DEF Requests
  <2>3. buf' \in [Impls -> Payloads]
    BY <1>1, <1>10, <2>2 DEF DeviceWrite, SharedTypeOK
  <2> QED BY <1>1, <1>10, <1>f, <2>1, <2>3, AnswerType DEF DeviceWrite, SharedTypeOK
<1>11. CASE DeviceError(t)
  BY <1>1, <1>11, <1>f, FailType DEF DeviceError, SharedTypeOK, shared
<1> QED BY <1>2, <1>3, <1>4, <1>5, <1>6, <1>7, <1>8, <1>9, <1>10, <1>11 DEF HandleAbb

\* Every step of a thread keeps the fields and the locals typed.
LEMMA StepType ==
    ASSUME TypeInv, NEW t \in Threads, Begin(t) \/ Continue(t)
    PROVE  TypeInv'
PROOF
<1>1. LocalInv /\ SharedTypeOK /\ InCall(t) /\ call[t] \in Calls
  BY DEF TypeInv, LocalInv, TypeOK, LocalTypeOK
<1>r. ASSUME Return(t), roots' = roots PROVE LocalInv'
  BY <1>1, <1>r, ReturnType DEF LocalInv, LocalTypeOK
<1>2. CASE HandleFrame(t)
  <2>1. LocalInv' BY <1>1, <1>2, HandleFrameType
  <2> QED BY <1>1, <1>2, <2>1 DEF HandleFrame, SharedTypeOK, shared, TypeInv, LocalInv, TypeOK
<1>3. CASE HandleAbb(t)
  BY <1>3, HandleAbbType DEF TypeInv, LocalInv, TypeOK
<1>4. CASE Respond(t)
  <2>1. LocalInv' BY <1>r, <1>4 DEF Respond
  <2>2. (sequence_num + 1) % SeqModulus \in 0..(SeqModulus - 1)
    BY <1>1, ConstantsAssumption DEF SharedTypeOK
  <2> QED BY <1>1, <1>4, <2>1, <2>2 DEF Respond, SharedTypeOK, TypeInv, LocalInv, TypeOK
<1>5. CASE RegisterLoadId(t)
  <2>1. PICK s \in Streams, b \in Buses, e \in Impls :
          Goto(t, "reg_table", [NoCall EXCEPT !.stream = s, !.bus = b, !.impl = e,
                                              !.id = next_endpoint_id])
    BY <1>5 DEF RegisterLoadId
  <2> DEFINE c == [NoCall EXCEPT !.stream = s, !.bus = b, !.impl = e,
                                 !.id = next_endpoint_id]
  <2>2. next_endpoint_id \in EndpointIds
    BY <1>1, <1>5, ConstantsAssumption DEF RegisterLoadId, SharedTypeOK, EndpointIds
  <2>3. c \in Calls /\ c.stream = s /\ c.bus = b /\ c.impl = e
    BY <2>2, NoCallType DEF Calls, NoCall
  <2>4. Goto(t, "reg_table", c) /\ roots' = roots
    BY <1>5, <2>1 DEF RegisterLoadId
  <2> HIDE DEF c
  <2>5. InCall(t)'
    BY <1>1, <2>3, <2>4 DEF InCall, Goto, LocalInv, LocalTypeOK, FramePCs, RegisterPCs
  <2>6. LocalInv'
    BY <1>1, <2>3, <2>4, <2>5, GotoType DEF PCs, LocalInv, LocalTypeOK
  <2> QED BY <1>1, <1>5, <2>6 DEF RegisterLoadId, SharedTypeOK, shared, TypeInv, LocalInv, TypeOK
<1>6. CASE RegisterInTable(t)
  <2> DEFINE p == <<call[t].stream, call[t].bus>>
  <2>1. p \in Pairs /\ call[t].impl \in Impls /\ call[t].id \in EndpointIds
    BY <1>1, <1>6 DEF RegisterInTable, InCall, RegisterPCs, Pairs, Calls
  <2>2. CASE register(p)
    <3>1. /\ endpoints' = [endpoints EXCEPT ![p] = call[t].id]
          /\ owner' = [owner EXCEPT ![p] = call[t].impl]
          /\ Goto(t, "reg_count", call[t]) /\ roots' = roots
      BY <1>6, <2>2 DEF RegisterInTable
    <3>2. InCall(t)'
      BY <1>1, <1>6, <3>1 DEF RegisterInTable, InCall, Goto, LocalInv, LocalTypeOK,
                              FramePCs, RegisterPCs
    <3>3. LocalInv'
      BY <1>1, <3>1, <3>2, GotoType DEF PCs, LocalInv, LocalTypeOK
    <3> HIDE DEF p
    <3>4. /\ endpoints' \in [Pairs -> EndpointIds \cup {NoId}]
          /\ owner' \in [Pairs -> Impls \cup {NoImpl}]
      BY <1>1, <2>1, <3>1 DEF SharedTypeOK
    <3> QED BY <1>1, <1>6, <3>3, <3>4 DEF RegisterInTable, SharedTypeOK, TypeInv, LocalInv, TypeOK
  <2>3. CASE ~register(p)
    <3>1. Return(t) /\ UNCHANGED <<endpoints, owner, roots>>
      BY <1>6, <2>3 DEF RegisterInTable
    <3>2. LocalInv' BY <1>r, <3>1
    <3> QED BY <1>1, <1>6, <3>1, <3>2 DEF RegisterInTable, SharedTypeOK, TypeInv, LocalInv, TypeOK
  <2> QED BY <2>2, <2>3
<1>7. CASE RegisterCountId(t)
  <2>1. InCall(t)'
    BY <1>1, <1>7 DEF RegisterCountId, InCall, Goto, LocalInv, LocalTypeOK,
                      FramePCs, RegisterPCs
  <2>2. LocalInv'
    BY <1>1, <1>7, <2>1, GotoType DEF RegisterCountId, PCs, LocalInv, LocalTypeOK
  <2> QED BY <1>1, <1>7, <2>2 DEF RegisterCountId, SharedTypeOK, TypeInv, LocalInv, TypeOK
<1>8. CASE RegisterStoreImpl(t)
  <2>1. LocalInv' BY <1>r, <1>8 DEF RegisterStoreImpl
  <2>2. endpoint_impls' \in [EndpointIds -> Impls \cup {NoImpl}]
    BY <1>1, <1>8 DEF RegisterStoreImpl, SharedTypeOK, InCall, RegisterPCs
  <2> QED BY <1>1, <1>8, <2>1, <2>2 DEF RegisterStoreImpl, SharedTypeOK, TypeInv, LocalInv, TypeOK
<1>9. CASE TransitionBegin(t)
  <2>1. PICK target \in RcServerStates :
          Goto(t, "guard", [NoCall EXCEPT !.state = state, !.target = target])
    BY <1>9 DEF TransitionBegin
  <2> DEFINE c == [NoCall EXCEPT !.state = state, !.target = target]
  <2>2. c \in Calls
    BY <1>1, NoCallType DEF Calls, NoCall, SharedTypeOK
  <2>3. Goto(t, "guard", c) /\ roots' = roots
    BY <1>9, <2>1 DEF TransitionBegin
  <2> HIDE DEF c
  <2>4. InCall(t)'
    BY <1>1, <2>3 DEF InCall, Goto, LocalInv, LocalTypeOK, FramePCs, RegisterPCs
  <2>5. LocalInv'
    BY <1>1, <2>2, <2>3, <2>4, GotoType DEF PCs, LocalInv, LocalTypeOK
  <2> QED BY <1>1, <1>9, <2>5 DEF TransitionBegin, LockState, SharedTypeOK, TypeInv, LocalInv, TypeOK
<1>10. CASE TransitionEnd(t)
  <2>1. LocalInv' BY <1>r, <1>10 DEF TransitionEnd
  <2>2. state' \in RcServerStates
    BY <1>1, <1>10 DEF TransitionEnd, SharedTypeOK, Calls
  <2> QED BY <1>1, <1>10, <2>1, <2>2 DEF TransitionEnd, UnlockState, SharedTypeOK, TypeInv, LocalInv, TypeOK
<1>11. CASE SetRootClient(t)
  <2>1. LocalInv'
    BY <1>1, <1>11 DEF SetRootClient, LocalInv, LocalTypeOK, InCall
  <2>2. root_client' \in Streams \cup {NoStream}
    BY <1>11 DEF SetRootClient
  <2> QED BY <1>1, <1>11, <2>1, <2>2 DEF SetRootClient, SharedTypeOK, TypeInv, LocalInv, TypeOK
<1> QED BY <1>2, <1>3, <1>4, <1>5, <1>6, <1>7, <1>8, <1>9, <1>10, <1>11 DEF Begin, Continue

\* The initial state is typed and no thread is in a call.
LEMMA InitType == Init => TypeInv
<1> SUFFICES ASSUME Init PROVE TypeInv
  OBVIOUS
<1>1. SharedTypeOK
  BY ConstantsAssumption DEF Init, SharedTypeOK, RcServerStates, INITIAL, Payloads
<1>2. LocalTypeOK /\ \A t \in Threads : InCall(t)
  BY NoCallType DEF Init, LocalTypeOK, InCall, PCs, FramePCs, RegisterPCs
<1> QED BY <1>1, <1>2 DEF TypeInv, TypeOK

\* A step that changes nothing keeps everything typed.
LEMMA StutterType == TypeInv /\ UNCHANGED vars => TypeInv'
BY DEF TypeInv, TypeOK, SharedTypeOK, LocalTypeOK, InCall, vars, shared

\* Every field keeps its type and every thread's locals hold what its place in
\* the call needs.
THEOREM TypeInvariant == Spec => []TypeInv
<1>1. TypeInv /\ [Next]_vars => TypeInv'
  BY StepType, StutterType DEF Next
<1> QED BY InitType, <1>1, PTL DEF Spec

\* TypeOK holds for every value of the constants: in particular a short EP0
\* write never reaches the general registers, and the Endpoint a dispatch calls
\* is one that was registered.
THEOREM TypeCorrect == Spec => []TypeOK
<1>1. TypeInv => TypeOK
  BY DEF TypeInv
<1> QED BY TypeInvariant, <1>1, PTL

-----------------------------------------------------------------------------
(* The lifecycle: the state mutex makes read, guard and store one step. *)

\* A thread inside try_transition holds the state mutex, and the state it read
\* is still the state.
LockInv == \A t \in Threads : pc[t] = "guard" => state_lock = t /\ call[t].state = state

\* handle_abb writes at most the general registers and one Endpoint's buffer, and
\* only its own thread moves.
LEMMA HandleAbbFrame ==
    ASSUME LocalTypeOK, NEW t \in Threads, HandleAbb(t)
    PROVE  /\ UNCHANGED <<state, state_lock, root_client, endpoints, endpoint_impls,
                          next_endpoint_id, sequence_num, owner>>
           /\ pc[t] \in FramePCs
           /\ pc'[t] \in FramePCs \cup {"respond", "idle"}
           /\ \A u \in Threads \ {t} :
                pc'[u] = pc[u] /\ call'[u] = call[u] /\ roots'[u] = roots[u]
PROOF
<1>1. ASSUME NEW code, NEW payload, Answer(t, code, payload)
      PROVE  /\ pc'[t] \in FramePCs \cup {"respond", "idle"}
             /\ \A u \in Threads \ {t} :
                  pc'[u] = pc[u] /\ call'[u] = call[u] /\ roots'[u] = roots[u]
  BY <1>1 DEF Answer, Goto, Route, LocalTypeOK, FramePCs
<1>2. ASSUME NEW error, Fail(t, error)
      PROVE  /\ pc'[t] \in FramePCs \cup {"respond", "idle"}
             /\ \A u \in Threads \ {t} :
                  pc'[u] = pc[u] /\ call'[u] = call[u] /\ roots'[u] = roots[u]
  <2>1. CASE error \in WireErrors
    BY <1>1, <1>2, <2>1 DEF Fail
  <2>2. CASE error \notin WireErrors
    BY <1>2, <2>2 DEF Fail, Return, Goto, LocalTypeOK
  <2> QED BY <2>1, <2>2
<1>3. CASE Ep0ReadState(t)
  BY <1>3 DEF Ep0ReadState, Goto, shared, FramePCs, LocalTypeOK
<1>4. CASE Ep0Check(t)
  BY <1>2, <1>4 DEF Ep0Check, Goto, shared, FramePCs, LocalTypeOK
<1>5. CASE Ep0Read(t)
  BY <1>1, <1>5 DEF Ep0Read, shared, FramePCs
<1>6. CASE Ep0Write(t)
  BY <1>1, <1>6 DEF Ep0Write, FramePCs
<1>7. CASE Ep0WriteShort(t)
  BY <1>2, <1>7 DEF Ep0WriteShort, shared, FramePCs
<1>8. CASE Lookup(t)
  BY <1>2, <1>8 DEF Lookup, Goto, shared, FramePCs, LocalTypeOK
<1>9. CASE Resolve(t)
  BY <1>2, <1>9 DEF Resolve, Goto, shared, FramePCs, LocalTypeOK
<1>10. CASE DeviceRead(t)
  BY <1>1, <1>10 DEF DeviceRead, shared, FramePCs
<1>11. CASE DeviceWrite(t)
  BY <1>1, <1>11 DEF DeviceWrite, FramePCs
<1>12. CASE DeviceError(t)
  BY <1>2, <1>12 DEF DeviceError, shared, FramePCs
<1> QED BY <1>3, <1>4, <1>5, <1>6, <1>7, <1>8, <1>9, <1>10, <1>11, <1>12 DEF HandleAbb

\* The state changes only under the mutex, by a defined transition.
LEMMA LockStep ==
    ASSUME TypeInv, LockInv, NEW t \in Threads, Begin(t) \/ Continue(t)
    PROVE  LockInv' /\ (state' # state => is_transition_defined(state, state'))
PROOF
<1>1. LocalTypeOK /\ SharedTypeOK
  BY DEF TypeInv, TypeOK
<1>2. CASE HandleFrame(t)
  <2>1. PICK c : Goto(t, Route(c), c)
    BY <1>2 DEF HandleFrame
  <2>2. Route(c) # "guard"
    BY DEF Route
  <2> QED BY <1>1, <1>2, <2>1, <2>2 DEF HandleFrame, Goto, LockInv, LocalTypeOK, shared
<1>3. CASE HandleAbb(t)
  BY <1>1, <1>3, HandleAbbFrame DEF LockInv, FramePCs
<1>4. CASE Respond(t)
  BY <1>1, <1>4 DEF Respond, Return, Goto, LockInv, LocalTypeOK
<1>5. CASE RegisterLoadId(t)
  BY <1>1, <1>5 DEF RegisterLoadId, Goto, LockInv, LocalTypeOK, shared
<1>6. CASE RegisterInTable(t)
  BY <1>1, <1>6 DEF RegisterInTable, Return, Goto, LockInv, LocalTypeOK
<1>7. CASE RegisterCountId(t)
  BY <1>1, <1>7 DEF RegisterCountId, Goto, LockInv, LocalTypeOK
<1>8. CASE RegisterStoreImpl(t)
  BY <1>1, <1>8 DEF RegisterStoreImpl, Return, Goto, LockInv, LocalTypeOK
<1>9. CASE TransitionBegin(t)
  <2>1. PICK target \in RcServerStates :
          Goto(t, "guard", [NoCall EXCEPT !.state = state, !.target = target])
    BY <1>9 DEF TransitionBegin
  <2>2. [NoCall EXCEPT !.state = state, !.target = target].state = state
    BY DEF NoCall
  <2> QED BY <1>1, <1>9, <2>1, <2>2, ConstantsAssumption
          DEF TransitionBegin, LockState, Goto, LockInv, LocalTypeOK
<1>10. CASE TransitionEnd(t)
  <2>1. call[t].state = state /\ state_lock = t
    BY <1>10 DEF TransitionEnd, LockInv
  <2>2. state' # state => is_transition_defined(state, state')
    BY <1>10, <2>1 DEF TransitionEnd, try_transition
  <2> QED BY <1>1, <1>10, <2>1, <2>2
          DEF TransitionEnd, UnlockState, Return, Goto, LockInv, LocalTypeOK
<1>11. CASE SetRootClient(t)
  BY <1>11 DEF SetRootClient, LockInv
<1> QED BY <1>2, <1>3, <1>4, <1>5, <1>6, <1>7, <1>8, <1>9, <1>10, <1>11 DEF Begin, Continue

\* However many threads call try_transition at once, the server only ever moves
\* along the three transitions of is_transition_defined.
THEOREM LifecycleStepsHold == Spec => LifecycleSteps
<1>1. Init => LockInv
  BY DEF Init, LockInv
<1>2. TypeInv /\ LockInv /\ [Next]_vars => LockInv'
  BY LockStep DEF Next, LockInv, vars, shared
<1>3. TypeInv /\ LockInv /\ [Next]_vars
        => [state' # state => is_transition_defined(state, state')]_vars
  BY LockStep DEF Next
<1> QED BY TypeInvariant, <1>1, <1>2, <1>3, PTL DEF Spec, LifecycleSteps

\* Once the HwConfig registers are locked no interleaving of transitions unlocks
\* them: nothing leads out of RcpConfigured.
THEOREM HwConfigLockHolds == Spec => HwConfigLockIsPermanent
<1>1. Init => LockInv
  BY DEF Init, LockInv
<1>2. TypeInv /\ LockInv /\ [Next]_vars => LockInv'
  BY LockStep DEF Next, LockInv, vars, shared
<1>3. ASSUME TypeInv, LockInv, [Next]_vars, ~is_register_writable(state, "HwConfig")
      PROVE  ~is_register_writable(state', "HwConfig")
  <2>1. state = "RcpConfigured"
    BY <1>3 DEF is_register_writable, is_register_reachable, lock_policy
  <2>2. state' = state \/ is_transition_defined(state, state')
    BY <1>3, LockStep DEF Next, vars, shared
  <2> QED BY <1>3, <2>1, <2>2 DEF is_transition_defined
<1>4. TypeInv /\ LockInv /\ [Next]_vars
        => [~is_register_writable(state, "HwConfig")
              => ~is_register_writable(state', "HwConfig")]_vars
  BY <1>3
<1> QED BY TypeInvariant, <1>1, <1>2, <1>4, PTL DEF Spec, HwConfigLockIsPermanent

-----------------------------------------------------------------------------
(* EP0 writes: the decision is made on copies, and what the copies say was true
   during the request. *)

RootsInv ==
    \A t \in Threads :
        /\ pc[t] \in {"ep0_check", "ep0_access"} => root_client \in roots[t]
        /\ pc[t] = "ep0_access" /\ InHand(call[t]).write => call[t].stream \in roots[t]

\* Only Ep0ReadState leads to the check and only Ep0Check to the access.
LEMMA RootsAbb ==
    ASSUME TypeInv, RootsInv, NEW t \in Threads, HandleAbb(t)
    PROVE  RootsInv'
PROOF
<1>1. LocalTypeOK
  BY DEF TypeInv, TypeOK
<1>2. ASSUME NEW u \in Threads, u # t
      PROVE  /\ pc'[u] \in {"ep0_check", "ep0_access"} => root_client' \in roots'[u]
             /\ pc'[u] = "ep0_access" /\ InHand(call'[u]).write
                  => call'[u].stream \in roots'[u]
  BY <1>1, <1>2, HandleAbbFrame DEF RootsInv
<1>3. ASSUME NEW code, NEW payload, Answer(t, code, payload)
      PROVE  pc'[t] \notin {"ep0_check", "ep0_access"}
  BY <1>1, <1>3 DEF Answer, Goto, Route, LocalTypeOK
<1>4. ASSUME NEW error, Fail(t, error) PROVE pc'[t] \notin {"ep0_check", "ep0_access"}
  BY <1>1, <1>3, <1>4 DEF Fail, Return, Goto, LocalTypeOK
<1>5. CASE Ep0ReadState(t)
  BY <1>1, <1>2, <1>5 DEF Ep0ReadState, Goto, RootsInv, LocalTypeOK, shared
<1>6. CASE Ep0Check(t)
  <2> DEFINE verdict == check_ep0_access_for_stream(call[t].state, "General",
                            InHand(call[t]).write, call[t].stream, root_client)
  <2>1. CASE verdict = "Ok"
    <3>1. InHand(call[t]).write => call[t].stream = root_client
      BY <2>1 DEF check_ep0_access_for_stream, is_root_client
    <3>2. Goto(t, "ep0_access", call[t]) /\ roots' = roots /\ root_client' = root_client
      BY <1>6, <2>1 DEF Ep0Check, shared
    <3> HIDE DEF verdict
    <3> QED BY <1>1, <1>2, <1>6, <3>1, <3>2 DEF Ep0Check, Goto, RootsInv, LocalTypeOK
  <2>2. CASE verdict # "Ok"
    <3>1. Fail(t, verdict)
      BY <1>6, <2>2 DEF Ep0Check
    <3> QED BY <1>2, <1>4, <3>1 DEF RootsInv
  <2> QED BY <2>1, <2>2
<1>7. CASE Ep0Read(t)
  BY <1>2, <1>3, <1>7 DEF Ep0Read, RootsInv
<1>8. CASE Ep0Write(t)
  BY <1>2, <1>3, <1>8 DEF Ep0Write, RootsInv
<1>9. CASE Ep0WriteShort(t)
  BY <1>2, <1>4, <1>9 DEF Ep0WriteShort, RootsInv
<1>10. CASE Lookup(t)
  BY <1>1, <1>2, <1>4, <1>10 DEF Lookup, Goto, RootsInv, LocalTypeOK
<1>11. CASE Resolve(t)
  BY <1>1, <1>2, <1>4, <1>11 DEF Resolve, Goto, RootsInv, LocalTypeOK
<1>12. CASE DeviceRead(t)
  BY <1>2, <1>3, <1>12 DEF DeviceRead, RootsInv
<1>13. CASE DeviceWrite(t)
  BY <1>2, <1>3, <1>13 DEF DeviceWrite, RootsInv
<1>14. CASE DeviceError(t)
  BY <1>2, <1>4, <1>14 DEF DeviceError, RootsInv
<1> QED BY <1>5, <1>6, <1>7, <1>8, <1>9, <1>10, <1>11, <1>12, <1>13, <1>14 DEF HandleAbb

\* Every other step leaves the EP0 requests in flight alone, or tells them of the
\* new root client.
LEMMA RootsStep ==
    ASSUME TypeInv, RootsInv, NEW t \in Threads, Begin(t) \/ Continue(t)
    PROVE  RootsInv'
PROOF
<1>1. LocalTypeOK
  BY DEF TypeInv, TypeOK
<1>2. CASE HandleFrame(t)
  <2>1. PICK c : Goto(t, Route(c), c)
    BY <1>2 DEF HandleFrame
  <2>2. Route(c) \notin {"ep0_check", "ep0_access"}
    BY DEF Route
  <2> QED BY <1>1, <1>2, <2>1, <2>2 DEF HandleFrame, Goto, RootsInv, LocalTypeOK, shared
<1>3. CASE Respond(t)
  BY <1>1, <1>3 DEF Respond, Return, Goto, RootsInv, LocalTypeOK
<1>4. CASE RegisterLoadId(t)
  BY <1>1, <1>4 DEF RegisterLoadId, Goto, RootsInv, LocalTypeOK, shared
<1>5. CASE RegisterInTable(t)
  BY <1>1, <1>5 DEF RegisterInTable, Return, Goto, RootsInv, LocalTypeOK
<1>6. CASE RegisterCountId(t)
  BY <1>1, <1>6 DEF RegisterCountId, Goto, RootsInv, LocalTypeOK
<1>7. CASE RegisterStoreImpl(t)
  BY <1>1, <1>7 DEF RegisterStoreImpl, Return, Goto, RootsInv, LocalTypeOK
<1>8. CASE TransitionBegin(t)
  BY <1>1, <1>8 DEF TransitionBegin, Goto, RootsInv, LocalTypeOK
<1>9. CASE TransitionEnd(t)
  BY <1>1, <1>9 DEF TransitionEnd, Return, Goto, RootsInv, LocalTypeOK
<1>10. CASE SetRootClient(t)
  BY <1>1, <1>10 DEF SetRootClient, RootsInv, LocalTypeOK
<1> QED BY <1>2, RootsAbb, <1>3, <1>4, <1>5, <1>6, <1>7, <1>8, <1>9, <1>10 DEF Begin, Continue

\* Whatever set_root_client and the lifecycle do meanwhile, a write reaches the
\* general registers only from a stream that was the root client during it.
THEOREM Ep0WritesAuthorised == Spec => []Ep0WriteAuthority
<1>1. Init => RootsInv
  BY DEF Init, RootsInv
<1>2. TypeInv /\ RootsInv /\ [Next]_vars => RootsInv'
  BY RootsStep DEF Next, RootsInv, vars, shared
<1>3. RootsInv => Ep0WriteAuthority
  BY DEF RootsInv, Ep0WriteAuthority
<1> QED BY TypeInvariant, <1>1, <1>2, <1>3, PTL DEF Spec

\* No EP0 request has seen the root client replaced.
RootsSettled == \A t \in Threads : \A x, y \in roots[t] : x = y

\* The general registers change by one action, an EP0 write.
LEMMA GeneralStep ==
    ASSUME TypeInv, RootsInv, RootsSettled, [Next]_vars, general' # general
    PROVE  \E t \in Threads : pc[t] = "ep0_access" /\ call[t].stream = root_client
PROOF
<1>1. PICK t \in Threads : Begin(t) \/ Continue(t)
  BY DEF Next, vars, shared
<1>2. Ep0Write(t)
  BY <1>1 DEF Begin, Continue, HandleAbb, HandleFrame, RegisterLoadId, TransitionBegin,
     SetRootClient, Ep0ReadState, Ep0Check, Ep0Read, Ep0WriteShort, Lookup, Resolve, DeviceRead,
     DeviceWrite, DeviceError, Respond, RegisterInTable, RegisterCountId, RegisterStoreImpl,
     TransitionEnd, shared
<1>3. /\ pc[t] = "ep0_access" /\ root_client \in roots[t] /\ call[t].stream \in roots[t]
  BY <1>2 DEF Ep0Write, RootsInv
<1> QED BY <1>3 DEF RootsSettled

\* What set_root_client's documentation says is true of every write whose
\* request is not overtaken by a set_root_client: without one between the
\* check and the write, no stream but the root client changes a register.
THEOREM SettledRootAloneWrites == Spec /\ []RootsSettled => OnlyRootWritesEp0
<1>1. Init => RootsInv
  BY DEF Init, RootsInv
<1>2. TypeInv /\ RootsInv /\ [Next]_vars => RootsInv'
  BY RootsStep DEF Next, RootsInv, vars, shared
<1> DEFINE A == general' # general =>
                   \E t \in Threads : pc[t] = "ep0_access" /\ call[t].stream = root_client
<1>3. TypeInv /\ RootsInv /\ RootsSettled /\ [Next]_vars => [A]_vars
  BY GeneralStep
<1> HIDE DEF A
<1>4. Spec /\ []RootsSettled => [][A]_vars
  BY TypeInvariant, <1>1, <1>2, <1>3, PTL DEF Spec
<1> QED BY <1>4 DEF OnlyRootWritesEp0, A

-----------------------------------------------------------------------------
(* Registration: with one registering thread, ids are fresh and every request
   finds the Endpoint of its own pair, although the lookup and the resolution
   are two critical sections. *)

SoleRegistrar ==
    \A t, u \in Threads : "register" \in May[t] /\ "register" \in May[u] => t = u

PairOf(c) == <<c.stream, c.bus>>
Target(c) == <<c.stream, InHand(c).bus>>

\* The registration under way, if any.
RegisterInv ==
    \A t \in Threads :
        /\ pc[t] \in RegisterPCs => "register" \in May[t]
        /\ pc[t] \in {"reg_table", "reg_count"} => call[t].id = next_endpoint_id
        /\ pc[t] = "reg_store" => call[t].id + 1 = next_endpoint_id
        /\ pc[t] \in {"reg_count", "reg_store"} =>
             /\ endpoints[PairOf(call[t])] = call[t].id
             /\ owner[PairOf(call[t])] = call[t].impl

\* Ids in use are below the counter, or the one about to be counted.
IdsInv ==
    /\ \A p \in Pairs :
         \/ endpoints[p] < next_endpoint_id
         \/ \E t \in Threads : pc[t] = "reg_count" /\ PairOf(call[t]) = p
    /\ \A i \in EndpointIds : endpoint_impls[i] # NoImpl => i < next_endpoint_id

\* An implementation in the map is the one its id's pair was registered with.
ImplsInv ==
    \A p \in Pairs : endpoints[p] # NoId =>
        endpoint_impls[endpoints[p]] \in {NoImpl, owner[p]}

TableInv ==
    RegisterInv /\ IdsInv /\ ImplsInv /\ UniqueEndpointIds /\ RegisteredPairsResolve

\* What a dispatch found stays true: table entries are never overwritten.
DispatchInv ==
    \A t \in Threads :
        /\ pc[t] = "resolve" => /\ endpoints[Target(call[t])] = call[t].id
                               /\ call[t].id # NoId
        /\ pc[t] = "access" => /\ endpoints[Target(call[t])] # NoId
                              /\ call[t].impl = owner[Target(call[t])]

\* A thread that registers nothing moves past the table.
LEMMA TableFrame ==
    ASSUME TypeInv, TableInv, NEW t \in Threads,
           UNCHANGED <<endpoints, endpoint_impls, next_endpoint_id, owner>>,
           pc[t] \notin {"reg_count", "reg_store"}, pc'[t] \notin RegisterPCs,
           \A u \in Threads \ {t} : pc'[u] = pc[u] /\ call'[u] = call[u]
    PROVE  TableInv'
PROOF
<1>1. RegisterInv'
  BY DEF TableInv, RegisterInv, RegisterPCs, PairOf
<1>2. IdsInv'
  BY DEF TableInv, IdsInv, RegisterPCs, PairOf
<1>3. ImplsInv' /\ UniqueEndpointIds'
  BY DEF TableInv, ImplsInv, UniqueEndpointIds
<1>4. RegisteredPairsResolve'
  BY DEF TableInv, RegisteredPairsResolve, RegisterPCs
<1> QED BY <1>1, <1>2, <1>3, <1>4 DEF TableInv

\* Every step keeps the table consistent.
LEMMA TableStep ==
    ASSUME SoleRegistrar, TypeInv, TableInv, NEW t \in Threads, Begin(t) \/ Continue(t)
    PROVE  TableInv'
PROOF
<1>1. LocalTypeOK /\ SharedTypeOK /\ InCall(t) /\ call[t] \in Calls
  BY DEF TypeInv, TypeOK, LocalTypeOK
<1>n. NoId \notin EndpointIds /\ EndpointIds \subseteq Nat
  BY ConstantsAssumption DEF NoId, EndpointIds
<1>i. /\ next_endpoint_id \in Int
      /\ \A i \in EndpointIds : i \in Int
      /\ \A q \in Pairs : endpoints[q] \in Int
  <2>1. \A i \in EndpointIds : i \in Int
    BY <1>n
  <2>2. NoId \in Int
    BY DEF NoId
  <2>3. next_endpoint_id \in Int
    BY <1>1 DEF SharedTypeOK
  <2>4. endpoints \in [Pairs -> EndpointIds \cup {NoId}]
    BY <1>1 DEF SharedTypeOK
  <2>5. ASSUME NEW q \in Pairs PROVE endpoints[q] \in Int
    BY <2>1, <2>2, <2>4
  <2> QED BY <2>1, <2>3, <2>5
<1>2. CASE HandleFrame(t)
  <2>1. PICK c : Goto(t, Route(c), c)
    BY <1>2 DEF HandleFrame
  <2>2. Route(c) \notin RegisterPCs
    BY DEF Route, RegisterPCs
  <2> QED BY <1>1, <1>2, <2>1, <2>2, TableFrame DEF HandleFrame, Goto, LocalTypeOK, shared
<1>3. CASE HandleAbb(t)
  <2>1. pc[t] \notin {"reg_count", "reg_store"} /\ pc'[t] \notin RegisterPCs
    BY <1>1, <1>3, HandleAbbFrame DEF FramePCs, RegisterPCs
  <2> QED BY <1>1, <1>3, <2>1, HandleAbbFrame, TableFrame
<1>4. CASE Respond(t)
  BY <1>1, <1>4, TableFrame DEF Respond, Return, Goto, LocalTypeOK, RegisterPCs
<1>5. CASE RegisterLoadId(t)
  <2>1. PICK s \in Streams, b \in Buses, e \in Impls :
          Goto(t, "reg_table", [NoCall EXCEPT !.stream = s, !.bus = b, !.impl = e,
                                              !.id = next_endpoint_id])
    BY <1>5 DEF RegisterLoadId
  <2>2. [NoCall EXCEPT !.stream = s, !.bus = b, !.impl = e,
                       !.id = next_endpoint_id].id = next_endpoint_id
    BY DEF NoCall
  <2>3. /\ pc[t] = "idle" /\ pc'[t] = "reg_table" /\ call'[t].id = next_endpoint_id
        /\ \A u \in Threads \ {t} : pc'[u] = pc[u] /\ call'[u] = call[u]
        /\ UNCHANGED <<endpoints, endpoint_impls, next_endpoint_id, owner>>
    BY <1>1, <1>5, <2>1, <2>2 DEF RegisterLoadId, Goto, LocalTypeOK, shared
  <2>4. RegisterInv'
    BY <1>5, <2>3 DEF RegisterLoadId, TableInv, RegisterInv, RegisterPCs, PairOf
  <2>5. IdsInv' /\ ImplsInv' /\ UniqueEndpointIds' /\ RegisteredPairsResolve'
    BY <2>3 DEF TableInv, IdsInv, ImplsInv, UniqueEndpointIds, RegisteredPairsResolve, PairOf
  <2> QED BY <2>4, <2>5 DEF TableInv
<1>6. CASE RegisterInTable(t)
  <2> DEFINE p == PairOf(call[t])
  <2>1. /\ p \in Pairs /\ call[t].impl \in Impls /\ call[t].id \in EndpointIds
        /\ pc[t] = "reg_table" /\ call[t].id = next_endpoint_id
    BY <1>1, <1>6 DEF RegisterInTable, InCall, RegisterPCs, Pairs, PairOf, Calls,
                      TableInv, RegisterInv
  <2>2. CASE ~register(p)
    BY <1>1, <1>6, <2>1, <2>2, TableFrame
    DEF RegisterInTable, Return, Goto, LocalTypeOK, PairOf, RegisterPCs
  <2>3. CASE register(p)
    <3>1. /\ endpoints' = [endpoints EXCEPT ![p] = next_endpoint_id]
          /\ owner' = [owner EXCEPT ![p] = call[t].impl]
          /\ pc' = [pc EXCEPT ![t] = "reg_count"]
          /\ call' = [call EXCEPT ![t] = call[t]]
          /\ UNCHANGED <<endpoint_impls, next_endpoint_id>>
          /\ endpoints[p] = NoId
      BY <1>6, <2>1, <2>3 DEF RegisterInTable, Goto, PairOf, register
    <3>2. \A u \in Threads : pc[u] \in RegisterPCs => u = t
      BY <2>1 DEF SoleRegistrar, TableInv, RegisterInv, RegisterPCs
    <3>3. \A q \in Pairs : endpoints[q] < next_endpoint_id
      BY <2>1, <3>2 DEF TableInv, IdsInv, RegisterPCs
    <3>4. call' = call /\ pc'[t] = "reg_count"
          /\ \A u \in Threads \ {t} : pc'[u] = pc[u]
      BY <1>1, <3>1 DEF LocalTypeOK
    <3> HIDE DEF p
    <3>5. /\ endpoints'[p] = next_endpoint_id /\ owner'[p] = call[t].impl
          /\ \A q \in Pairs \ {p} : endpoints'[q] = endpoints[q] /\ owner'[q] = owner[q]
      BY <1>1, <2>1, <3>1 DEF SharedTypeOK
    <3>6. RegisterInv'
      BY <2>1, <3>1, <3>2, <3>4, <3>5 DEF TableInv, RegisterInv, RegisterPCs, p
    <3>7. IdsInv'
      <4>1. \A q \in Pairs : \/ endpoints'[q] < next_endpoint_id'
                             \/ pc'[t] = "reg_count" /\ PairOf(call'[t]) = q
        BY <3>1, <3>3, <3>4, <3>5 DEF p
      <4> QED BY <3>1, <4>1 DEF TableInv, IdsInv
    <3>8. endpoint_impls[next_endpoint_id] = NoImpl
      <4>1. next_endpoint_id \in EndpointIds /\ ~(next_endpoint_id < next_endpoint_id)
        BY <1>i, <2>1
      <4> QED BY <4>1 DEF TableInv, IdsInv
    <3>9. ImplsInv'
      BY <3>1, <3>5, <3>8 DEF TableInv, ImplsInv
    <3>10. UniqueEndpointIds'
      BY <1>1, <1>n, <2>1, <3>3, <3>5 DEF TableInv, UniqueEndpointIds, SharedTypeOK
    <3>11. RegisteredPairsResolve'
      BY <2>1, <3>1, <3>2, <3>4, <3>5 DEF TableInv, RegisteredPairsResolve, RegisterPCs, p, PairOf
    <3> QED BY <3>6, <3>7, <3>9, <3>10, <3>11 DEF TableInv
  <2> QED BY <2>2, <2>3
<1>7. CASE RegisterCountId(t)
  <2>1. /\ pc[t] = "reg_count" /\ pc'[t] = "reg_store" /\ call' = call
        /\ next_endpoint_id' = next_endpoint_id + 1 /\ next_endpoint_id \in Nat
        /\ \A u \in Threads \ {t} : pc'[u] = pc[u]
        /\ UNCHANGED <<endpoints, endpoint_impls, owner>>
    BY <1>1, <1>7 DEF RegisterCountId, Goto, LocalTypeOK, SharedTypeOK
  <2>2. \A u \in Threads : pc[u] \in RegisterPCs => u = t
    BY <2>1 DEF SoleRegistrar, TableInv, RegisterInv, RegisterPCs
  <2>3. RegisterInv'
    BY <1>1, <1>n, <2>1, <2>2 DEF TableInv, RegisterInv, RegisterPCs, PairOf, Calls
  <2>4. endpoints[PairOf(call[t])] = next_endpoint_id
    BY <2>1 DEF TableInv, RegisterInv
  <2>5. \A q \in Pairs : endpoints[q] <= next_endpoint_id
    <3>1. SUFFICES ASSUME NEW q \in Pairs PROVE endpoints[q] <= next_endpoint_id
      OBVIOUS
    <3>2. CASE endpoints[q] < next_endpoint_id
      BY <1>i, <3>2
    <3>3. CASE PairOf(call[t]) = q
      BY <1>i, <2>4, <3>3
    <3> QED BY <2>2, <3>2, <3>3 DEF TableInv, IdsInv, RegisterPCs
  <2>6. IdsInv'
    <3>1. \A q \in Pairs : endpoints'[q] < next_endpoint_id'
      BY <1>i, <2>1, <2>5
    <3>2. \A i \in EndpointIds : endpoint_impls'[i] # NoImpl => i < next_endpoint_id'
      <4>1. \A i \in EndpointIds : endpoint_impls[i] # NoImpl => i < next_endpoint_id
        BY DEF TableInv, IdsInv
      <4> QED BY <1>i, <2>1, <4>1
    <3> QED BY <3>1, <3>2 DEF IdsInv
  <2>7. ImplsInv' /\ UniqueEndpointIds'
    BY <2>1 DEF TableInv, ImplsInv, UniqueEndpointIds
  <2>8. RegisteredPairsResolve'
    BY <2>1 DEF TableInv, RegisteredPairsResolve
  <2> QED BY <2>3, <2>6, <2>7, <2>8 DEF TableInv
<1>8. CASE RegisterStoreImpl(t)
  <2> DEFINE p == PairOf(call[t])
  <2>1. /\ p \in Pairs /\ call[t].impl \in Impls /\ call[t].id \in EndpointIds
        /\ pc[t] = "reg_store" /\ call[t].id + 1 = next_endpoint_id
        /\ endpoints[p] = call[t].id /\ owner[p] = call[t].impl
    BY <1>1, <1>8 DEF RegisterStoreImpl, InCall, RegisterPCs, Pairs, PairOf, Calls,
                      TableInv, RegisterInv
  <2>2. /\ pc'[t] = "idle"
        /\ \A u \in Threads \ {t} : pc'[u] = pc[u] /\ call'[u] = call[u]
        /\ endpoint_impls' = [endpoint_impls EXCEPT ![call[t].id] = call[t].impl]
        /\ UNCHANGED <<endpoints, next_endpoint_id, owner>>
    BY <1>1, <1>8 DEF RegisterStoreImpl, Return, Goto, LocalTypeOK
  <2> HIDE DEF p
  <2>3. /\ endpoint_impls'[call[t].id] = call[t].impl
        /\ \A i \in EndpointIds \ {call[t].id} : endpoint_impls'[i] = endpoint_impls[i]
    BY <1>1, <2>1, <2>2 DEF SharedTypeOK
  <2>4. RegisterInv'
    BY <2>1, <2>2 DEF TableInv, RegisterInv, RegisterPCs, PairOf
  <2>5. IdsInv'
    <3>1. \A q \in Pairs :
            \/ endpoints'[q] < next_endpoint_id'
            \/ \E u \in Threads : pc'[u] = "reg_count" /\ PairOf(call'[u]) = q
      BY <2>1, <2>2 DEF TableInv, IdsInv
    <3>2. call[t].id < next_endpoint_id
      BY <1>i, <2>1
    <3>3. \A i \in EndpointIds : endpoint_impls'[i] # NoImpl => i < next_endpoint_id'
      BY <2>2, <2>3, <3>2 DEF TableInv, IdsInv
    <3> QED BY <3>1, <3>3 DEF IdsInv
  <2>6. \A q \in Pairs \ {p} : endpoints[q] # call[t].id
    BY <1>n, <2>1 DEF TableInv, UniqueEndpointIds
  <2>7. ImplsInv'
    <3>1. SUFFICES ASSUME NEW q \in Pairs, endpoints[q] # NoId
                   PROVE  endpoint_impls'[endpoints[q]] \in {NoImpl, owner[q]}
      BY <2>2 DEF ImplsInv
    <3>2. endpoints[q] \in EndpointIds
      BY <1>1, <3>1 DEF SharedTypeOK
    <3> QED BY <2>1, <2>3, <2>6, <3>1, <3>2 DEF TableInv, ImplsInv
  <2>8. UniqueEndpointIds'
    BY <2>2 DEF TableInv, UniqueEndpointIds
  <2>9. RegisteredPairsResolve'
    <3>1. SUFFICES ASSUME NEW q \in Pairs, endpoints[q] # NoId,
                          endpoint_impls'[endpoints[q]] # owner[q]
                   PROVE  \E u \in Threads : /\ pc'[u] \in {"reg_count", "reg_store"}
                                             /\ <<call'[u].stream, call'[u].bus>> = q
      BY <2>2 DEF RegisteredPairsResolve
    <3>2. q # p /\ endpoints[q] \in EndpointIds
      BY <1>1, <2>1, <2>3, <3>1 DEF SharedTypeOK
    <3>3. endpoint_impls[endpoints[q]] # owner[q]
      BY <2>3, <2>6, <3>1, <3>2
    <3>4. PICK u \in Threads : /\ pc[u] \in {"reg_count", "reg_store"}
                              /\ <<call[u].stream, call[u].bus>> = q
      BY <3>1, <3>3 DEF TableInv, RegisteredPairsResolve
    <3> QED BY <2>2, <3>2, <3>4 DEF p, PairOf
  <2> QED BY <2>4, <2>5, <2>7, <2>8, <2>9 DEF TableInv
<1>9. CASE TransitionBegin(t)
  BY <1>1, <1>9, TableFrame DEF TransitionBegin, Goto, LocalTypeOK, RegisterPCs
<1>10. CASE TransitionEnd(t)
  BY <1>1, <1>10, TableFrame DEF TransitionEnd, Return, Goto, LocalTypeOK, RegisterPCs
<1>11. CASE SetRootClient(t)
  BY <1>11, TableFrame DEF SetRootClient, RegisterPCs
<1> QED BY <1>2, <1>3, <1>4, <1>5, <1>6, <1>7, <1>8, <1>9, <1>10, <1>11 DEF Begin, Continue

\* A dispatch under way aims at a pair of the table.
LEMMA TargetIsPair ==
    ASSUME TypeInv, NEW t \in Threads, pc[t] \in FramePCs
    PROVE  Target(call[t]) \in Pairs
BY InHandIsRequest DEF TypeInv, TypeOK, LocalTypeOK, InCall, Calls, Target, Pairs, Requests

\* Entries that are never overwritten leave what other threads found true.
LEMMA DispatchOthers ==
    ASSUME TypeInv, DispatchInv, NEW t \in Threads,
           \A p \in Pairs : endpoints[p] # NoId =>
               endpoints'[p] = endpoints[p] /\ owner'[p] = owner[p],
           \A u \in Threads \ {t} : pc'[u] = pc[u] /\ call'[u] = call[u],
           pc'[t] = "resolve" => /\ endpoints'[Target(call'[t])] = call'[t].id
                                 /\ call'[t].id # NoId,
           pc'[t] = "access" => /\ endpoints'[Target(call'[t])] # NoId
                                /\ call'[t].impl = owner'[Target(call'[t])]
    PROVE  DispatchInv'
PROOF
<1>1. ASSUME NEW u \in Threads, u # t
      PROVE  /\ pc'[u] = "resolve" => /\ endpoints'[Target(call'[u])] = call'[u].id
                                     /\ call'[u].id # NoId
             /\ pc'[u] = "access" => /\ endpoints'[Target(call'[u])] # NoId
                                    /\ call'[u].impl = owner'[Target(call'[u])]
  <2>1. pc'[u] = pc[u] /\ call'[u] = call[u]
    BY <1>1
  <2>2. pc[u] \in {"resolve", "access"} => Target(call[u]) \in Pairs
    BY TargetIsPair DEF FramePCs
  <2>3. CASE pc[u] = "resolve"
    BY <2>1, <2>2, <2>3 DEF DispatchInv
  <2>4. CASE pc[u] = "access"
    BY <2>1, <2>2, <2>4 DEF DispatchInv
  <2> QED BY <2>1, <2>3, <2>4
<1> QED BY <1>1 DEF DispatchInv

\* Only Lookup leads to the resolution and only Resolve to the Endpoint.
LEMMA DispatchAbb ==
    ASSUME TypeInv, TableInv, DispatchInv, NEW t \in Threads, HandleAbb(t)
    PROVE  DispatchInv'
PROOF
<1>1. LocalTypeOK /\ SharedTypeOK /\ call[t] \in Calls
  BY DEF TypeInv, TypeOK, LocalTypeOK
<1>2. /\ \A p \in Pairs : endpoints'[p] = endpoints[p] /\ owner'[p] = owner[p]
      /\ \A u \in Threads \ {t} : pc'[u] = pc[u] /\ call'[u] = call[u]
  BY <1>1, HandleAbbFrame
<1>3. ASSUME pc'[t] \notin {"resolve", "access"} PROVE DispatchInv'
  BY <1>2, <1>3, DispatchOthers
<1>4. ASSUME NEW code, NEW payload, Answer(t, code, payload)
      PROVE  pc'[t] \notin {"resolve", "access"}
  BY <1>1, <1>4 DEF Answer, Goto, Route, LocalTypeOK
<1>5. ASSUME NEW error, Fail(t, error) PROVE pc'[t] \notin {"resolve", "access"}
  BY <1>1, <1>4, <1>5 DEF Fail, Return, Goto, LocalTypeOK
<1>t. Target(call[t]) \in Pairs
  BY HandleAbbFrame, TargetIsPair, <1>1
<1>6. CASE Lookup(t)
  <2> DEFINE id == endpoints[<<call[t].stream, InHand(call[t]).bus>>]
             c == [call[t] EXCEPT !.id = id]
  <2>1. CASE id = NoId
    <3>1. Fail(t, "EpNotFound")
      BY <1>6, <2>1 DEF Lookup
    <3> QED BY <1>3, <1>5, <3>1
  <2>2. CASE id # NoId
    <3>1. Goto(t, "resolve", c)
      BY <1>6, <2>2 DEF Lookup
    <3>2. c.id = id /\ c.stream = call[t].stream /\ c.frame = call[t].frame
          /\ c.replies = call[t].replies
      BY <1>1 DEF Calls
    <3>3. Target(c) = Target(call[t])
      BY <3>2 DEF Target, InHand
    <3>4. endpoints[Target(c)] = c.id /\ c.id # NoId
      BY <2>2, <3>2, <3>3 DEF Target
    <3> HIDE DEF id, c
    <3>5. pc'[t] = "resolve" /\ call'[t] = c
      BY <1>1, <3>1 DEF Goto, LocalTypeOK
    <3>6. endpoints'[Target(c)] = endpoints[Target(c)]
      BY <1>2, <1>t, <3>3
    <3> QED BY <1>2, <3>4, <3>5, <3>6, DispatchOthers
  <2> QED BY <2>1, <2>2
<1>7. CASE Resolve(t)
  <2> DEFINE e == endpoint_impls[call[t].id]
             c == [call[t] EXCEPT !.impl = e]
  <2>1. CASE e = NoImpl
    <3>1. Fail(t, "EpNotFound")
      BY <1>7, <2>1 DEF Resolve
    <3> QED BY <1>3, <1>5, <3>1
  <2>2. CASE e # NoImpl
    <3>1. Goto(t, "access", c)
      BY <1>7, <2>2 DEF Resolve
    <3>2. c.impl = e /\ c.stream = call[t].stream /\ c.frame = call[t].frame
          /\ c.replies = call[t].replies
      BY <1>1 DEF Calls
    <3>3. Target(c) = Target(call[t])
      BY <3>2 DEF Target, InHand
    <3>4. endpoints[Target(call[t])] = call[t].id /\ call[t].id # NoId
      BY <1>7 DEF Resolve, DispatchInv
    <3>5. e = owner[Target(call[t])]
      BY <1>t, <2>2, <3>4 DEF TableInv, ImplsInv
    <3> HIDE DEF e, c
    <3>6. pc'[t] = "access" /\ call'[t] = c
      BY <1>1, <3>1 DEF Goto, LocalTypeOK
    <3>7. /\ endpoints'[Target(c)] = endpoints[Target(c)]
          /\ owner'[Target(c)] = owner[Target(c)]
      BY <1>2, <1>t, <3>3
    <3> QED BY <1>2, <3>2, <3>3, <3>4, <3>5, <3>6, <3>7, DispatchOthers
  <2> QED BY <2>1, <2>2
<1>8. CASE Ep0ReadState(t) \/ Ep0Check(t)
  <2>1. pc'[t] \notin {"resolve", "access"}
    BY <1>1, <1>5, <1>8 DEF Ep0ReadState, Ep0Check, Goto, LocalTypeOK
  <2> QED BY <1>3, <2>1
<1>9. CASE Ep0Read(t) \/ Ep0Write(t) \/ Ep0WriteShort(t)
  BY <1>3, <1>4, <1>5, <1>9 DEF Ep0Read, Ep0Write, Ep0WriteShort
<1>10. CASE DeviceRead(t) \/ DeviceWrite(t) \/ DeviceError(t)
  BY <1>3, <1>4, <1>5, <1>10 DEF DeviceRead, DeviceWrite, DeviceError
<1> QED BY <1>6, <1>7, <1>8, <1>9, <1>10 DEF HandleAbb

\* No step makes a dispatch under way reach another pair's Endpoint.
LEMMA DispatchStep ==
    ASSUME TypeInv, TableInv, DispatchInv, NEW t \in Threads, Begin(t) \/ Continue(t)
    PROVE  DispatchInv'
PROOF
<1>1. LocalTypeOK /\ SharedTypeOK
  BY DEF TypeInv, TypeOK
<1>2. CASE HandleFrame(t)
  <2>1. PICK c : Goto(t, Route(c), c)
    BY <1>2 DEF HandleFrame
  <2>2. Route(c) \notin {"resolve", "access"}
    BY DEF Route
  <2> QED BY <1>1, <1>2, <2>1, <2>2, DispatchOthers DEF HandleFrame, Goto, LocalTypeOK, shared
<1>3. CASE Respond(t)
  BY <1>1, <1>3, DispatchOthers DEF Respond, Return, Goto, LocalTypeOK
<1>4. CASE RegisterLoadId(t)
  BY <1>1, <1>4, DispatchOthers DEF RegisterLoadId, Goto, LocalTypeOK, shared
<1>5. CASE RegisterInTable(t)
  <2>1. \A p \in Pairs : endpoints[p] # NoId =>
          endpoints'[p] = endpoints[p] /\ owner'[p] = owner[p]
    BY <1>1, <1>5 DEF RegisterInTable, register, SharedTypeOK
  <2> QED BY <1>1, <1>5, <2>1, DispatchOthers DEF RegisterInTable, Return, Goto, LocalTypeOK
<1>6. CASE RegisterCountId(t)
  BY <1>1, <1>6, DispatchOthers DEF RegisterCountId, Goto, LocalTypeOK
<1>7. CASE RegisterStoreImpl(t)
  BY <1>1, <1>7, DispatchOthers DEF RegisterStoreImpl, Return, Goto, LocalTypeOK
<1>8. CASE TransitionBegin(t)
  BY <1>1, <1>8, DispatchOthers DEF TransitionBegin, Goto, LocalTypeOK
<1>9. CASE TransitionEnd(t)
  BY <1>1, <1>9, DispatchOthers DEF TransitionEnd, Return, Goto, LocalTypeOK
<1>10. CASE SetRootClient(t)
  BY <1>10 DEF SetRootClient, DispatchInv
<1> QED BY <1>2, DispatchAbb, <1>3, <1>4, <1>5, <1>6, <1>7, <1>8, <1>9, <1>10
        DEF Begin, Continue

\* The invariant behind the three theorems below.
RoutingInv == TypeInv /\ TableInv /\ DispatchInv

\* With one registering thread the table and every dispatch stay consistent.
LEMMA RoutingInvariant ==
    ASSUME SoleRegistrar
    PROVE  Spec => []RoutingInv
<1>1. Init => RoutingInv
  <2> SUFFICES ASSUME Init PROVE RoutingInv
    OBVIOUS
  <2>1. TypeInv
    BY InitType
  <2>2. DispatchInv /\ RegisterInv
    BY DEF Init, DispatchInv, RegisterInv, RegisterPCs
  <2>3. /\ \A p \in Pairs : endpoints[p] = NoId
        /\ \A i \in EndpointIds : endpoint_impls[i] = NoImpl
    BY DEF Init
  <2>4. NoId < 0
    BY DEF NoId
  <2>5. IdsInv
    BY <2>3, <2>4 DEF Init, IdsInv
  <2>6. ImplsInv /\ UniqueEndpointIds /\ RegisteredPairsResolve
    BY <2>3 DEF ImplsInv, UniqueEndpointIds, RegisteredPairsResolve
  <2> QED BY <2>1, <2>2, <2>5, <2>6 DEF RoutingInv, TableInv
<1>2. RoutingInv /\ [Next]_vars => RoutingInv'
  <2> SUFFICES ASSUME RoutingInv, [Next]_vars PROVE RoutingInv'
    OBVIOUS
  <2>1. CASE Next
    BY <2>1, StepType, TableStep, DispatchStep DEF Next, RoutingInv
  <2>2. CASE UNCHANGED vars
    <3>1. TypeInv'
      BY <2>2, StutterType DEF RoutingInv
    <3>2. TableInv' /\ DispatchInv'
      BY <2>2 DEF RoutingInv, TableInv, RegisterInv, IdsInv, ImplsInv, UniqueEndpointIds,
                  RegisteredPairsResolve, DispatchInv, vars, shared, PairOf, Target, InHand
    <3> QED BY <3>1, <3>2 DEF RoutingInv
  <2> QED BY <2>1, <2>2
<1> QED BY <1>1, <1>2, PTL DEF Spec

\* One registering thread: register_endpoint never hands out an id twice.  (With
\* two the run RcServerRace refutes it.)
THEOREM EndpointIdsUnique ==
    ASSUME SoleRegistrar
    PROVE  Spec => []UniqueEndpointIds
<1>1. RoutingInv => UniqueEndpointIds
  BY DEF RoutingInv, TableInv
<1> QED BY RoutingInvariant, <1>1, PTL

\* One registering thread: whatever is registered between the lookup and the
\* resolution of a request, it reaches the Endpoint of its own pair.
THEOREM RequestsReachTheirEndpoint ==
    ASSUME SoleRegistrar
    PROVE  Spec => []ReachesRegisteredEndpoint
<1>1. RoutingInv => ReachesRegisteredEndpoint
  BY DEF RoutingInv, DispatchInv, ReachesRegisteredEndpoint, Target
<1> QED BY RoutingInvariant, <1>1, PTL

\* One registering thread: a pair whose registration has returned resolves to its
\* Endpoint for good.
THEOREM RegisteredPairsAlwaysResolve ==
    ASSUME SoleRegistrar
    PROVE  Spec => []RegisteredPairsResolve
<1>1. RoutingInv => RegisteredPairsResolve
  BY DEF RoutingInv, TableInv
<1> QED BY RoutingInvariant, <1>1, PTL

\* A step moves no thread but its own.
LEMMA OnlyOwnThreadMoves ==
    ASSUME TypeInv, NEW t \in Threads, Begin(t) \/ Continue(t), NEW u \in Threads, u # t
    PROVE  pc'[u] = pc[u] /\ call'[u] = call[u]
PROOF
<1>1. LocalTypeOK
  BY DEF TypeInv, TypeOK
<1>2. CASE HandleAbb(t)
  BY <1>1, <1>2, HandleAbbFrame
<1>3. CASE HandleFrame(t)
  <2>1. PICK c : Goto(t, Route(c), c)
    BY <1>3 DEF HandleFrame
  <2> QED BY <1>1, <2>1 DEF Goto, LocalTypeOK
<1>4. CASE Respond(t) \/ RegisterStoreImpl(t) \/ TransitionEnd(t)
  BY <1>1, <1>4 DEF Respond, RegisterStoreImpl, TransitionEnd, Return, Goto, LocalTypeOK
<1>5. CASE RegisterLoadId(t) \/ RegisterInTable(t) \/ RegisterCountId(t) \/ TransitionBegin(t)
  BY <1>1, <1>5 DEF RegisterLoadId, RegisterInTable, RegisterCountId, TransitionBegin,
                    Return, Goto, LocalTypeOK
<1>6. CASE SetRootClient(t)
  BY <1>6 DEF SetRootClient
<1> QED BY <1>2, <1>3, <1>4, <1>5, <1>6 DEF Begin, Continue

\* The root client's own EP0 write is granted in every lifecycle state, as the
\* documentation of handle_abb says, however the lifecycle moves meanwhile.
THEOREM RootWritesGranted == Spec => RootIsNeverRefused
<1>1. Init => RootsInv
  BY DEF Init, RootsInv
<1>2. TypeInv /\ RootsInv /\ [Next]_vars => RootsInv'
  BY RootsStep DEF Next, RootsInv, vars, shared
<1> DEFINE Granted == \A t \in Threads :
              /\ pc[t] = "ep0_check" /\ pc'[t] # "ep0_check"
              /\ InHand(call[t]).write /\ roots[t] = {call[t].stream}
              => pc'[t] = "ep0_access"
<1>3. TypeInv /\ RootsInv /\ [Next]_vars => [Granted]_vars
  <2>1. SUFFICES ASSUME TypeInv, RootsInv, NEW u \in Threads, Begin(u) \/ Continue(u),
                        NEW t \in Threads, pc[t] = "ep0_check", pc'[t] # "ep0_check",
                        InHand(call[t]).write, roots[t] = {call[t].stream}
                 PROVE  pc'[t] = "ep0_access"
    BY DEF Next
  <2>2. t = u
    BY <2>1, OnlyOwnThreadMoves
  <2>3. LocalTypeOK /\ SharedTypeOK /\ call[t] \in Calls
    BY <2>1 DEF TypeInv, TypeOK, LocalTypeOK
  <2>4. Ep0Check(t) \/ SetRootClient(t)
    BY <2>1, <2>2 DEF Begin, Continue, HandleFrame, HandleAbb, Respond, RegisterLoadId,
          RegisterInTable, RegisterCountId, RegisterStoreImpl, TransitionBegin,
          TransitionEnd, Ep0ReadState, Ep0Read, Ep0Write, Ep0WriteShort, Lookup,
          Resolve, DeviceRead, DeviceWrite, DeviceError
  <2>5. Ep0Check(t)
    BY <2>1, <2>4 DEF SetRootClient
  <2>6. root_client = call[t].stream
    BY <2>1 DEF RootsInv
  <2>7. check_ep0_access_for_stream(call[t].state, "General", InHand(call[t]).write,
                                    call[t].stream, root_client) = "Ok"
    BY <2>1, <2>6 DEF check_ep0_access_for_stream, is_root_client, check_ep0_access,
          check_register_writable, is_register_writable, is_register_reachable, lock_policy
  <2>8. Goto(t, "ep0_access", call[t])
    BY <2>5, <2>7 DEF Ep0Check
  <2> QED BY <2>3, <2>8 DEF Goto, LocalTypeOK
<1> QED BY TypeInvariant, <1>1, <1>2, <1>3, PTL DEF Spec, RootIsNeverRefused

-----------------------------------------------------------------------------
(* The batch: each reply stays next to its own request. *)

EchoInv ==
    \A t \in Threads : pc[t] \in FramePCs \cup {"respond"} =>
        \A i \in 1..Len(call[t].replies) :
            /\ call[t].replies[i].bus = call[t].frame[i].bus
            /\ call[t].replies[i].txn = call[t].frame[i].txn

\* A reply is appended for the request in hand.
LEMMA EchoAnswer ==
    ASSUME TypeInv, EchoInv, NEW t \in Threads, pc[t] \in FramePCs,
           NEW code \in WireErrors \cup {"Ok"}, NEW payload \in Payloads,
           Answer(t, code, payload)
    PROVE  EchoInv'
PROOF
<1> DEFINE reply == ReplyTo(InHand(call[t]), code, payload)
           c == [call[t] EXCEPT !.replies = Append(@, reply),
                                !.id = 0, !.impl = NoImpl, !.state = INITIAL]
<1>1. /\ LocalTypeOK /\ InCall(t) /\ call[t] \in Calls
      /\ call[t].frame \in Frames /\ Len(call[t].replies) < Len(call[t].frame)
      /\ call[t].replies \in Seq(Replies) /\ InHand(call[t]) \in Requests
  BY InHandIsRequest DEF TypeInv, TypeOK, LocalTypeOK, InCall, Calls
<1>2. /\ reply \in Replies
      /\ reply.bus = InHand(call[t]).bus /\ reply.txn = InHand(call[t]).txn
  BY <1>1 DEF ReplyTo, Replies, Requests
<1> HIDE DEF reply
<1>3. /\ c.frame = call[t].frame /\ c.replies = Append(call[t].replies, reply)
  BY <1>1 DEF Calls
<1>4. \A i \in 1..Len(c.replies) :
        /\ c.replies[i].bus = c.frame[i].bus
        /\ c.replies[i].txn = c.frame[i].txn
  <2>1. SUFFICES ASSUME NEW i \in 1..Len(c.replies)
                 PROVE  c.replies[i].bus = c.frame[i].bus /\ c.replies[i].txn = c.frame[i].txn
    OBVIOUS
  <2> HIDE DEF c
  <2>2. Len(c.replies) = Len(call[t].replies) + 1 /\ Len(call[t].replies) \in Nat
    BY <1>1, <1>2, <1>3
  <2>3. CASE i = Len(call[t].replies) + 1
    <3>1. c.replies[i] = reply
      BY <1>1, <1>2, <1>3, <2>3
    <3> QED BY <1>2, <1>3, <2>3, <3>1 DEF InHand
  <2>4. CASE i # Len(call[t].replies) + 1
    <3>1. i \in 1..Len(call[t].replies)
      BY <2>2, <2>4
    <3>2. c.replies[i] = call[t].replies[i]
      BY <1>1, <1>2, <1>3, <3>1
    <3> QED BY <1>3, <3>1, <3>2 DEF EchoInv
  <2> QED BY <2>3, <2>4
<1>5. /\ call' = [call EXCEPT ![t] = c] /\ pc' = [pc EXCEPT ![t] = Route(c)]
  BY DEF Answer, Goto, reply
<1> HIDE DEF c
<1> QED BY <1>1, <1>4, <1>5 DEF EchoInv, LocalTypeOK

\* An error is a reply for the request in hand or the end of the call.
LEMMA EchoFail ==
    ASSUME TypeInv, EchoInv, NEW t \in Threads, pc[t] \in FramePCs,
           NEW error, Fail(t, error)
    PROVE  EchoInv'
PROOF
<1>1. CASE error \in WireErrors
  BY <1>1, EchoAnswer DEF Fail, Payloads
<1>2. CASE error \notin WireErrors
  BY <1>2 DEF Fail, Return, Goto, EchoInv, TypeInv, TypeOK, LocalTypeOK, FramePCs
<1> QED BY <1>1, <1>2

\* Moving on without a reply leaves the replies alone.
LEMMA EchoGoto ==
    ASSUME TypeInv, EchoInv, NEW t \in Threads, NEW label, NEW c, Goto(t, label, c),
           \/ label \notin FramePCs \cup {"respond"}
           \/ c.replies = <<>>
           \/ pc[t] \in FramePCs /\ c.replies = call[t].replies /\ c.frame = call[t].frame
    PROVE  EchoInv'
BY DEF Goto, EchoInv, TypeInv, TypeOK, LocalTypeOK

\* Every step keeps replies and requests aligned.
LEMMA EchoStep ==
    ASSUME TypeInv, EchoInv, NEW t \in Threads, Begin(t) \/ Continue(t)
    PROVE  EchoInv'
PROOF
<1>1. LocalTypeOK /\ SharedTypeOK /\ InCall(t) /\ call[t] \in Calls
  BY DEF TypeInv, TypeOK, LocalTypeOK
<1>2. CASE HandleFrame(t)
  <2>1. PICK s \in Streams, f \in Frames :
          LET c == [NoCall EXCEPT !.stream = s, !.frame = f] IN Goto(t, Route(c), c)
    BY <1>2 DEF HandleFrame
  <2>2. [NoCall EXCEPT !.stream = s, !.frame = f].replies = <<>>
    BY DEF NoCall
  <2> QED BY <2>1, <2>2, EchoGoto
<1>3. CASE Ep0ReadState(t)
  <2>1. [call[t] EXCEPT !.state = state].replies = call[t].replies
        /\ [call[t] EXCEPT !.state = state].frame = call[t].frame
    BY <1>1 DEF Calls
  <2> QED BY <1>3, <2>1, EchoGoto DEF Ep0ReadState, FramePCs
<1>4. CASE Ep0Check(t)
  BY <1>4, EchoGoto, EchoFail DEF Ep0Check, FramePCs
<1>5. CASE Ep0Read(t)
  BY <1>1, <1>5, EchoAnswer DEF Ep0Read, FramePCs, Payloads, SharedTypeOK
<1>6. CASE Ep0Write(t)
  BY <1>6, EchoAnswer DEF Ep0Write, FramePCs, Payloads
<1>7. CASE Ep0WriteShort(t)
  BY <1>7, EchoFail DEF Ep0WriteShort, FramePCs
<1>8. CASE Lookup(t)
  <2> DEFINE id == endpoints[<<call[t].stream, InHand(call[t]).bus>>]
  <2>1. [call[t] EXCEPT !.id = id].replies = call[t].replies
        /\ [call[t] EXCEPT !.id = id].frame = call[t].frame
    BY <1>1 DEF Calls
  <2> QED BY <1>8, <2>1, EchoGoto, EchoFail DEF Lookup, FramePCs
<1>9. CASE Resolve(t)
  <2> DEFINE e == endpoint_impls[call[t].id]
  <2>1. [call[t] EXCEPT !.impl = e].replies = call[t].replies
        /\ [call[t] EXCEPT !.impl = e].frame = call[t].frame
    BY <1>1 DEF Calls
  <2> QED BY <1>9, <2>1, EchoGoto, EchoFail DEF Resolve, FramePCs
<1>10. CASE DeviceRead(t)
  <2>1. buf[call[t].impl] \in Payloads
    BY <1>1, <1>10 DEF DeviceRead, InCall, SharedTypeOK
  <2> QED BY <1>10, <2>1, EchoAnswer DEF DeviceRead, FramePCs
<1>11. CASE DeviceWrite(t)
  BY <1>11, EchoAnswer DEF DeviceWrite, FramePCs, Payloads
<1>12. CASE DeviceError(t)
  BY <1>12, EchoFail DEF DeviceError, FramePCs
<1>13. CASE Respond(t) \/ RegisterStoreImpl(t) \/ TransitionEnd(t)
  BY <1>13, EchoGoto DEF Respond, RegisterStoreImpl, TransitionEnd, Return, FramePCs
<1>14. CASE RegisterLoadId(t) \/ RegisterInTable(t) \/ RegisterCountId(t) \/ TransitionBegin(t)
  BY <1>14, EchoGoto DEF RegisterLoadId, RegisterInTable, RegisterCountId, TransitionBegin,
                         Return, FramePCs
<1>15. CASE SetRootClient(t)
  BY <1>15 DEF SetRootClient, EchoInv
<1> QED BY <1>2, <1>3, <1>4, <1>5, <1>6, <1>7, <1>8, <1>9, <1>10, <1>11, <1>12, <1>13,
           <1>14, <1>15 DEF Begin, Continue, HandleAbb

\* A response frame holds one reply per request of the batch, in wire order, with
\* the request's own byte_bus_id and transaction_num.
THEOREM BatchesEchoed == Spec => []RepliesInWireOrder
<1>1. Init => EchoInv
  BY DEF Init, EchoInv, FramePCs
<1>2. TypeInv /\ EchoInv /\ [Next]_vars => EchoInv'
  BY EchoStep DEF Next, EchoInv, vars, shared
<1>3. TypeInv /\ EchoInv => RepliesInWireOrder
  BY DEF TypeInv, InCall, EchoInv, RepliesInWireOrder
<1> QED BY TypeInvariant, <1>1, <1>2, <1>3, PTL DEF Spec
=============================================================================
