------------------------ MODULE RequestStreamProofs ------------------------
(* Theorems about RequestStream, for every set of requests, every plan and
   configuration and any number of sequencers. *)
EXTENDS RequestStream, FiniteSetTheorems, SetInduction, TLAPS

USE RulesAssumption, StreamAssumption

LocalTypeOK ==
    /\ bank \in [Sequencers -> SeqStates]
    /\ lifecycle \in [Requests -> LifecycleStates \cup {"Absent"}]
    /\ held \in SUBSET Requests /\ working \in SUBSET Requests
    /\ arrival \in [Requests -> Nat] /\ arrivals \in Nat
    /\ last_seq \in Nat /\ last_reset \in Nat /\ now \in Nat
    /\ hiz \in BOOLEAN
    /\ outcome \in [Requests -> Outcomes \cup {"none"}]
    /\ seq_of \in [Requests -> Nat] /\ heard \in Nat

\* What the loop keeps, what an endpoint works on and what was answered agree.
Table ==
    \A r \in Requests :
        /\ lifecycle[r] = "Absent" => r \notin held /\ r \notin working
        /\ lifecycle[r] = "UnderExecution" => r \in held
        /\ r \in held /\ lifecycle[r] # "Finalized" => outcome[r] = "none"
        /\ r \in working => lifecycle[r] \in {"UnderExecution", "Finalized"}
        /\ lifecycle[r] = "Finalized" => outcome[r] # "none"

\* The watchdog was reset by the last request, queued or not.
Reset == last_reset = heard /\ last_reset <= now

Inv == LocalTypeOK /\ Table /\ Reset

-----------------------------------------------------------------------------
\* An empty bank of sequencers all at the power-on state is well typed.
LEMMA NewBankType == new_bank \in [Sequencers -> SeqStates]
BY DEF new_bank

\* Both writers of the bank keep its type, whatever the sequencer number.
LEMMA ForceType ==
    ASSUME NEW b \in [Sequencers -> SeqStates], NEW s \in Nat, NEW v \in SeqStates
    PROVE  force_state(b, s, v) \in [Sequencers -> SeqStates]
BY DEF force_state, check_sequencer_num_in_bounds

LEMMA AdvanceType ==
    ASSUME NEW b \in [Sequencers -> SeqStates], NEW gate, NEW v \in SeqStates
    PROVE  advance_if_still_in_start_state(b, gate, v) \in [Sequencers -> SeqStates]
BY DEF advance_if_still_in_start_state, check_sequencer_num_in_bounds

\* A safety reaction touches the bank and the pins only, and keeps their types.
LEMMA SafeStateType ==
    ASSUME LocalTypeOK, NEW drives, SafeState(drives)
    PROVE  bank' \in [Sequencers -> SeqStates] /\ hiz' \in BOOLEAN
<1>1. /\ Cfg.rx_safestate_sequencer \in Nat /\ Cfg.rx_safe_sequencer_state \in SeqStates
  BY DEF CfgType
<1>2. bank' \in [Sequencers -> SeqStates]
  BY <1>1, ForceType DEF SafeState, LocalTypeOK, safe_state_sequencer_gate
<1>3. hiz' \in BOOLEAN
  BY DEF SafeState, LocalTypeOK
<1> QED BY <1>2, <1>3

LEMMA InitInv == Init => Inv
<1> SUFFICES ASSUME Init PROVE Inv
  OBVIOUS
<1>1. bank \in [Sequencers -> SeqStates]
  BY NewBankType DEF Init
<1>2. LocalTypeOK
  BY <1>1 DEF Init, LocalTypeOK, LifecycleStates, Outcomes
<1> QED BY <1>2 DEF Init, Inv, Table, Reset

\* One lemma per action that writes more than one field of the table.
LEMMA AdmitInv ==
    ASSUME Inv, NEW r \in Requests, NEW seq \in SeqNums, NEW intact, Admit(r, seq, intact)
    PROVE  Inv'
<1>1. LocalTypeOK'
  BY DEF Admit, Inv, LocalTypeOK, LifecycleStates
<1>2. Table'
  BY DEF Admit, Inv, LocalTypeOK, Table
<1>3. Reset'
  <2>1. now' = now /\ last_reset' = now /\ heard' = now
    BY DEF Admit
  <2>2. now \in Nat
    BY DEF Inv, LocalTypeOK
  <2> QED BY <2>1, <2>2 DEF Reset
<1> QED BY <1>1, <1>2, <1>3 DEF Inv

LEMMA RefuseInv ==
    ASSUME Inv, NEW r \in Requests, NEW seq \in SeqNums, NEW intact, Refuse(r, seq, intact)
    PROVE  Inv'
<1>1. bank' \in [Sequencers -> SeqStates] /\ hiz' \in BOOLEAN
  BY SafeStateType DEF Refuse, Inv
<1>2. LocalTypeOK'
  BY <1>1 DEF Refuse, Inv, LocalTypeOK, Outcomes
<1>3. Table'
  BY DEF Refuse, Inv, LocalTypeOK, Table
<1>4. Reset'
  <2>1. now' = now /\ last_reset' = now /\ heard' = now
    BY DEF Refuse
  <2>2. now \in Nat
    BY DEF Inv, LocalTypeOK
  <2> QED BY <2>1, <2>2 DEF Reset
<1> QED BY <1>2, <1>3, <1>4 DEF Inv

LEMMA StartInv ==
    ASSUME Inv, NEW r \in Requests, Start(r)
    PROVE  Inv'
<1>1. r \in held /\ lifecycle[r] = "Pending"
  BY DEF Start, Eligible, Pending
<1> QED BY <1>1 DEF Start, Inv, LocalTypeOK, Table, Reset, stream, LifecycleStates

LEMMA ExecuteInv ==
    ASSUME Inv, NEW r \in Requests, Execute(r)
    PROVE  Inv'
BY DEF Execute, Inv, LocalTypeOK, Table, Reset, stream, LifecycleStates

LEMMA FailInv ==
    ASSUME Inv, NEW r \in Requests, Fail(r)
    PROVE  Inv'
BY DEF Fail, Inv, LocalTypeOK, Table, Reset, stream, Outcomes

LEMMA CancelInv ==
    ASSUME Inv, NEW c \in Requests, Cancel(c)
    PROVE  Inv'
<1> DEFINE canceled == {r \in held \ {c} : CancelVerdict(c, r) = "RequestCanceled"}
<1>1. canceled \subseteq held
  OBVIOUS
<1>2. /\ lifecycle' = [r \in Requests |->
                         IF r \in canceled \cup {c} THEN "Finalized" ELSE lifecycle[r]]
      /\ outcome' = [r \in Requests |-> IF r \in canceled THEN "canceled"
                                        ELSE IF r = c THEN "done" ELSE outcome[r]]
      /\ UNCHANGED <<bank, held, working, stream, now, hiz>>
  BY DEF Cancel
<1>3. lifecycle[c] = "Started" /\ c \in held
  BY DEF Cancel
<1> HIDE DEF canceled
<1>4. LocalTypeOK'
  BY <1>2 DEF Inv, LocalTypeOK, stream, Outcomes, LifecycleStates
<1>5. Table'
  BY <1>1, <1>2, <1>3 DEF Inv, LocalTypeOK, Table, stream
<1> QED BY <1>2, <1>4, <1>5 DEF Inv, Reset, stream

LEMMA CompleteInv ==
    ASSUME Inv, NEW r \in Requests, NEW succeeded \in BOOLEAN, Complete(r, succeeded)
    PROVE  Inv'
<1>1. CASE Verdict(r, "Finalized") = "Ok"
  <2>1. Plan[r].next_state \in SeqStates
    BY DEF PlanType
  <2>2. bank' \in [Sequencers -> SeqStates]
    <3> DEFINE moved == advance_if_still_in_start_state(bank, Facts(r).gate, Plan[r].next_state)
    <3>1. bank' = bank \/ bank' = moved
      BY <1>1 DEF Complete
    <3>2. bank \in [Sequencers -> SeqStates]
      BY DEF Inv, LocalTypeOK
    <3>3. moved \in [Sequencers -> SeqStates]
      BY <2>1, <3>2, AdvanceType
    <3> QED BY <3>1, <3>2, <3>3
  <2>3. LocalTypeOK'
    BY <1>1, <2>2 DEF Complete, Inv, LocalTypeOK, stream, Outcomes, LifecycleStates
  <2>4. Table'
    BY <1>1 DEF Complete, Inv, LocalTypeOK, Table
  <2> QED BY <2>3, <2>4 DEF Complete, Inv, Reset, stream
<1>2. CASE Verdict(r, "Finalized") # "Ok"
  BY <1>2 DEF Complete, Inv, LocalTypeOK, Table, Reset, stream
<1> QED BY <1>1, <1>2

LEMMA ReleaseInv ==
    ASSUME Inv, NEW r \in Requests, Release(r)
    PROVE  Inv'
BY DEF Release, Inv, LocalTypeOK, Table, Reset, stream

LEMMA EvaluateWatchdogInv ==
    ASSUME Inv, EvaluateWatchdog
    PROVE  Inv'
<1> DEFINE wd == evaluate_stream_watchdog(last_reset, now, Cfg)
           purged == {r \in Pending :
                        check_watchdog_overflow_purge(Plan[r].kind, watchdog_overflowed(wd)) # "Ok"}
<1>1. purged \subseteq {r \in held : lifecycle[r] = "Pending"}
  BY DEF Pending
<1>2. /\ held' = held \ purged
      /\ outcome' = [r \in Requests |-> IF r \in purged THEN "purged" ELSE outcome[r]]
      /\ UNCHANGED <<lifecycle, working, stream, now>>
  BY DEF EvaluateWatchdog
<1>3. bank' \in [Sequencers -> SeqStates] /\ hiz' \in BOOLEAN
  BY SafeStateType DEF EvaluateWatchdog, Inv
<1> HIDE DEF purged
<1>4. LocalTypeOK'
  BY <1>2, <1>3 DEF Inv, LocalTypeOK, stream, Outcomes
<1>5. Table'
  BY <1>1, <1>2 DEF Inv, LocalTypeOK, Table
<1> QED BY <1>2, <1>4, <1>5 DEF Inv, Reset, stream

LEMMA NextInv == Inv /\ [Next]_vars => Inv'
<1> SUFFICES ASSUME Inv, [Next]_vars PROVE Inv'
  OBVIOUS
<1>1. CASE UNCHANGED vars
  BY <1>1 DEF vars, Inv, LocalTypeOK, Table, Reset
<1>2. CASE Tick
  BY <1>2 DEF Tick, Inv, LocalTypeOK, Table, Reset, stream
<1> QED BY <1>1, <1>2, AdmitInv, RefuseInv, StartInv, ExecuteInv, FailInv, CancelInv,
           CompleteInv, ReleaseInv, EvaluateWatchdogInv DEF Next

LEMMA Invariant == Spec => []Inv
BY InitInv, NextInv, PTL DEF Spec

-----------------------------------------------------------------------------
\* The pending requests stay within the storage of the server: only Admit adds
\* one, and it finds room.
LEMMA PendingFinite ==
    ASSUME LocalTypeOK
    PROVE  IsFiniteSet(Pending)
<1>1. IsFiniteSet(Requests) /\ Pending \subseteq Requests
  BY DEF LocalTypeOK, Pending
<1> QED BY <1>1, FS_Subset

LEMMA StorageStep ==
    ASSUME Inv, Inv', Cardinality(Pending) <= StorageSize, [Next]_vars
    PROVE  Cardinality(Pending') <= StorageSize
<1>1. IsFiniteSet(Pending) /\ Cardinality(Pending) \in Nat
  BY PendingFinite, FS_CardinalityType DEF Inv
<1>2. Pending' \subseteq Pending => Cardinality(Pending') <= StorageSize
  <2>1. SUFFICES ASSUME Pending' \subseteq Pending PROVE Cardinality(Pending') <= Cardinality(Pending)
    <3>1. Pending' \subseteq Pending => Cardinality(Pending') \in Nat
      BY <1>1, FS_Subset, FS_CardinalityType
    <3> QED BY <1>1, <2>1, <3>1
  <2> QED BY <1>1, <2>1, FS_Subset
<1>3. ASSUME NEW r \in Requests, NEW seq \in SeqNums, NEW intact \in BOOLEAN,
             Admit(r, seq, intact)
      PROVE  Cardinality(Pending') <= StorageSize
  <2>1. Pending' \subseteq Pending \cup {r}
    BY <1>3 DEF Admit, Pending, Inv, LocalTypeOK
  <2>2. Cardinality(Pending) < StorageSize
    BY <1>1, <1>3 DEF Admit, Welcome, Verdicts, evaluate_request_storage_overflow
  <2>3. IsFiniteSet(Pending \cup {r}) /\ Cardinality(Pending \cup {r}) <= Cardinality(Pending) + 1
    <3>1. IsFiniteSet(Pending \cup {r})
      BY ONLY <1>1, FS_AddElement
    <3>2. Cardinality(Pending \cup {r})
             = IF r \in Pending THEN Cardinality(Pending) ELSE Cardinality(Pending) + 1
      BY ONLY <1>1, FS_AddElement
    <3> QED BY <1>1, <3>1, <3>2
  <2>4. Cardinality(Pending \cup {r}) \in Nat
    BY <2>3, FS_CardinalityType
  <2>5. Cardinality(Pending') <= Cardinality(Pending \cup {r}) /\ Cardinality(Pending') \in Nat
    BY <2>1, <2>3, FS_Subset, FS_CardinalityType
  <2> QED BY <1>1, <2>2, <2>3, <2>4, <2>5
<1>4. ASSUME NEW r \in Requests, \/ Start(r) \/ Execute(r) \/ Fail(r) \/ Release(r)
      PROVE  Pending' \subseteq Pending
  BY <1>4 DEF Start, Execute, Fail, Release, Pending, Inv, LocalTypeOK
<1>5. ASSUME NEW c \in Requests, Cancel(c)
      PROVE  Pending' \subseteq Pending
  BY <1>5 DEF Cancel, Pending, Inv, LocalTypeOK
<1>6. ASSUME NEW r \in Requests, NEW succeeded \in BOOLEAN, Complete(r, succeeded)
      PROVE  Pending' \subseteq Pending
  BY <1>6 DEF Complete, Pending, Inv, LocalTypeOK
<1>7. (\E r \in Requests, seq \in SeqNums, intact \in BOOLEAN : Refuse(r, seq, intact))
         \/ EvaluateWatchdog \/ Tick \/ UNCHANGED vars => Pending' \subseteq Pending
  BY DEF Refuse, EvaluateWatchdog, Tick, vars, Pending
<1> QED BY <1>2, <1>3, <1>4, <1>5, <1>6, <1>7 DEF Next

\* Types, and room for every pending request.
THEOREM TypeCorrect == Spec => []TypeOK
<1>1. Init => Cardinality(Pending) <= StorageSize
  <2> SUFFICES ASSUME Init PROVE Cardinality(Pending) <= StorageSize
    OBVIOUS
  <2>1. Pending = {}
    BY DEF Init, Pending
  <2> QED BY <2>1, FS_EmptySet
<1>2. Inv /\ Inv' /\ Cardinality(Pending) <= StorageSize /\ [Next]_vars
        => (Cardinality(Pending) <= StorageSize)'
  BY StorageStep
<1>3. Inv /\ Cardinality(Pending) <= StorageSize => TypeOK
  BY DEF Inv, LocalTypeOK, TypeOK
<1> QED BY <1>1, <1>2, <1>3, Invariant, PTL DEF Spec

-----------------------------------------------------------------------------
\* An outcome that is out stays; RequestStream implements RequestPromise.
LEMMA OutcomeStep ==
    ASSUME Inv, Next, NEW r \in Requests, outcome[r] # "none"
    PROVE  outcome'[r] = outcome[r]
<1>1. ASSUME NEW q \in Requests, NEW seq \in SeqNums, NEW intact \in BOOLEAN,
             Admit(q, seq, intact) \/ Refuse(q, seq, intact)
      PROVE  outcome'[r] = outcome[r]
  BY <1>1 DEF Admit, Refuse, Inv, LocalTypeOK
<1>2. ASSUME NEW q \in Requests, Start(q) \/ Execute(q) \/ Release(q)
      PROVE  outcome'[r] = outcome[r]
  BY <1>2 DEF Start, Execute, Release
<1>3. ASSUME NEW q \in Requests, Fail(q)
      PROVE  outcome'[r] = outcome[r]
  BY <1>3 DEF Fail, Inv, LocalTypeOK, Table
<1>4. ASSUME NEW c \in Requests, Cancel(c)
      PROVE  outcome'[r] = outcome[r]
  <2>1. CancelVerdict(c, r) = "RequestCanceled" => lifecycle[r] # "Finalized"
    BY DEF CancelVerdict, try_force_cancel_all, try_force_cancel_non_safestate,
           try_force_cancel_single
  <2> QED BY <1>4, <2>1 DEF Cancel, Inv, LocalTypeOK, Table
<1>5. ASSUME NEW q \in Requests, NEW succeeded \in BOOLEAN, Complete(q, succeeded)
      PROVE  outcome'[r] = outcome[r]
  <2>1. Verdict(q, "Finalized") = "Ok" => lifecycle[q] = "UnderExecution"
    BY DEF Verdict, try_transition, is_request_lifecycle_transition_defined
  <2> QED BY <1>5, <2>1 DEF Complete, Inv, LocalTypeOK, Table
<1>6. EvaluateWatchdog => outcome'[r] = outcome[r]
  BY DEF EvaluateWatchdog, Pending, Inv, LocalTypeOK, Table
<1>7. Tick => outcome'[r] = outcome[r]
  BY DEF Tick
<1> QED BY <1>1, <1>2, <1>3, <1>4, <1>5, <1>6, <1>7 DEF Next

\* No request is answered twice or answered otherwise: every step of the stream
\* is a step of RequestPromise or leaves the outcomes alone.
THEOREM RequestsAnsweredOnce == Spec => AnsweredOnce
<1>1. Init => Promise!Init
  BY DEF Init, Promise!Init
<1>2. ASSUME Inv, Inv', [Next]_vars
      PROVE  [Promise!Conclude]_outcome
  <2>1. CASE UNCHANGED vars
    BY <2>1 DEF vars
  <2>2. CASE Next
    <3> DEFINE chosen == {r \in Requests : outcome'[r] # outcome[r]}
    <3>1. chosen \in SUBSET Promise!OpenRequests
      BY <1>2, <2>2, OutcomeStep DEF Promise!OpenRequests
    <3>2. outcome' \in [Requests -> Outcomes \cup {"none"}]
      BY <1>2 DEF Inv, LocalTypeOK
    <3>3. \A r \in Requests \ chosen : outcome'[r] = outcome[r]
      OBVIOUS
    <3> HIDE DEF chosen
    <3> QED BY <3>1, <3>2, <3>3 DEF Promise!Conclude
  <2> QED BY <1>2, <2>1, <2>2
<1> QED BY <1>1, <1>2, Invariant, PTL DEF Spec, AnsweredOnce, Promise!Spec

-----------------------------------------------------------------------------
\* The purge takes normal requests, after a silence of the configured length.
THEOREM PurgesAreJustified == Spec => PurgeOnlyAfterSilence
<1> DEFINE Justified(r) ==
         outcome'[r] = "purged" /\ outcome[r] # "purged" =>
           /\ Plan[r].kind \notin SafetyTagged
           /\ Cfg.rx_wd_enable /\ now - heard >= Cfg.rx_wd_timeout_interval
<1>1. ASSUME Inv, [Next]_vars, NEW r \in Requests, outcome'[r] = "purged", outcome[r] # "purged"
      PROVE  /\ Plan[r].kind \notin SafetyTagged
             /\ Cfg.rx_wd_enable /\ now - heard >= Cfg.rx_wd_timeout_interval
  <2> DEFINE wd == evaluate_stream_watchdog(last_reset, now, Cfg)
  <2>1. EvaluateWatchdog
    BY <1>1 DEF Next, vars, Admit, Refuse, Start, Execute, Fail, Cancel, Complete, Release, Tick,
       Inv, LocalTypeOK
  <2>2. check_watchdog_overflow_purge(Plan[r].kind, watchdog_overflowed(wd)) # "Ok"
    BY <1>1, <2>1 DEF EvaluateWatchdog
  <2>3. ~is_safety_tagged(Plan[r].kind) /\ wd # "Alive"
    BY <2>2 DEF check_watchdog_overflow_purge, watchdog_overflowed
  <2>4. Cfg.rx_wd_enable /\ is_stream_watchdog_expired(last_reset, now, Cfg.rx_wd_timeout_interval)
    BY <2>3 DEF evaluate_stream_watchdog
  <2>5. now \in Nat /\ last_reset \in Nat /\ last_reset = heard /\ last_reset <= now
    BY <1>1 DEF Inv, LocalTypeOK, Reset
  <2>6. now - heard >= Cfg.rx_wd_timeout_interval
    BY <2>4, <2>5 DEF is_stream_watchdog_expired, saturating_sub
  <2> QED BY <2>3, <2>4, <2>6 DEF is_safety_tagged
<1>2. Inv /\ [Next]_vars => \A r \in Requests : Justified(r)
  BY <1>1
<1> QED BY <1>2, Invariant, PTL DEF Spec, PurgeOnlyAfterSilence

-----------------------------------------------------------------------------
\* A sequencer moves for an open request gated on the state it leaves, or into
\* the safe state.
LEMMA SafeStateMoves ==
    ASSUME Inv, NEW drives, SafeState(drives), NEW s \in Sequencers, bank'[s] # bank[s]
    PROVE  s = Cfg.rx_safestate_sequencer /\ bank'[s] = Cfg.rx_safe_sequencer_state
<1>1. bank' = force_state(bank, Cfg.rx_safestate_sequencer, Cfg.rx_safe_sequencer_state)
  BY DEF SafeState, safe_state_sequencer_gate
<1> QED BY <1>1 DEF force_state, Inv, LocalTypeOK

LEMMA CompleteMoves ==
    ASSUME Inv, NEW r \in Requests, NEW succeeded \in BOOLEAN, Complete(r, succeeded),
           NEW s \in Sequencers, bank'[s] # bank[s]
    PROVE  /\ outcome[r] = "none" /\ outcome'[r] = "done" /\ Plan[r].sequencer_num = s
           /\ Plan[r].start_state = bank[s] /\ Plan[r].next_state = bank'[s]
<1>1. Verdict(r, "Finalized") = "Ok" /\ succeeded
  BY DEF Complete
<1>2. lifecycle[r] = "UnderExecution"
  BY <1>1 DEF Verdict, try_transition, is_request_lifecycle_transition_defined
<1>3. outcome[r] = "none" /\ outcome'[r] = "done"
  BY <1>1, <1>2 DEF Complete, Inv, LocalTypeOK, Table
<1>4. bank' = advance_if_still_in_start_state(bank, Facts(r).gate, Plan[r].next_state)
  BY <1>1 DEF Complete
<1>5. /\ Facts(r).gate.sequencer_num = Plan[r].sequencer_num
      /\ Facts(r).gate.start_state = Plan[r].start_state
  BY DEF Facts
<1>6. DOMAIN bank = Sequencers
  BY DEF Inv, LocalTypeOK
<1> QED BY <1>3, <1>4, <1>5, <1>6 DEF advance_if_still_in_start_state,
           advance_sequencer_if_still_in_start_state

\* A sequencer moves only from the start state of the request that moves it
\* (advance_sequencer_if_still_in_start_state), or by a safe state.
THEOREM SequencersAlwaysMoveAsGated == Spec => SequencersMoveAsGated
<1> DEFINE Gated(s) ==
         bank'[s] # bank[s] =>
           \/ /\ s = Cfg.rx_safestate_sequencer
              /\ bank'[s] = Cfg.rx_safe_sequencer_state
           \/ \E r \in Requests :
                /\ outcome[r] = "none" /\ outcome'[r] = "done"
                /\ Plan[r].sequencer_num = s
                /\ Plan[r].start_state = bank[s] /\ Plan[r].next_state = bank'[s]
<1>1. ASSUME Inv, [Next]_vars, NEW s \in Sequencers, bank'[s] # bank[s]
      PROVE  Gated(s)
  <2>1. CASE \E r \in Requests, seq \in SeqNums, intact \in BOOLEAN : Refuse(r, seq, intact)
    BY <1>1, <2>1, SafeStateMoves DEF Refuse
  <2>2. CASE EvaluateWatchdog
    BY <1>1, <2>2, SafeStateMoves DEF EvaluateWatchdog
  <2>3. CASE \E r \in Requests, succeeded \in BOOLEAN : Complete(r, succeeded)
    BY <1>1, <2>3, CompleteMoves
  <2> QED BY <1>1, <2>1, <2>2, <2>3 DEF Next, vars, Admit, Start, Execute, Fail, Cancel,
             Release, Tick
<1>2. Inv /\ [Next]_vars => \A s \in Sequencers : Gated(s)
  BY <1>1
<1> QED BY <1>2, Invariant, PTL DEF Spec, SequencersMoveAsGated

-----------------------------------------------------------------------------
\* Arrival numbers and sequence numbers grow together.
Ordered ==
    /\ \A r \in Requests : arrival[r] <= arrivals
    /\ \A r \in Requests : arrival[r] > 0 => lifecycle[r] # "Absent"
    /\ Cfg.rx_enforce_seq => \A r \in Requests : arrival[r] > 0 => seq_of[r] <= last_seq
    /\ QueuedInSequence

LEMMA AdmitOrdered ==
    ASSUME Inv, Ordered, NEW r \in Requests, NEW seq \in SeqNums, NEW intact,
           Admit(r, seq, intact)
    PROVE  Ordered'
<1>1. Cfg.rx_enforce_seq => seq > last_seq
  BY DEF Admit, Welcome, Verdicts, evaluate_rx_enforce_seq
<1>2. /\ arrival \in [Requests -> Nat] /\ arrivals \in Nat /\ seq_of \in [Requests -> Nat]
      /\ last_seq \in Nat /\ seq \in Nat
      /\ lifecycle \in [Requests -> LifecycleStates \cup {"Absent"}]
  BY DEF Inv, LocalTypeOK
<1>3. /\ arrival' = [arrival EXCEPT ![r] = arrivals + 1] /\ arrivals' = arrivals + 1
      /\ seq_of' = [seq_of EXCEPT ![r] = seq] /\ last_seq' = seq
      /\ lifecycle' = [lifecycle EXCEPT ![r] = "Pending"]
  BY DEF Admit
<1>4. \A q \in Requests : arrival'[q] <= arrivals'
  BY <1>2, <1>3 DEF Ordered
<1>5. \A q \in Requests : arrival'[q] > 0 => lifecycle'[q] # "Absent"
  BY <1>2, <1>3 DEF Ordered
<1>6. Cfg.rx_enforce_seq => \A q \in Requests : arrival'[q] > 0 => seq_of'[q] <= last_seq'
  BY <1>1, <1>2, <1>3 DEF Ordered
<1>7. QueuedInSequence'
  BY <1>1, <1>2, <1>3 DEF Ordered, QueuedInSequence
<1> QED BY <1>4, <1>5, <1>6, <1>7 DEF Ordered

\* Where the stream enforces sequence numbers, requests are queued in their order.
THEOREM QueueFollowsSequence == Spec => []QueuedInSequence
<1>1. Init => Ordered
  BY DEF Init, Ordered, QueuedInSequence
<1>2. Inv /\ Ordered /\ [Next]_vars => Ordered'
  <2> SUFFICES ASSUME Inv, Ordered, [Next]_vars PROVE Ordered'
    OBVIOUS
  <2>1. CASE \E r \in Requests, seq \in SeqNums, intact \in BOOLEAN : Admit(r, seq, intact)
    BY <2>1, AdmitOrdered
  <2>2. CASE UNCHANGED vars
    BY <2>2 DEF vars, Ordered, QueuedInSequence
  <2>3. ASSUME NEW r \in Requests, NEW seq \in SeqNums, NEW intact, Refuse(r, seq, intact)
        PROVE  Ordered'
    BY <2>3 DEF Refuse, Ordered, QueuedInSequence
  <2>4. ASSUME NEW r \in Requests,
               Start(r) \/ Execute(r) \/ Fail(r) \/ Cancel(r) \/ Release(r)
        PROVE  Ordered'
    <3>1. UNCHANGED stream
      BY <2>4 DEF Start, Execute, Fail, Cancel, Release
    <3>2. \A q \in Requests : lifecycle[q] # "Absent" => lifecycle'[q] # "Absent"
      BY <2>4 DEF Start, Execute, Fail, Cancel, Release, Inv, LocalTypeOK
    <3> QED BY <3>1, <3>2 DEF Ordered, QueuedInSequence, stream
  <2>5. ASSUME NEW r \in Requests, NEW succeeded \in BOOLEAN, Complete(r, succeeded)
        PROVE  Ordered'
    <3>1. UNCHANGED stream
      BY <2>5 DEF Complete
    <3>2. \A q \in Requests : lifecycle[q] # "Absent" => lifecycle'[q] # "Absent"
      BY <2>5 DEF Complete, Inv, LocalTypeOK
    <3> QED BY <3>1, <3>2 DEF Ordered, QueuedInSequence, stream
  <2>6. CASE EvaluateWatchdog \/ Tick
    BY <2>6 DEF EvaluateWatchdog, Tick, Ordered, QueuedInSequence, stream
  <2> QED BY <2>1, <2>2, <2>3, <2>4, <2>5, <2>6 DEF Next
<1>3. Ordered => QueuedInSequence
  BY DEF Ordered
<1> QED BY <1>1, <1>2, <1>3, Invariant, PTL DEF Spec

-----------------------------------------------------------------------------
\* Which steps make a request start, work or succeed.
LEMMA StepsOfALink ==
    ASSUME Inv, Next, NEW z \in Requests
    PROVE  /\ z \in working' => z \in working \/ Execute(z)
           /\ outcome'[z] = "done" =>
                 outcome[z] = "done" \/ z \in working \/ Plan[z].kind \in Cancellations
           /\ lifecycle'[z] \in {"Started", "UnderExecution"} =>
                 lifecycle[z] \in {"Started", "UnderExecution"} \/ Start(z)
<1> USE DEF Inv, LocalTypeOK
<1>1. ASSUME NEW q \in Requests, NEW seq \in SeqNums, NEW intact \in BOOLEAN,
             Admit(q, seq, intact) \/ Refuse(q, seq, intact)
      PROVE  /\ working' = working /\ (outcome'[z] = "done" => outcome[z] = "done")
             /\ lifecycle'[z] \in {"Started", "UnderExecution"} => lifecycle'[z] = lifecycle[z]
  BY <1>1 DEF Admit, Refuse
<1>2. ASSUME NEW q \in Requests, Start(q) \/ Fail(q) \/ Release(q)
      PROVE  /\ working' = working /\ (outcome'[z] = "done" => outcome[z] = "done")
             /\ lifecycle'[z] = lifecycle[z] \/ Start(z)
  BY <1>2 DEF Start, Fail, Release
<1>3. ASSUME NEW q \in Requests, Execute(q)
      PROVE  /\ (z \in working' => z \in working \/ Execute(z)) /\ outcome' = outcome
             /\ lifecycle'[z] = lifecycle[z] \/ lifecycle[z] = "Started"
  BY <1>3 DEF Execute
<1>4. ASSUME NEW c \in Requests, Cancel(c)
      PROVE  /\ working' = working
             /\ outcome'[z] = "done" => outcome[z] = "done" \/ Plan[z].kind \in Cancellations
             /\ lifecycle'[z] \in {"Started", "UnderExecution"} => lifecycle'[z] = lifecycle[z]
  BY <1>4 DEF Cancel
<1>5. ASSUME NEW q \in Requests, NEW succeeded \in BOOLEAN, Complete(q, succeeded)
      PROVE  /\ working' \subseteq working
             /\ outcome'[z] = "done" => outcome[z] = "done" \/ z \in working
             /\ lifecycle'[z] \in {"Started", "UnderExecution"} => lifecycle'[z] = lifecycle[z]
  BY <1>5 DEF Complete
<1>6. ASSUME EvaluateWatchdog \/ Tick
      PROVE  /\ working' = working /\ (outcome'[z] = "done" => outcome[z] = "done")
             /\ lifecycle' = lifecycle
  BY <1>6 DEF EvaluateWatchdog, Tick
<1> QED BY <1>1, <1>2, <1>3, <1>4, <1>5, <1>6 DEF Next

\* Arrival numbers are given once, and to all that were queued.
Numbered ==
    /\ \A r \in Requests : arrival[r] <= arrivals /\ (lifecycle[r] # "Absent" => arrival[r] > 0)
    /\ \A q, r \in Requests : arrival[q] > 0 /\ arrival[q] = arrival[r] => q = r

LEMMA AdmitNumbered ==
    ASSUME Inv, Numbered, NEW r \in Requests, NEW seq \in SeqNums, NEW intact, Admit(r, seq, intact)
    PROVE  Numbered'
<1>1. /\ arrival \in [Requests -> Nat] /\ arrivals \in Nat
      /\ lifecycle \in [Requests -> LifecycleStates \cup {"Absent"}]
  BY DEF Inv, LocalTypeOK
<1>2. /\ arrival' = [arrival EXCEPT ![r] = arrivals + 1] /\ arrivals' = arrivals + 1
      /\ lifecycle' = [lifecycle EXCEPT ![r] = "Pending"]
  BY DEF Admit
<1>3. \A q \in Requests : arrival'[q] <= arrivals' /\ (lifecycle'[q] # "Absent" => arrival'[q] > 0)
  BY <1>1, <1>2 DEF Numbered
<1>4. \A q, z \in Requests : arrival'[q] > 0 /\ arrival'[q] = arrival'[z] => q = z
  BY <1>1, <1>2 DEF Numbered
<1> QED BY <1>3, <1>4 DEF Numbered

\* Other steps give no numbers, and queue nothing.
LEMMA NothingQueued ==
    ASSUME Inv, [Next]_vars,
           ~\E r \in Requests, seq \in SeqNums, intact \in BOOLEAN : Admit(r, seq, intact)
    PROVE  /\ UNCHANGED <<arrival, arrivals>>
           /\ \A q \in Requests : lifecycle'[q] # "Absent" => lifecycle[q] # "Absent"
<1> USE DEF Inv, LocalTypeOK
<1>1. CASE UNCHANGED vars
  BY <1>1 DEF vars
<1>2. ASSUME NEW r \in Requests, NEW seq \in SeqNums, NEW intact \in BOOLEAN, Refuse(r, seq, intact)
      PROVE  UNCHANGED <<arrival, arrivals, lifecycle>>
  BY <1>2 DEF Refuse
<1>3. ASSUME NEW r \in Requests, Start(r) \/ Execute(r) \/ Fail(r) \/ Cancel(r) \/ Release(r)
      PROVE  /\ UNCHANGED <<arrival, arrivals>>
             /\ \A q \in Requests : lifecycle'[q] # "Absent" => lifecycle[q] # "Absent"
  <2>1. UNCHANGED <<arrival, arrivals>>
    BY <1>3 DEF Start, Execute, Fail, Cancel, Release, stream
  <2>2. Start(r) => lifecycle[r] # "Absent"
    BY DEF Start, Eligible, Pending
  <2>3. Cancel(r) => \A q \in Requests : lifecycle'[q] # lifecycle[q] => q = r \/ q \in held
    BY DEF Cancel
  <2>4. \A q \in Requests : lifecycle'[q] # "Absent" => lifecycle[q] # "Absent"
    BY <1>3, <2>2, <2>3 DEF Start, Execute, Fail, Cancel, Release, Table
  <2> QED BY <2>1, <2>4
<1>4. ASSUME NEW r \in Requests, NEW succeeded \in BOOLEAN, Complete(r, succeeded)
      PROVE  /\ UNCHANGED <<arrival, arrivals>>
             /\ \A q \in Requests : lifecycle'[q] # "Absent" => lifecycle[q] # "Absent"
  BY <1>4 DEF Complete, stream, Table
<1>5. CASE EvaluateWatchdog \/ Tick
  BY <1>5 DEF EvaluateWatchdog, Tick, stream
<1> QED BY <1>1, <1>2, <1>3, <1>4, <1>5 DEF Next

\* Every request that was queued has a number of its own.
THEOREM ArrivalsNumbered == Spec => []Numbered
<1>1. Init => Numbered
  BY DEF Init, Numbered
<1>2. Inv /\ Numbered /\ [Next]_vars => Numbered'
  <2> SUFFICES ASSUME Inv, Numbered, [Next]_vars PROVE Numbered'
    OBVIOUS
  <2>1. CASE \E r \in Requests, seq \in SeqNums, intact \in BOOLEAN : Admit(r, seq, intact)
    BY <2>1, AdmitNumbered
  <2>2. CASE ~\E r \in Requests, seq \in SeqNums, intact \in BOOLEAN : Admit(r, seq, intact)
    BY <2>2, NothingQueued DEF Numbered
  <2> QED BY <2>1, <2>2
<1> QED BY <1>1, <1>2, Invariant, PTL DEF Spec

\* What starts is the most urgent, and of those the first its sender numbered
\* (select_next_pending_request, over the keys the loop hands it).
THEOREM StartsFollowSender == Spec => StartsInSendersOrder
<1> DEFINE tier(x) == execution_priority_tier(Plan[x].kind)
           InOrder == \A q, r \in Requests :
             /\ lifecycle[r] = "Pending" /\ lifecycle'[r] = "Started"
             /\ q \in Eligible \ {r}
             => \/ tier(r) < tier(q)
                \/ tier(r) = tier(q) /\ (Cfg.rx_enforce_seq => seq_of[r] < seq_of[q])
<1>1. ASSUME Inv, Numbered, QueuedInSequence, [Next]_vars, NEW q \in Requests, NEW r \in Requests,
             lifecycle[r] = "Pending", lifecycle'[r] = "Started", q \in Eligible \ {r}
      PROVE  \/ tier(r) < tier(q)
             \/ tier(r) = tier(q) /\ (Cfg.rx_enforce_seq => seq_of[r] < seq_of[q])
  <2>1. Next
    BY <1>1 DEF vars
  <2>2. Start(r)
    BY <1>1, <2>1, StepsOfALink
  <2>3. goes_before(Key(r), Key(q))
    BY <1>1, <2>2 DEF Start, is_next_pending_request
  <2>4. tier(r) < tier(q) \/ (tier(r) = tier(q) /\ arrival[r] <= arrival[q])
    BY <2>3 DEF goes_before, Key
  <2>5. /\ arrival[q] \in Nat /\ arrival[r] \in Nat /\ arrival[r] > 0 /\ arrival[r] # arrival[q]
    BY <1>1 DEF Inv, LocalTypeOK, Numbered
  <2>6. arrival[r] <= arrival[q] => (Cfg.rx_enforce_seq => seq_of[r] < seq_of[q])
    BY <1>1, <2>5 DEF QueuedInSequence
  <2> QED BY <2>4, <2>6
<1>2. Inv /\ Numbered /\ QueuedInSequence /\ [Next]_vars => InOrder
  BY <1>1
<1>3. [][InOrder]_vars <=> StartsInSendersOrder
  BY DEF StartsInSendersOrder
<1> HIDE DEF InOrder
<1> QED BY <1>2, <1>3, Invariant, ArrivalsNumbered, QueueFollowsSequence, PTL DEF Spec

\* Of any requests with numbers of their own, one is the least of a tier.
LEMMA FirstExists ==
    ASSUME NEW T \in SUBSET Requests, T # {}, NEW num \in [Requests -> Nat]
    PROVE  \E r \in T : \A q \in T : num[r] <= num[q]
<1> DEFINE N == {num[r] : r \in T}
<1>1. N \in SUBSET Nat /\ N # {}
  OBVIOUS
<1>2. PICK m \in N : \A n \in N : m <= n
  BY ONLY <1>1, LeastNumber
<1>3. PICK r \in T : m = num[r]
  BY <1>2
<1>4. \A q \in T : num[r] <= num[q]
  BY <1>2, <1>3
<1> QED BY <1>4

\* select_next_pending_request leaves no choice: of what could start, exactly
\* one request is next, however many wait and in whatever order they are given.
OneIsNext ==
    Eligible # {} => \E r \in Eligible : \A q \in Eligible :
        is_next_pending_request(Key(q), {Key(s) : s \in Eligible}) <=> q = r

\* In every reachable state the stream's choice of what starts is forced.
THEOREM OneRequestIsNext == Spec => []OneIsNext
<1>1. ASSUME Inv, Numbered, Eligible # {}
      PROVE  \E r \in Eligible : \A q \in Eligible :
                 is_next_pending_request(Key(q), {Key(s) : s \in Eligible}) <=> q = r
  <2> DEFINE tiers == [r \in Requests |-> execution_priority_tier(Plan[r].kind)]
  <2>1. tiers \in [Requests -> Nat]
    BY DEF execution_priority_tier
  <2>2. arrival \in [Requests -> Nat] /\ Eligible \subseteq Requests
        /\ \A q, r \in Eligible : arrival[q] = arrival[r] => q = r
    BY <1>1 DEF Inv, LocalTypeOK, Eligible, Pending, Numbered
  <2>3. \A q, r \in Eligible : goes_before(Key(q), Key(r)) <=>
            tiers[q] < tiers[r] \/ (tiers[q] = tiers[r] /\ arrival[q] <= arrival[r])
    BY <2>2 DEF goes_before, Key
  <2> HIDE DEF tiers
  <2>4. PICK a \in Eligible : \A q \in Eligible : tiers[a] <= tiers[q]
    BY <1>1, <2>1, <2>2, FirstExists
  <2> DEFINE T == {q \in Eligible : tiers[q] = tiers[a]}
  <2>5. PICK r \in T : \A q \in T : arrival[r] <= arrival[q]
    <3>1. T \in SUBSET Requests /\ T # {}
      BY <2>2, <2>4
    <3> HIDE DEF T
    <3> QED BY <2>2, <3>1, FirstExists
  <2>6. \A q \in Eligible : goes_before(Key(r), Key(q))
    BY <2>1, <2>2, <2>3, <2>4, <2>5
  <2>7. \A q \in Eligible : goes_before(Key(q), Key(r)) => q = r
    BY <2>1, <2>2, <2>3, <2>4, <2>5
  <2>8. \A q \in Eligible : is_next_pending_request(Key(q), {Key(s) : s \in Eligible}) <=>
            \A s \in Eligible : goes_before(Key(q), Key(s))
    BY DEF is_next_pending_request
  <2> QED BY <2>5, <2>6, <2>7, <2>8
<1>2. Inv /\ Numbered => OneIsNext
  BY <1>1 DEF OneIsNext
<1> QED BY <1>2, Invariant, ArrivalsNumbered, PTL

-----------------------------------------------------------------------------
\* A chain numbers its links 1, 2, 3 ... and each knows the one before it.
WellLinked ==
    /\ \A z \in Requests : Plan[z].link > 1 =>
          Plan[z].prev \in Requests /\ Plan[Plan[z].prev].link = Plan[z].link - 1
    /\ \A q, r \in Requests : 0 < Plan[q].link /\ Plan[q].link = Plan[r].link => q = r

\* z is behind a, and every link in between listens to the one before it.
Follows(a, z) ==
    /\ 0 < Plan[a].link /\ Plan[a].link < Plan[z].link
    /\ \A l \in LinksBetween(a, z) : Plan[l].kind = "Chained" /\ Plan[l].cs

\* A link that has started saw its predecessor end; one that works or has
\* succeeded has nothing but success before it.
Chains ==
    /\ \A r \in Requests :
          Plan[r].kind = "Chained" /\ Plan[r].prev \in Requests
            /\ lifecycle[r] \in {"Started", "UnderExecution"} => outcome[Plan[r].prev] # "none"
    /\ \A a, z \in Requests :
          Follows(a, z) /\ (z \in working \/ outcome[z] = "done") => outcome[a] = "done"

LEMMA LinkTypes ==
    ASSUME NEW r \in Requests
    PROVE  /\ Plan[r].link \in Nat /\ Plan[r].prev \in Requests \cup {NoRequest}
           /\ Plan[r].cs \in BOOLEAN
BY DEF PlanType

\* The link before z is a itself, or is behind a as well.
LEMMA PredecessorFollows ==
    ASSUME WellLinked, NEW a \in Requests, NEW z \in Requests, Follows(a, z)
    PROVE  /\ Plan[z].kind = "Chained" /\ Plan[z].cs /\ Plan[z].prev \in Requests
           /\ Plan[z].prev = a \/ Follows(a, Plan[z].prev)
<1>1. Plan[a].link \in Nat /\ Plan[z].link \in Nat /\ 0 < Plan[a].link /\ Plan[a].link < Plan[z].link
  BY LinkTypes DEF Follows
<1>2. Plan[z].kind = "Chained" /\ Plan[z].cs
  BY <1>1 DEF Follows, LinksBetween
<1> DEFINE p == Plan[z].prev
<1>3. p \in Requests /\ Plan[p].link = Plan[z].link - 1
  BY <1>1 DEF WellLinked
<1> HIDE DEF p
<1>4. CASE Plan[p].link = Plan[a].link
  BY <1>1, <1>2, <1>3, <1>4 DEF WellLinked, p
<1>5. CASE Plan[p].link # Plan[a].link
  <2>1. Plan[a].link < Plan[p].link
    BY <1>1, <1>3, <1>5
  <2>2. ASSUME NEW l \in LinksBetween(a, p)
        PROVE  l \in LinksBetween(a, z)
    <3>1. l \in Requests /\ Plan[l].link \in Nat
      BY LinkTypes DEF LinksBetween
    <3> QED BY <1>1, <1>3, <2>2, <3>1 DEF LinksBetween
  <2> QED BY <1>1, <1>2, <1>3, <2>1, <2>2 DEF Follows, p
<1> QED BY <1>4, <1>5

LEMMA ChainsStep ==
    ASSUME WellLinked, Inv, Chains, [Next]_vars
    PROVE  Chains'
<1>1. CASE UNCHANGED vars
  BY <1>1 DEF vars, Chains
<1>2. CASE Next
  <2>1. ASSUME NEW r \in Requests, Plan[r].kind = "Chained", Plan[r].prev \in Requests,
               lifecycle'[r] \in {"Started", "UnderExecution"}
        PROVE  outcome'[Plan[r].prev] # "none"
    <3>1. Start(r) => outcome[Plan[r].prev] # "none"
      BY <2>1 DEF Start, Eligible, PredecessorIsOver
    <3>2. outcome[Plan[r].prev] # "none"
      BY <1>2, <2>1, <3>1, StepsOfALink DEF Chains
    <3> QED BY <1>2, <2>1, <3>2, OutcomeStep
  <2>2. ASSUME NEW a \in Requests, NEW z \in Requests, Follows(a, z),
               z \in working' \/ outcome'[z] = "done"
        PROVE  outcome'[a] = "done"
    <3> DEFINE p == Plan[z].prev
    <3>1. Plan[z].kind = "Chained" /\ Plan[z].cs /\ p \in Requests /\ (p = a \/ Follows(a, p))
      BY <2>2, PredecessorFollows
    <3>2. z \in working \/ outcome[z] = "done" \/ Execute(z)
      BY <1>2, <2>2, <3>1, StepsOfALink DEF Cancellations
    <3>3. ASSUME Execute(z)
          PROVE  outcome[a] = "done"
      <4>1. lifecycle[z] = "Started" /\ Verdict(z, "UnderExecution") = "Ok"
        BY <3>3 DEF Execute
      <4>2. ~predecessor_errored(z)
        BY <3>1, <4>1 DEF Verdict, Facts, try_transition, check_chain_continuation,
           request_lifecycle_transition_guard, SequencerGated
      <4>3. outcome[p] = "done"
        BY <3>1, <4>1, <4>2 DEF predecessor_errored, Chains
      <4> QED BY <3>1, <4>3 DEF Chains
    <3>4. outcome[a] = "done"
      BY <2>2, <3>2, <3>3 DEF Chains
    <3> QED BY <1>2, <3>4, OutcomeStep
  <2> QED BY <2>1, <2>2 DEF Chains, Follows, LinksBetween
<1> QED BY <1>1, <1>2

\* An error aborts every later link of its chain, for a chain of any length.
THEOREM ErrorsStopChains ==
    ASSUME WellLinked
    PROVE  Spec => []ChainStopsAtError
<1>1. Init => Chains
  BY DEF Init, Chains
<1>2. Inv /\ Chains /\ [Next]_vars => Chains'
  BY ChainsStep
<1>3. Chains => ChainStopsAtError
  BY DEF Chains, ChainStopsAtError, Follows
<1> QED BY <1>1, <1>2, <1>3, Invariant, PTL DEF Spec

-----------------------------------------------------------------------------
\* What a remainder is, and that there is only one.
LEMMA DivisionStep ==
    ASSUME NEW n \in Nat, n > 0, NEW x \in Int,
           NEW r \in Int, r = x % n, NEW k \in Int, k = x \div n
    PROVE  x = n * k + r
BY ONLY n \in Nat, n > 0, x \in Int, r \in Int, r = x % n, k \in Int, k = x \div n, Z3

LEMMA Division ==
    ASSUME NEW x \in Int
    PROVE  \E k \in Int, r \in 0 .. RolloverPeriod - 1 :
              r = x % RolloverPeriod /\ x = RolloverPeriod * k + r
<1>1. x % RolloverPeriod \in 0 .. RolloverPeriod - 1 /\ x \div RolloverPeriod \in Int
  OBVIOUS
<1> QED BY <1>1, DivisionStep

LEMMA OneRemainder ==
    \A k, l \in Int : \A r, q \in 0 .. RolloverPeriod - 1 :
        RolloverPeriod * k + r = RolloverPeriod * l + q => k = l /\ r = q
<1> SUFFICES ASSUME NEW k \in Int, NEW l \in Int, NEW r \in 0 .. RolloverPeriod - 1,
                    NEW q \in 0 .. RolloverPeriod - 1,
                    RolloverPeriod * k + r = RolloverPeriod * l + q
             PROVE  k = l /\ r = q
  OBVIOUS
<1> DEFINE m == k - l
<1>1. RolloverPeriod \in Nat /\ RolloverPeriod > 0
  OBVIOUS
<1>2. m \in Int /\ RolloverPeriod * m = q - r
  BY <1>1, Z3
<1>3. q - r < RolloverPeriod /\ -RolloverPeriod < q - r
  BY <1>1
<1> HIDE DEF m
<1>4. m >= 1 => RolloverPeriod * m >= RolloverPeriod
  BY <1>1, <1>2, Z3
<1>5. m <= -1 => RolloverPeriod * m <= -RolloverPeriod
  BY <1>1, <1>2, Z3
<1>6. m = 0
  BY <1>1, <1>2, <1>3, <1>4, <1>5
<1> QED BY <1>1, <1>6 DEF m

\* The remainder of x, given by what it is and not by how it is computed.
LEMMA RemainderIs ==
    ASSUME NEW x \in Int, NEW k \in Int, NEW r \in 0 .. RolloverPeriod - 1,
           x = RolloverPeriod * k + r
    PROVE  x % RolloverPeriod = r
<1>1. PICK l \in Int, q \in 0 .. RolloverPeriod - 1 :
              q = x % RolloverPeriod /\ x = RolloverPeriod * l + q
  BY Division
<1>2. RolloverPeriod * k + r = RolloverPeriod * l + q
  BY <1>1
<1>3. k = l /\ r = q
  <2>1. k \in Int /\ l \in Int /\ r \in 0 .. RolloverPeriod - 1 /\ q \in 0 .. RolloverPeriod - 1
    BY <1>1
  <2> QED BY ONLY <1>2, <2>1, OneRemainder, SMT
<1> QED BY <1>1, <1>3

\* An instant ahead by less than half a period is not taken for the past,
\* although both are only known modulo the period (timestamp.rs).
LEMMA AheadIsNotReady ==
    ASSUME NEW at \in Nat, NEW n \in Nat, n < at, at - n < RolloverPeriod \div 2,
           at % RolloverPeriod # 0
    PROVE  ~is_timed_request_ready(n % RolloverPeriod, at % RolloverPeriod)
<1> DEFINE d == at - n
           half == RolloverPeriod \div 2
           wrapped == RolloverPeriod - d
<1>1. /\ RolloverPeriod \in Nat /\ half \in Nat /\ RolloverPeriod = 2 * half
      /\ d \in Nat /\ 0 < d /\ d < half /\ wrapped \in 0 .. RolloverPeriod - 1
  <2>1. RolloverPeriod \in Nat /\ half \in Int /\ RolloverPeriod % 2 = 0
    OBVIOUS
  <2>2. RolloverPeriod = 2 * half + 0
    BY <2>1, DivisionStep
  <2>3. d \in Nat /\ 0 < d /\ d < half
    OBVIOUS
  <2> HIDE DEF half, d
  <2> QED BY <2>1, <2>2, <2>3
<1>2. PICK k \in Int, r \in 0 .. RolloverPeriod - 1 :
         r = n % RolloverPeriod /\ n = RolloverPeriod * k + r
  <2>1. n \in Int
    OBVIOUS
  <2> QED BY <2>1, Division, Zenon
<1>3. PICK l \in Int, q \in 0 .. RolloverPeriod - 1 :
         q = at % RolloverPeriod /\ at = RolloverPeriod * l + q
  <2>1. at \in Int
    OBVIOUS
  <2> QED BY <2>1, Division, Zenon
<1> HIDE DEF half, d, wrapped
<1>4. r - q = RolloverPeriod * (l - k - 1) + wrapped
  <2>1. at - n = d /\ wrapped = RolloverPeriod - d
    BY DEF d, wrapped
  <2>2. RolloverPeriod * (l - k - 1) = RolloverPeriod * l - RolloverPeriod * k - RolloverPeriod
    BY <1>1, Z3
  <2>3. RolloverPeriod * l \in Int /\ RolloverPeriod * k \in Int
    BY <1>1
  <2> QED BY <1>1, <1>2, <1>3, <2>1, <2>2, <2>3
<1>5. (r - q) % RolloverPeriod = wrapped
  <2>1. r - q \in Int /\ l - k - 1 \in Int
    BY <1>1
  <2> QED BY <1>1, <1>4, <2>1, RemainderIs
<1>6. wrapping_delta(r, q) = -d
  <2>1. wrapped >= half /\ wrapped - RolloverPeriod = -d
    BY <1>1 DEF wrapped
  <2>2. wrapping_delta(r, q) = wrapped - RolloverPeriod
    BY <1>1, <1>5, <2>1 DEF wrapping_delta, half
  <2> QED BY <2>1, <2>2
<1>7. r # q
  <2>1. SUFFICES ASSUME r = q PROVE FALSE
    OBVIOUS
  <2>2. RolloverPeriod * 0 + 0 = RolloverPeriod * (l - k - 1) + wrapped
    BY <1>1, <1>4, <2>1
  <2>3. wrapped = 0
    BY <1>1, <2>2, OneRemainder
  <2> QED BY <1>1, <2>3 DEF wrapped
<1>8. ~is_after(r, q)
  BY <1>1, <1>6 DEF is_after
<1> QED BY <1>2, <1>3, <1>7, <1>8 DEF is_timed_request_ready, is_untimed

\* A timed request does not start early, wherever the clock rolls over.
THEOREM TimedNeverEarly == Spec => NeverStartsEarly
<1>1. ASSUME Inv, [Next]_vars, NEW r \in Requests,
             lifecycle[r] = "Pending", lifecycle'[r] = "Started",
             Plan[r].kind = "Timed", Plan[r].at % RolloverPeriod # 0,
             Plan[r].at - now < RolloverPeriod \div 2
      PROVE  now >= Plan[r].at
  <2>1. Plan[r].at \in Nat /\ now \in Nat
    BY <1>1 DEF PlanType, Inv, LocalTypeOK
  <2>2. Next
    BY <1>1 DEF vars
  <2>3. Start(r)
    BY <1>1, <2>2, StepsOfALink
  <2>4. Verdict(r, "Started") = "Ok"
    BY <2>3 DEF Start, Eligible
  <2>5. is_timed_request_ready(now % RolloverPeriod, Plan[r].at % RolloverPeriod)
    BY <1>1, <2>4 DEF Verdict, Facts, try_transition, request_lifecycle_transition_guard,
       SequencerGated
  <2> QED BY <1>1, <2>1, <2>5, AheadIsNotReady
<1> DEFINE Early(r) ==
         /\ lifecycle[r] = "Pending" /\ lifecycle'[r] = "Started"
         /\ Plan[r].kind = "Timed" /\ Plan[r].at % RolloverPeriod # 0
         /\ Plan[r].at - now < RolloverPeriod \div 2
         => now >= Plan[r].at
<1>2. Inv /\ [Next]_vars => \A r \in Requests : Early(r)
  BY <1>1
<1> QED BY <1>2, Invariant, PTL DEF Spec, NeverStartsEarly
=============================================================================
