---------------------------- MODULE RequestRules ----------------------------
(***************************************************************************)
(* The decisions about conditional requests: src/src/request.rs, the       *)
(* stream watchdog of src/src/watchdog.rs and the presentation time of     *)
(* src/src/timestamp.rs.  Pure, as in the source: RequestStream keeps the  *)
(* state.  A Result<(), RcpError> is "Ok" or the name of the error, an     *)
(* Option<T> a set of at most one value.                                   *)
(***************************************************************************)
EXTENDS Integers

CONSTANTS SvrSequencersMax,  \* sequencers of the server (svr_sequencers_max)
          RolloverPeriod,    \* ticks of a presentation time, 2^32 in the code
          RepeatForever      \* TRIGGER_REPEAT_COUNT_INFINITE_SENTINEL, 0xFFFF

ASSUME RulesAssumption ==
    /\ SvrSequencersMax \in Nat
    /\ RolloverPeriod \in Nat \ {0} /\ RolloverPeriod % 2 = 0
    /\ RepeatForever \in Nat

SafetyTagged  == {"SafetyCompound", "SafetyCompoundWait", "SafetyTriggered"}
Cancellations == {"ClearAll", "ClearNonSafestate", "ClearSingle"}
SequencerGated == {"Compound", "CompoundWait", "SafetyCompound", "SafetyCompoundWait"}
RequestKinds  == {"Standard", "Chained", "Timed", "Triggered"}
                     \cup Cancellations \cup SequencerGated \cup SafetyTagged

is_safety_tagged(kind) == kind \in SafetyTagged

-----------------------------------------------------------------------------
(* Sequencers. *)
Sequencers == 0 .. SvrSequencersMax - 1

check_sequencer_num_in_bounds(sequencer_num) ==
    IF sequencer_num < SvrSequencersMax THEN "Ok" ELSE "SequencerNotKnown"

is_gate_satisfied(current, gate) == current = gate.start_state

\* current is read from the bank, so it only exists for a known sequencer.
check_compound_gate(bank, gate) ==
    IF check_sequencer_num_in_bounds(gate.sequencer_num) # "Ok"
    THEN "SequencerNotKnown"
    ELSE IF is_gate_satisfied(bank[gate.sequencer_num], gate)
         THEN "Ok" ELSE "RequestRejected"

\* Broken variant: the race guard is dropped.
advance_sequencer_unguarded(observed, gate, next_state) == {next_state}

advance_sequencer_if_still_in_start_state(observed, gate, next_state) ==
    IF observed = gate.start_state THEN {next_state} ELSE {}

\* SequencerBank::advance_if_still_in_start_state, as the bank it leaves.
advance_if_still_in_start_state(bank, gate, next_state) ==
    IF check_sequencer_num_in_bounds(gate.sequencer_num) # "Ok" THEN bank
    ELSE [s \in DOMAIN bank |->
             IF s = gate.sequencer_num
             THEN IF advance_sequencer_if_still_in_start_state(bank[s], gate, next_state) = {}
                  THEN bank[s] ELSE next_state
             ELSE bank[s]]

\* SequencerBank::force_state: no guard but the bound.
force_state(bank, sequencer_num, new_state) ==
    IF check_sequencer_num_in_bounds(sequencer_num) # "Ok" THEN bank
    ELSE [bank EXCEPT ![sequencer_num] = new_state]

-----------------------------------------------------------------------------
(* Presentation time: differences wrap and are read as signed. *)
is_untimed(ts) == ts = 0

\* Broken variant: a plain difference.
wrapping_delta_plain(a, b) == a - b

wrapping_delta(a, b) ==
    LET d == (a - b) % RolloverPeriod
    IN  IF d < RolloverPeriod \div 2 THEN d ELSE d - RolloverPeriod

is_after(a, b) == wrapping_delta(a, b) > 0

is_timed_request_ready(current, exec_time) ==
    is_untimed(exec_time) \/ current = exec_time \/ is_after(current, exec_time)

-----------------------------------------------------------------------------
(* Triggers, chains, cancellation. *)
is_trigger_repeat_exhausted(occurrences, repeat) ==
    repeat # RepeatForever /\ occurrences >= repeat

\* Busy or idle, an occurrence counts.
should_count_trigger_occurrence(endpoint_busy) == TRUE

\* Broken variant: the cs bit alone decides nothing.
check_chain_continuation_lenient(cs, predecessor_errored) == "Ok"

check_chain_continuation(cs, predecessor_errored) ==
    IF cs /\ predecessor_errored THEN "ChainAborted" ELSE "Ok"

check_clear_all_cancellation == "RequestCanceled"

check_clear_non_safestate_cancellation(is_safestate_related) ==
    IF is_safestate_related THEN "Ok" ELSE "RequestCanceled"

check_clear_single_cancellation(transaction_num, target) ==
    IF transaction_num = target THEN "RequestCanceled" ELSE "Ok"

-----------------------------------------------------------------------------
(* Priority: a lower tier number goes first, arrival order within a tier. *)
execution_priority_tier(kind) ==
    IF kind \in Cancellations                              THEN 0
    ELSE IF kind \in {"Triggered", "SafetyTriggered"}       THEN 1
    ELSE IF kind = "Timed"                                  THEN 2
    ELSE IF kind \in {"Compound", "SafetyCompound"}         THEN 3
    ELSE IF kind \in {"CompoundWait", "SafetyCompoundWait"} THEN 4
    ELSE IF kind = "Chained"                                THEN 5
    ELSE 6

\* Broken variant: compares tiers only.
goes_before_tier_only(k, l) ==
    execution_priority_tier(k.kind) <= execution_priority_tier(l.kind)

\* The order of the keys min_by_key compares.
goes_before(k, l) ==
    LET tier(x) == execution_priority_tier(x.kind)
    IN  \/ tier(k) < tier(l)
        \/ tier(k) = tier(l) /\ k.arrival_seq <= l.arrival_seq

\* select_next_pending_request, as the relation between a slice and its answer.
is_next_pending_request(k, pending) ==
    k \in pending /\ \A l \in pending : goes_before(k, l)

-----------------------------------------------------------------------------
(* The lifecycle of a request. *)
LifecycleStates == {"Pending", "Started", "UnderExecution", "Finalized"}

\* Broken variant: a request already finalized may be finalized again.
is_request_lifecycle_transition_again(from, to) ==
    <<from, to>> \in {<<"Pending", "Started">>, <<"Started", "UnderExecution">>,
                      <<"UnderExecution", "Finalized">>, <<"Finalized", "Finalized">>}

is_request_lifecycle_transition_defined(from, to) ==
    <<from, to>> \in {<<"Pending", "Started">>, <<"Started", "UnderExecution">>,
                      <<"UnderExecution", "Finalized">>}

\* What the guard of a hop into to looks at is in facts.
request_lifecycle_transition_guard(to, kind, facts) ==
    IF to = "Started" /\ kind \in SequencerGated
    THEN check_compound_gate(facts.bank, facts.gate)
    ELSE IF to = "Started" /\ kind = "Timed"
    THEN IF is_timed_request_ready(facts.current, facts.exec_time)
         THEN "Ok" ELSE "RequestRejected"
    ELSE IF to = "UnderExecution" /\ kind = "Chained"
    THEN check_chain_continuation(facts.cs, facts.predecessor_errored)
    ELSE IF to = "UnderExecution" /\ kind \in {"Triggered", "SafetyTriggered"}
    THEN IF /\ should_count_trigger_occurrence(facts.endpoint_busy)
            /\ is_trigger_repeat_exhausted(facts.occurrences, facts.repeat)
         THEN "RequestRejected" ELSE "Ok"
    ELSE "Ok"

try_transition(from, to, kind, facts) ==
    IF ~is_request_lifecycle_transition_defined(from, to)
    THEN "RequestRejected"
    ELSE request_lifecycle_transition_guard(to, kind, facts)

\* try_force_cancel_all, _non_safestate and _single: the verdict on one target.
\* A finalized request has nothing left to cancel.
try_force_cancel_all(state) ==
    IF state = "Finalized" THEN "Ok" ELSE check_clear_all_cancellation

try_force_cancel_non_safestate(state, is_safestate_related) ==
    IF state = "Finalized" THEN "Ok"
    ELSE check_clear_non_safestate_cancellation(is_safestate_related)

try_force_cancel_single(state, transaction_num, target) ==
    IF state = "Finalized" THEN "Ok"
    ELSE check_clear_single_cancellation(transaction_num, target)

-----------------------------------------------------------------------------
(* The safety configuration of a stream, one field per rx_ register bit. *)
saturating_sub(a, b) == IF a < b THEN 0 ELSE a - b

is_stream_watchdog_expired(last_reset, now, timeout) ==
    saturating_sub(now, last_reset) >= timeout

evaluate_stream_watchdog(last_reset, now, cfg) ==
    IF ~cfg.rx_wd_enable
       \/ ~is_stream_watchdog_expired(last_reset, now, cfg.rx_wd_timeout_interval)
    THEN "Alive"
    ELSE IF cfg.rx_wd_safestate_enable THEN "ExpiredSafestate" ELSE "ExpiredNoSafestate"

watchdog_overflowed(outcome) == outcome # "Alive"

check_watchdog_overflow_purge(kind, overflowed) ==
    IF overflowed /\ ~is_safety_tagged(kind) THEN "RequestCanceled" ELSE "Ok"

e2e_failure_scope(cfg) == IF cfg.rx_enforce_e2e THEN "LatchStream" ELSE "DropRequest"

check_rx_enforce_e2e(crc_matches, cfg) == IF crc_matches THEN "Ok" ELSE e2e_failure_scope(cfg)

\* Broken variant: a full storage goes unnoticed.
evaluate_request_storage_never_full(overflowed, cfg) == "NoOverflow"

evaluate_request_storage_overflow(overflowed, cfg) ==
    IF ~overflowed THEN "NoOverflow"
    ELSE IF cfg.rx_ovrflw_safestate_enable THEN "OverflowSafestate" ELSE "OverflowNoSafestate"

\* Broken variant: the number accepted last is accepted once more.
evaluate_rx_enforce_seq_lax(last_accepted, candidate, cfg) ==
    IF ~cfg.rx_enforce_seq \/ candidate >= last_accepted THEN "Accepted"
    ELSE IF cfg.rx_seq_safestate_enable THEN "RejectedSafestate" ELSE "RejectedNoSafestate"

evaluate_rx_enforce_seq(last_accepted, candidate, cfg) ==
    IF ~cfg.rx_enforce_seq \/ candidate > last_accepted THEN "Accepted"
    ELSE IF cfg.rx_seq_safestate_enable THEN "RejectedSafestate" ELSE "RejectedNoSafestate"

drives_safestate(outcome) ==
    outcome \in {"ExpiredSafestate", "OverflowSafestate", "RejectedSafestate", "LatchStream"}

\* The gate of a stream's sequencer-driven safe state.
safe_state_sequencer_gate(cfg) ==
    [sequencer_num |-> cfg.rx_safestate_sequencer, start_state |-> cfg.rx_safe_sequencer_state]

resolve_safe_state_mechanism(cfg) ==
    IF cfg.rx_safety_measure THEN "SequencerDriven" ELSE "HiZAllPins"

resolve_safe_state_action(should_enter, mechanism) ==
    IF ~should_enter THEN "None"
    ELSE IF mechanism = "HiZAllPins" THEN "ForceHiZAllPins" ELSE "ForceSequencerState"
=============================================================================
