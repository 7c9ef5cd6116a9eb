--------------------------- MODULE RequestStream ----------------------------
(***************************************************************************)
(* One request stream of an RC Server: the values src/src/request.rs and   *)
(* src/src/watchdog.rs define, each changed only by the functions of these *)
(* files.  The loop that owns the values and calls the functions is not    *)
(* part of the repository (watchdog.rs, "a future dispatch-loop item"); it *)
(* is modelled as the most general caller that composes them as their docs *)
(* say.  Requests, their order, lost and repeated ones, the moments at     *)
(* which the watchdog is evaluated and the endpoints' results are free.    *)
(***************************************************************************)
EXTENDS RequestRules, FiniteSets

CONSTANTS Requests,     \* the requests a run is about
          NoRequest,    \* "no preceding link"
          Plan,         \* what each request asks: see PlanType
          Cfg,          \* the safety bits of RequestStreamConfigEntry: see CfgType
          SeqStates,    \* values a sequencer may hold
          StorageSize,  \* pending requests the server can store
          SeqNums,      \* sequence numbers a request may carry
          Boot,         \* the tick at which the stream is configured
          MaxTick       \* bound of the clock

PlanType ==
    [kind : RequestKinds, sequencer_num : Nat, start_state : SeqStates,
     next_state : SeqStates, cs : BOOLEAN, prev : Requests \cup {NoRequest},
     link : Nat, at : Nat, occurrences : Nat, repeat : Nat, transaction_num : Nat,
     target : Nat, safestate : BOOLEAN]

CfgType ==
    [rx_enforce_e2e : BOOLEAN, rx_enforce_seq : BOOLEAN, rx_seq_safestate_enable : BOOLEAN,
     rx_ovrflw_safestate_enable : BOOLEAN, rx_wd_enable : BOOLEAN,
     rx_wd_safestate_enable : BOOLEAN, rx_wd_timeout_interval : Nat,
     rx_safety_measure : BOOLEAN, rx_safestate_sequencer : Nat,
     rx_safe_sequencer_state : SeqStates]

ASSUME StreamAssumption ==
    /\ IsFiniteSet(Requests) /\ NoRequest \notin Requests
    /\ Plan \in [Requests -> PlanType]
    /\ Cfg \in CfgType
    /\ SeqStates \subseteq Nat /\ 1 \in SeqStates
    /\ StorageSize \in Nat /\ Boot \in Nat /\ MaxTick \in Nat /\ SeqNums \subseteq Nat

VARIABLES
    bank,        \* SequencerBank
    lifecycle,   \* RequestLifecycleState of each request, "Absent" before it arrives
    held,        \* requests the loop keeps
    working,     \* requests an endpoint works on
    arrival,     \* arrival_seq of each request
    arrivals,    \* arrival numbers given
    last_seq,    \* last_accepted_seq of the stream
    last_reset,  \* StreamWatchdogState
    now,         \* the clock, in ticks
    hiz,         \* the pins are forced to high impedance
    outcome,     \* what the client was told of each request
    seq_of,      \* history: the number a queued request carried
    heard        \* history: when the last request arrived

stream == <<arrival, arrivals, last_seq, last_reset, seq_of, heard>>
vars == <<bank, lifecycle, held, working, arrival, arrivals, last_seq,
          last_reset, now, hiz, outcome, seq_of, heard>>

Outcomes == {"refused", "done", "error", "canceled", "purged"}

Pending == {r \in held : lifecycle[r] = "Pending"}

\* A PendingRequestKey.
Key(r) == [kind |-> Plan[r].kind, arrival_seq |-> arrival[r]]

\* SequencerBank::new: every sequencer at the power-on state.
new_bank == [s \in Sequencers |-> 1]

Init ==
    /\ bank = new_bank
    /\ lifecycle = [r \in Requests |-> "Absent"]
    /\ held = {} /\ working = {}
    /\ arrival = [r \in Requests |-> 0] /\ arrivals = 0
    /\ last_seq = 0 /\ last_reset = Boot /\ now = Boot
    /\ hiz = FALSE
    /\ outcome = [r \in Requests |-> "none"]
    /\ seq_of = [r \in Requests |-> 0] /\ heard = Boot

-----------------------------------------------------------------------------
(* Entering the safe state, when a reaction asks for it. *)

SafeState(drives) ==
    LET action == resolve_safe_state_action(drives, resolve_safe_state_mechanism(Cfg))
        gate   == safe_state_sequencer_gate(Cfg)
    IN  /\ hiz' = (hiz \/ action = "ForceHiZAllPins")
        /\ bank' = IF action = "ForceSequencerState"
                   THEN force_state(bank, gate.sequencer_num, gate.start_state) ELSE bank

-----------------------------------------------------------------------------
(* A request arrives: its CRC, its sequence number and the room left are
   judged in that order.  Every request resets the watchdog. *)
Verdicts(seq, intact) ==
    [e2e   |-> check_rx_enforce_e2e(intact, Cfg),
     order |-> evaluate_rx_enforce_seq(last_seq, seq, Cfg),
     room  |-> evaluate_request_storage_overflow(Cardinality(Pending) >= StorageSize, Cfg)]

Welcome(v) == v.e2e = "Ok" /\ v.order = "Accepted" /\ v.room = "NoOverflow"

Admit(r, seq, intact) ==
    /\ lifecycle[r] = "Absent" /\ outcome[r] = "none"
    /\ Welcome(Verdicts(seq, intact))
    /\ lifecycle' = [lifecycle EXCEPT ![r] = "Pending"]
    /\ held' = held \cup {r}
    /\ arrivals' = arrivals + 1
    /\ arrival' = [arrival EXCEPT ![r] = arrivals + 1]
    /\ last_seq' = seq
    /\ seq_of' = [seq_of EXCEPT ![r] = seq]
    /\ last_reset' = now /\ heard' = now
    /\ UNCHANGED <<bank, working, now, hiz, outcome>>

\* Broken variant: only queued requests reset the watchdog.
Refuse_unheard(r, seq, intact) ==
    LET v == Verdicts(seq, intact)
        reaction == IF v.e2e # "Ok" THEN v.e2e
                    ELSE IF v.order # "Accepted" THEN v.order ELSE v.room
    IN  /\ lifecycle[r] = "Absent" /\ outcome[r] = "none"
        /\ ~Welcome(v)
        /\ outcome' = [outcome EXCEPT ![r] = "refused"]
        /\ heard' = now
        /\ SafeState(drives_safestate(reaction))
        /\ UNCHANGED <<lifecycle, held, working, arrival, arrivals, last_seq, last_reset,
                       now, seq_of>>

Refuse(r, seq, intact) ==
    LET v == Verdicts(seq, intact)
        reaction == IF v.e2e # "Ok" THEN v.e2e
                    ELSE IF v.order # "Accepted" THEN v.order ELSE v.room
    IN  /\ lifecycle[r] = "Absent" /\ outcome[r] = "none"
        /\ ~Welcome(v)
        /\ outcome' = [outcome EXCEPT ![r] = "refused"]
        /\ last_reset' = now /\ heard' = now
        /\ SafeState(drives_safestate(reaction))
        /\ UNCHANGED <<lifecycle, held, working, arrival, arrivals, last_seq, now, seq_of>>

-----------------------------------------------------------------------------
(* The life of a request that was queued. *)

\* A link of a chain is considered when the link before it has its outcome.
PredecessorIsOver(r) ==
    Plan[r].kind = "Chained" /\ Plan[r].prev # NoRequest => outcome[Plan[r].prev] # "none"

predecessor_errored(r) ==
    Plan[r].prev # NoRequest /\ outcome[Plan[r].prev] \notin {"none", "done"}

Facts(r) ==
    [bank |-> bank,
     gate |-> [sequencer_num |-> Plan[r].sequencer_num, start_state |-> Plan[r].start_state],
     current |-> now % RolloverPeriod, exec_time |-> Plan[r].at % RolloverPeriod,
     cs |-> Plan[r].cs, predecessor_errored |-> predecessor_errored(r),
     endpoint_busy |-> working # {},
     occurrences |-> Plan[r].occurrences, repeat |-> Plan[r].repeat]

Verdict(r, to) == try_transition(lifecycle[r], to, Plan[r].kind, Facts(r))

\* The slice handed to select_next_pending_request: what could start now.
Eligible == {r \in Pending : PredecessorIsOver(r) /\ Verdict(r, "Started") = "Ok"}

Start(r) ==
    /\ r \in Eligible
    /\ is_next_pending_request(Key(r), {Key(q) : q \in Eligible})
    /\ lifecycle' = [lifecycle EXCEPT ![r] = "Started"]
    /\ UNCHANGED <<bank, held, working, stream, now, hiz, outcome>>

Execute(r) ==
    /\ r \in held /\ lifecycle[r] = "Started" /\ Plan[r].kind \notin Cancellations
    /\ Verdict(r, "UnderExecution") = "Ok"
    /\ lifecycle' = [lifecycle EXCEPT ![r] = "UnderExecution"]
    /\ working' = working \cup {r}
    /\ UNCHANGED <<bank, held, stream, now, hiz, outcome>>

\* The next hop is refused for good: the error is the answer.
Fail(r) ==
    /\ r \in held
    /\ \/ lifecycle[r] = "Pending" /\ Verdict(r, "Started") = "SequencerNotKnown"
       \/ lifecycle[r] = "Started" /\ Verdict(r, "UnderExecution") # "Ok"
    /\ held' = held \ {r}
    /\ outcome' = [outcome EXCEPT ![r] = "error"]
    /\ UNCHANGED <<bank, lifecycle, working, stream, now, hiz>>

\* What a cancellation request c says to a request it meets.
CancelVerdict(c, r) ==
    IF Plan[c].kind = "ClearAll" THEN try_force_cancel_all(lifecycle[r])
    ELSE IF Plan[c].kind = "ClearNonSafestate"
         THEN try_force_cancel_non_safestate(lifecycle[r], Plan[r].safestate)
    ELSE try_force_cancel_single(lifecycle[r], Plan[r].transaction_num, Plan[c].target)

\* A cancellation executes: it meets every other request the loop holds.
Cancel(c) ==
    /\ c \in held /\ lifecycle[c] = "Started" /\ Plan[c].kind \in Cancellations
    /\ LET canceled == {r \in held \ {c} : CancelVerdict(c, r) = "RequestCanceled"}
       IN  /\ lifecycle' = [r \in Requests |->
                                IF r \in canceled \cup {c} THEN "Finalized" ELSE lifecycle[r]]
           /\ outcome' = [r \in Requests |-> IF r \in canceled THEN "canceled"
                                             ELSE IF r = c THEN "done" ELSE outcome[r]]
    /\ UNCHANGED <<bank, held, working, stream, now, hiz>>

\* The endpoint is done with r.  A request canceled meanwhile is finalized
\* already: the hop is refused and nothing else happens.
Complete(r, succeeded) ==
    /\ r \in working
    /\ working' = working \ {r}
    /\ IF Verdict(r, "Finalized") = "Ok"
       THEN /\ lifecycle' = [lifecycle EXCEPT ![r] = "Finalized"]
            /\ outcome' = [outcome EXCEPT ![r] = IF succeeded THEN "done" ELSE "error"]
            /\ bank' = IF succeeded /\ Plan[r].kind \in SequencerGated
                       THEN advance_if_still_in_start_state(bank, Facts(r).gate,
                                                            Plan[r].next_state)
                       ELSE bank
       ELSE UNCHANGED <<lifecycle, outcome, bank>>
    /\ UNCHANGED <<held, stream, now, hiz>>

\* A finalized request leaves the loop's table, at any later time.
Release(r) ==
    /\ r \in held \ working /\ lifecycle[r] = "Finalized"
    /\ held' = held \ {r}
    /\ UNCHANGED <<bank, lifecycle, working, stream, now, hiz, outcome>>

\* The loop evaluates the watchdog; an expired one purges what is pending.
EvaluateWatchdog ==
    LET wd     == evaluate_stream_watchdog(last_reset, now, Cfg)
        purged == {r \in Pending :
                     check_watchdog_overflow_purge(Plan[r].kind, watchdog_overflowed(wd)) # "Ok"}
    IN  /\ held' = held \ purged
        /\ outcome' = [r \in Requests |-> IF r \in purged THEN "purged" ELSE outcome[r]]
        /\ SafeState(drives_safestate(wd))
        /\ UNCHANGED <<lifecycle, working, stream, now>>

Tick ==
    /\ now < MaxTick
    /\ now' = now + 1
    /\ UNCHANGED <<bank, lifecycle, held, working, stream, hiz, outcome>>

Next ==
    \/ \E r \in Requests, seq \in SeqNums, intact \in BOOLEAN :
            Admit(r, seq, intact) \/ Refuse(r, seq, intact)
    \/ \E r \in Requests : Start(r) \/ Execute(r) \/ Fail(r) \/ Cancel(r) \/ Release(r)
    \/ \E r \in Requests, succeeded \in BOOLEAN : Complete(r, succeeded)
    \/ EvaluateWatchdog
    \/ Tick

Spec == Init /\ [][Next]_vars

-----------------------------------------------------------------------------
(* Properties. *)

\* Types, and the storage never holds more than it can (request.rs,
\* evaluate_request_storage_overflow).
TypeOK ==
    /\ bank \in [Sequencers -> SeqStates]
    /\ lifecycle \in [Requests -> LifecycleStates \cup {"Absent"}]
    /\ held \subseteq Requests /\ working \subseteq Requests
    /\ Cardinality(Pending) <= StorageSize
    /\ arrival \in [Requests -> Nat] /\ arrivals \in Nat
    /\ last_seq \in Nat /\ last_reset \in Nat /\ now \in Nat
    /\ hiz \in BOOLEAN
    /\ outcome \in [Requests -> Outcomes \cup {"none"}]
    /\ seq_of \in [Requests -> Nat] /\ heard \in Nat

\* Each request is answered once, although a cancellation, the purge, an
\* error and the endpoint's own completion may meet in any order.
Promise == INSTANCE RequestPromise
AnsweredOnce == Promise!Spec

\* A sequencer leaves a state only through a request that was gated on that
\* state and is still open when it succeeds, or into the safe state: a late
\* completion neither undoes a forced safe state nor counts a step twice.
SequencersMoveAsGated ==
    [][\A s \in Sequencers : bank'[s] # bank[s] =>
          \/ /\ s = Cfg.rx_safestate_sequencer
             /\ bank'[s] = Cfg.rx_safe_sequencer_state
          \/ \E r \in Requests :
                /\ outcome[r] = "none" /\ outcome'[r] = "done"
                /\ Plan[r].sequencer_num = s
                /\ Plan[r].start_state = bank[s] /\ Plan[r].next_state = bank'[s]]_vars

\* The watchdog purges normal requests only, and only after a silence of the
\* configured length: a refused request is a sign of life too.
PurgeOnlyAfterSilence ==
    [][\A r \in Requests : outcome'[r] = "purged" /\ outcome[r] # "purged" =>
          /\ Plan[r].kind \notin SafetyTagged
          /\ Cfg.rx_wd_enable /\ now - heard >= Cfg.rx_wd_timeout_interval]_vars

\* Requests are queued in the order their sender numbered them, and none is
\* queued twice, when the stream enforces sequence numbers.
QueuedInSequence ==
    Cfg.rx_enforce_seq =>
        \A q, r \in Requests : 0 < arrival[q] /\ arrival[q] < arrival[r] => seq_of[q] < seq_of[r]

\* The links of the chain after a, up to z.
LinksBetween(a, z) ==
    {l \in Requests : Plan[a].link < Plan[l].link /\ Plan[l].link <= Plan[z].link}

\* After a failed link no later link runs, as long as each of them sets cs:
\* the abort of one aborts the next.
ChainStopsAtError ==
    \A a, z \in Requests :
        /\ 0 < Plan[a].link /\ Plan[a].link < Plan[z].link
        /\ outcome[a] \notin {"none", "done"}
        /\ \A l \in LinksBetween(a, z) : Plan[l].kind = "Chained" /\ Plan[l].cs
        => z \notin working /\ outcome[z] # "done"

\* What starts is the most urgent request that could, and of those the first
\* in the order of its sender, if the stream enforces sequence numbers: the
\* arrival numbers that break a tie were given as the requests were queued.
StartsInSendersOrder ==
    [][\A q, r \in Requests :
          /\ lifecycle[r] = "Pending" /\ lifecycle'[r] = "Started"
          /\ q \in Eligible \ {r}
          => LET tier(x) == execution_priority_tier(Plan[x].kind)
             IN  \/ tier(r) < tier(q)
                 \/ tier(r) = tier(q) /\ (Cfg.rx_enforce_seq => seq_of[r] < seq_of[q])]_vars

\* A timed request that is due within half a rollover period does not start
\* before it is due.  An instant that reads as zero means "untimed".
NeverStartsEarly ==
    [][\A r \in Requests :
          /\ lifecycle[r] = "Pending" /\ lifecycle'[r] = "Started"
          /\ Plan[r].kind = "Timed" /\ Plan[r].at % RolloverPeriod # 0
          /\ Plan[r].at - now < RolloverPeriod \div 2
          => now >= Plan[r].at]_vars
=============================================================================
