-------------------------- MODULE MCRequestStream ---------------------------
EXTENDS RequestStream, TLC

CONSTANTS step, safe, timed, link2, clear

MCRequests == {step, safe, timed, link2, clear}

Plain == [kind |-> "Standard", sequencer_num |-> 0, start_state |-> 1, next_state |-> 1,
        cs |-> FALSE, prev |-> NoRequest, link |-> 0, at |-> 0, occurrences |-> 0,
        repeat |-> 0, transaction_num |-> 0, target |-> 0, safestate |-> FALSE]

\* Two requests of one tier that move sequencer 0 out of the same state, one of
\* them into the safe state 3; a timed one, which is also the first link of a
\* chain; a cancellation.
MCPlan ==
    (step :> [Plain EXCEPT !.kind = "Compound", !.next_state = 2]) @@
    (safe :> [Plain EXCEPT !.kind = "SafetyCompound", !.next_state = 3, !.safestate = TRUE]) @@
    (timed :> [Plain EXCEPT !.kind = "Timed", !.at = 7, !.link = 1]) @@
    (link2 :> [Plain EXCEPT !.kind = "Chained", !.cs = TRUE, !.link = 2, !.prev = timed]) @@
    (clear :> [Plain EXCEPT !.kind = "ClearNonSafestate"])

MCCfg ==
    [rx_enforce_e2e |-> FALSE, rx_enforce_seq |-> TRUE, rx_seq_safestate_enable |-> FALSE,
     rx_ovrflw_safestate_enable |-> FALSE, rx_wd_enable |-> TRUE,
     rx_wd_safestate_enable |-> TRUE, rx_wd_timeout_interval |-> 2,
     rx_safety_measure |-> TRUE, rx_safestate_sequencer |-> 0, rx_safe_sequencer_state |-> 3]
=============================================================================
