----------------------------- MODULE Redundancy -----------------------------
(***************************************************************************)
(* dispatch of RedundancyEndpoint (src/src/redundancy.rs) over a primary   *)
(* behind a ProxyEndpoint (src/src/proxy.rs) and a standby.  The first     *)
(* attempt runs with the state mutex held, the second without it.          *)
(***************************************************************************)
EXTENDS Integers

CONSTANTS Clients,    \* threads that call the endpoint
          NoOne,      \* nobody holds the mutex
          MaxErrors   \* errors of the devices a run is about

ASSUME RedundancyAssumption == NoOne \notin Clients /\ MaxErrors \in Nat

VARIABLES
    primary, secondary, failovers,  \* struct Inner
    guard,     \* who holds the mutex of Inner
    attached,  \* the proxy has an inner endpoint
    errors,    \* errors the devices have returned
    stage,     \* per client: "idle", "primary", "failed", "retrying"
    tried,     \* per client, the endpoint of its last attempt
    returned   \* what the last call to return returned

redVars == <<primary, secondary, failovers, guard, attached, errors, stage, tried, returned>>

\* The endpoint created as primary is the proxied one.
Members == {"proxied", "standby"}

RedInit ==
    /\ primary = "proxied" /\ secondary = "standby" /\ failovers = 0
    /\ guard = NoOne /\ attached \in BOOLEAN /\ errors = 0
    /\ stage = [c \in Clients |-> "idle"]
    /\ tried = [c \in Clients |-> "none"] /\ returned = "none"

-----------------------------------------------------------------------------
\* What a member may answer to read or write: a detached proxy is
\* NotConnected, a device may fail.
Answers(member) ==
    (IF member = "proxied" /\ ~attached THEN {} ELSE {"Ok"})
      \cup (IF (member = "proxied" /\ ~attached) \/ errors < MaxErrors THEN {"Err"} ELSE {})

Count(member, answer) ==
    errors' = IF answer = "Ok" \/ (member = "proxied" /\ ~attached) THEN errors ELSE errors + 1

Return(c, answer) ==
    /\ stage' = [stage EXCEPT ![c] = "idle"]
    /\ tried' = [tried EXCEPT ![c] = "none"]
    /\ returned' = answer

\* dispatch takes the mutex and calls the primary.
Enter(c) ==
    /\ stage[c] = "idle" /\ guard = NoOne
    /\ guard' = c /\ stage' = [stage EXCEPT ![c] = "primary"]
    /\ tried' = [tried EXCEPT ![c] = primary]
    /\ UNCHANGED <<primary, secondary, failovers, attached, errors, returned>>

\* Broken variant: the temporary guard lives to the end of the match.
FirstAnswer_locked(c) ==
    /\ stage[c] = "primary"
    /\ \E answer \in Answers(tried[c]) :
         /\ Count(tried[c], answer)
         /\ \/ answer = "Ok" /\ Return(c, "Ok") /\ guard' = NoOne
            \/ answer = "Err" /\ stage' = [stage EXCEPT ![c] = "failed"] /\ UNCHANGED <<tried, returned, guard>>
    /\ UNCHANGED <<primary, secondary, failovers, attached>>

\* The primary has answered and the mutex is free again.
FirstAnswer(c) ==
    /\ stage[c] = "primary"
    /\ \E answer \in Answers(tried[c]) :
         /\ Count(tried[c], answer)
         /\ \/ answer = "Ok" /\ Return(c, "Ok")
            \/ answer = "Err" /\ stage' = [stage EXCEPT ![c] = "failed"] /\ UNCHANGED <<tried, returned>>
    /\ guard' = NoOne
    /\ UNCHANGED <<primary, secondary, failovers, attached>>

\* Broken variant: clones the standby where the code takes it.
Promote_clone(c) ==
    /\ stage[c] = "failed" /\ guard = NoOne
    /\ primary' = secondary /\ failovers' = failovers + 1
    /\ stage' = [stage EXCEPT ![c] = "retrying"]
    /\ tried' = [tried EXCEPT ![c] = secondary]
    /\ UNCHANGED <<secondary, returned, guard, attached, errors>>

\* Broken variant: promotes whatever is there.
Promote_unwrapped(c) ==
    /\ stage[c] = "failed" /\ guard = NoOne
    /\ primary' = secondary /\ secondary' = "none" /\ failovers' = failovers + 1
    /\ stage' = [stage EXCEPT ![c] = "retrying"]
    /\ tried' = [tried EXCEPT ![c] = secondary]
    /\ UNCHANGED <<returned, guard, attached, errors>>

\* Broken variant: promotes, and still returns the error of the primary.
Promote_unretried(c) ==
    /\ stage[c] = "failed" /\ guard = NoOne
    /\ Return(c, "Err")
    /\ IF secondary = "none" THEN UNCHANGED <<primary, secondary, failovers>>
       ELSE primary' = secondary /\ secondary' = "none" /\ failovers' = failovers + 1
    /\ UNCHANGED <<guard, attached, errors>>

\* The mutex again: with no standby left the error stands, else it is promoted.
Promote(c) ==
    /\ stage[c] = "failed" /\ guard = NoOne
    /\ \/ /\ secondary = "none"
          /\ Return(c, "Err")
          /\ UNCHANGED <<primary, secondary, failovers>>
       \/ /\ secondary # "none"
          /\ primary' = secondary /\ secondary' = "none" /\ failovers' = failovers + 1
          /\ stage' = [stage EXCEPT ![c] = "retrying"]
          /\ tried' = [tried EXCEPT ![c] = secondary]
          /\ UNCHANGED returned
    /\ UNCHANGED <<guard, attached, errors>>

\* The second attempt; its answer is the call's.
Retry(c) ==
    /\ stage[c] = "retrying"
    /\ \E answer \in Answers(tried[c]) :
         /\ Count(tried[c], answer)
         /\ Return(c, answer)
    /\ UNCHANGED <<primary, secondary, failovers, guard, attached>>

RedStep(c) == FirstAnswer(c) \/ Promote(c) \/ Retry(c)

\* detach and swap take the write lock of the proxy, which a call in
\* progress on the proxied endpoint holds for reading.
Replug ==
    /\ \A c \in Clients : stage[c] = "primary" => tried[c] # "proxied"
    /\ attached' = ~attached
    /\ UNCHANGED <<primary, secondary, failovers, guard, errors, stage, tried, returned>>

-----------------------------------------------------------------------------
(* The standby is promoted at most once and stays: two calls that fail      *)
(* together neither promote it twice nor put the failed endpoint back, and  *)
(* failover_count and has_secondary tell the same story.                    *)
PromotedOnce ==
    [][/\ failovers' \in {failovers, failovers + 1} /\ failovers' <= 1
       /\ (failovers' = 1) <=> (secondary' = "none")
       /\ (failovers' = 1) <=> (primary' = "standby")]_<<primary, secondary, failovers>>

(* A call returns an error only after the standby failed it, or, having     *)
(* failed on the old primary alone, when another call had already taken the *)
(* standby: such a call is not retried on the new primary (redundancy.rs    *)
(* dispatch, the None arm).                                                 *)
ErrorHadNoStandby ==
    [][\A c \in Clients :
          stage[c] # "idle" /\ stage'[c] = "idle" /\ returned' = "Err" =>
              tried[c] = "standby" \/ failovers = 1]_redVars

(* REQ-RED-004, "On primary error, the secondary is promoted and the call   *)
(* is retried": an error reaches the caller only from the standby.  False   *)
(* when two calls fail on the primary before either has promoted.           *)
ErrorMeansBothFailed ==
    [][\A c \in Clients :
          stage[c] # "idle" /\ stage'[c] = "idle" /\ returned' = "Err" =>
              tried[c] = "standby"]_redVars
=============================================================================
