----------------------------- MODULE Endpoints ------------------------------
(***************************************************************************)
(* LoanPoolEndpoint over RedundancyEndpoint: the inner.write with which    *)
(* write_loaned ends is a dispatch, and so is a plain read or write.       *)
(***************************************************************************)
EXTENDS LoanPool, Redundancy

CONSTANT MaxPlain   \* plain reads and writes a run is about
ASSUME EndpointsAssumption == Clients = Callers /\ MaxPlain \in Nat

VARIABLES plain,    \* plain reads and writes
          written   \* history: per caller, whose bytes its write in progress carries

vars == <<poolVars, redVars, plain, written>>

Init ==
    /\ PoolInit /\ RedInit
    /\ plain = 0 /\ written = [c \in Callers |-> None]

\* Broken variant: the bytes are read from the buffer, which is back in the pool.
Forward_uncopied(c) ==
    /\ at[c] = "writing" /\ Enter(c)
    /\ at' = [at EXCEPT ![c] = "calling"]
    /\ \E b \in Buffers : written' = [written EXCEPT ![c] = contents[b]]
    /\ UNCHANGED <<pool, buf, contents, payload, loans, plain>>

\* inner.write(&payload) of write_loaned.
Forward(c) ==
    /\ at[c] = "writing" /\ Enter(c)
    /\ at' = [at EXCEPT ![c] = "calling"]
    /\ written' = [written EXCEPT ![c] = payload[c]]
    /\ UNCHANGED <<pool, buf, contents, payload, loans, plain>>

\* read or write of LoanPoolEndpoint, without a loan.
CallPlain(c) ==
    /\ at[c] = "idle" /\ plain < MaxPlain /\ Enter(c)
    /\ at' = [at EXCEPT ![c] = "calling"] /\ plain' = plain + 1
    /\ UNCHANGED <<pool, buf, contents, payload, loans, written>>

\* A step of the dispatch; its return is the return of the whole call.
Dispatch(c) ==
    /\ at[c] = "calling" /\ RedStep(c)
    /\ LET over == stage'[c] = "idle"
       IN  /\ at' = [at EXCEPT ![c] = IF over THEN "idle" ELSE @]
           /\ payload' = [payload EXCEPT ![c] = IF over THEN None ELSE @]
           /\ written' = [written EXCEPT ![c] = IF over THEN None ELSE @]
    /\ UNCHANGED <<pool, buf, contents, loans, plain>>

Lend(c) == (Ask(c) \/ TryAcquire(c) \/ PoolStep(c) \/ Spurious(c)) /\ UNCHANGED <<redVars, plain, written>>

Continue(c) ==
    \/ PoolStep(c) /\ UNCHANGED <<redVars, plain, written>>
    \/ Forward(c)
    \/ Dispatch(c)

Next ==
    \/ \E c \in Callers : Lend(c) \/ Forward(c) \/ CallPlain(c) \/ Dispatch(c)
    \/ Replug /\ UNCHANGED <<poolVars, plain, written>>

Spec == Init /\ [][Next]_vars

\* A thread in a call keeps running, a holder gives its Loan back at the
\* latest when it goes out of scope, and mutexes are granted in time.
Fairness == \A c \in Callers : SF_vars(Continue(c))
FairSpec == Spec /\ Fairness

-----------------------------------------------------------------------------
TypeOK ==
    /\ at \in [Callers -> Places] /\ stage \in [Callers -> {"idle", "primary", "failed", "retrying"}]
    /\ buf \in [Callers -> Buffers \cup {None}] /\ contents \in [Buffers -> Callers \cup {None}]
    /\ payload \in [Callers -> Callers \cup {None}] /\ written \in [Callers -> Callers \cup {None}]
    /\ pool \in Seq(Buffers) /\ guard \in Callers \cup {NoOne} /\ primary \in Members
    /\ secondary \in {"standby", "none"} /\ failovers \in Nat /\ attached \in BOOLEAN
    /\ tried \in [Callers -> Members \cup {"none"}] /\ returned \in {"none", "Ok", "Err"}
    /\ errors \in Nat /\ loans \in Nat /\ plain \in Nat

(* write_loaned gives the buffer back before inner.write runs; what reaches *)
(* the device is what this caller put there, although another thread may    *)
(* own and refill the buffer by then (loan.rs write_loaned).                *)
OwnBytesWritten == \A c \in Callers : written[c] \in {c, None}

(* Whoever asks the pool for a buffer gets one, and every call returns.     *)
LoansGranted ==
    \A c \in Callers : /\ at[c] = "acquiring" ~> at[c] = "holding"
                       /\ at[c] = "calling" ~> at[c] = "idle"
=============================================================================
