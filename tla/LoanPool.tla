------------------------------ MODULE LoanPool ------------------------------
(***************************************************************************)
(* The buffer pool of src/src/loan.rs and the Loan of src/src/lib.rs:      *)
(* threads take a buffer, wait on a condition variable when there is none, *)
(* fill it, and give it back, with or without writing what is in it.       *)
(***************************************************************************)
EXTENDS Integers, Sequences, FiniteSets

CONSTANTS Callers,     \* threads that use the pool
          Buffers,     \* its buffers
          BufferSize,  \* the bytes of one
          Sizes,       \* the sizes callers ask for
          None,        \* no buffer, no payload
          MaxLoans     \* loans a run is about

ASSUME LoanPoolAssumption ==
    /\ IsFiniteSet(Callers) /\ IsFiniteSet(Buffers)
    /\ BufferSize \in Nat /\ Sizes \subseteq Nat /\ MaxLoans \in Nat
    /\ None \notin Buffers /\ None \notin Callers

VARIABLES
    pool,      \* the vector of free buffers, taken from its end
    at,        \* per caller: where it is, see Places
    buf,       \* per caller, the buffer of its Loan
    contents,  \* per buffer, who wrote into it last
    payload,   \* per caller, whose bytes write_loaned copied out
    loans      \* calls of acquire and try_acquire

poolVars == <<pool, at, buf, contents, payload, loans>>

Places == {"idle", "acquiring", "waiting", "holding", "filled", "notifying",
           "writing", "calling"}

PoolInit ==
    /\ pool \in [1 .. Cardinality(Buffers) -> Buffers]
    /\ \A i, j \in DOMAIN pool : pool[i] = pool[j] => i = j
    /\ \A b \in Buffers : \E i \in DOMAIN pool : pool[i] = b
    /\ at = [c \in Callers |-> "idle"] /\ buf = [c \in Callers |-> None]
    /\ contents = [b \in Buffers |-> None]
    /\ payload = [c \in Callers |-> None] /\ loans = 0

-----------------------------------------------------------------------------
\* loan: a size no buffer has is PayloadTooLarge and leaves the pool alone.
Ask(c) ==
    /\ at[c] = "idle" /\ loans < MaxLoans
    /\ \E size \in Sizes :
         at' = [at EXCEPT ![c] = IF size > BufferSize THEN "idle" ELSE "acquiring"]
    /\ loans' = loans + 1
    /\ UNCHANGED <<pool, buf, contents, payload>>

Pop(c) ==
    /\ pool # <<>>
    /\ buf' = [buf EXCEPT ![c] = pool[Len(pool)]]
    /\ pool' = SubSeq(pool, 1, Len(pool) - 1)
    /\ at' = [at EXCEPT ![c] = "holding"]
    /\ UNCHANGED <<contents, payload>>

\* acquire, with the mutex: a buffer, or the wait that gives the mutex up.
Acquire(c) ==
    /\ at[c] = "acquiring"
    /\ \/ Pop(c)
       \/ /\ pool = <<>>
          /\ at' = [at EXCEPT ![c] = "waiting"]
          /\ UNCHANGED <<pool, buf, contents, payload>>
    /\ UNCHANGED loans

\* try_acquire; None when the pool is empty changes nothing.
TryAcquire(c) ==
    /\ at[c] = "idle" /\ loans < MaxLoans
    /\ Pop(c)
    /\ loans' = loans + 1

\* A condition variable may wake a thread nobody notified; acquire loops.
Spurious(c) ==
    /\ at[c] = "waiting"
    /\ at' = [at EXCEPT ![c] = "acquiring"]
    /\ UNCHANGED <<pool, buf, contents, payload, loans>>

\* The holder writes into the payload of its Loan.
Fill(c) ==
    /\ at[c] = "holding"
    /\ contents' = [contents EXCEPT ![buf[c]] = c]
    /\ at' = [at EXCEPT ![c] = "filled"]
    /\ UNCHANGED <<pool, buf, payload, loans>>

\* Broken variant: the closure runs in return_loan and again in drop.
GiveBack_twice(c) ==
    /\ pool' = pool \o <<buf[c], buf[c]>>
    /\ buf' = [buf EXCEPT ![c] = None]
    /\ at' = [at EXCEPT ![c] = "notifying"]

\* The release closure: push under the mutex; notify_one follows without it.
GiveBack(c) ==
    /\ pool' = Append(pool, buf[c])
    /\ buf' = [buf EXCEPT ![c] = None]
    /\ at' = [at EXCEPT ![c] = "notifying"]

\* return_loan, or a Loan that goes out of scope.
ReturnLoan(c) ==
    /\ at[c] \in {"holding", "filled"}
    /\ GiveBack(c)
    /\ UNCHANGED <<contents, payload, loans>>

\* write_loaned up to the end of drop(loan): copy, then give back.
WriteLoaned(c) ==
    /\ at[c] = "filled"
    /\ payload' = [payload EXCEPT ![c] = contents[buf[c]]]
    /\ GiveBack(c)
    /\ UNCHANGED <<contents, loans>>

\* Broken variant: notified before the push, or not at all.
Notify_nobody(c) ==
    /\ at[c] = "notifying"
    /\ at' = [at EXCEPT ![c] = IF payload[c] = None THEN "idle" ELSE "writing"]
    /\ UNCHANGED <<pool, buf, contents, payload, loans>>

\* notify_one: one of the waiting threads, if there is one, runs again.
Notify(c) ==
    LET after == IF payload[c] = None THEN "idle" ELSE "writing"
        waiting == {w \in Callers : at[w] = "waiting"}
    IN  /\ at[c] = "notifying"
        /\ \/ waiting = {} /\ at' = [at EXCEPT ![c] = after]
           \/ \E w \in waiting : at' = [at EXCEPT ![c] = after, ![w] = "acquiring"]
        /\ UNCHANGED <<pool, buf, contents, payload, loans>>

\* What a thread inside the pool does next.
PoolStep(c) == Acquire(c) \/ Fill(c) \/ ReturnLoan(c) \/ WriteLoaned(c) \/ Notify(c)

-----------------------------------------------------------------------------
(* Every buffer is in the pool or in one Loan, never in both, in two places *)
(* or in neither (the take of lib.rs Loan::drop and return_loan).           *)
BuffersConserved ==
    /\ \A i, j \in DOMAIN pool : pool[i] = pool[j] => i = j
    /\ \A c, d \in Callers : buf[c] = buf[d] /\ buf[c] # None => c = d
    /\ \A b \in Buffers : (\E i \in DOMAIN pool : pool[i] = b) # (\E c \in Callers : buf[c] = b)

(* A thread waits in acquire only while every free buffer has someone on    *)
(* the way to it: a notice still to be given, or a thread already awake.    *)
NoLostLoan ==
    (\E c \in Callers : at[c] = "waiting") =>
        Len(pool) <= Cardinality({c \in Callers : at[c] \in {"notifying", "acquiring"}})
=============================================================================
