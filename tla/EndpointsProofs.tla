-------------------------- MODULE EndpointsProofs ---------------------------
(***************************************************************************)
(* Theorems of Endpoints.  Inv adds to the invariants the runs check what  *)
(* relates the place of a caller to its buffer, its bytes and its attempt. *)
(***************************************************************************)
EXTENDS Endpoints, FiniteSetTheorems, SequenceTheorems, TLAPS

\* A caller holds a buffer exactly while it is in one of two places, and the
\* buffer it has filled is still as it left it.
Holding ==
    \A c \in Callers : /\ (buf[c] # None) <=> (at[c] \in {"holding", "filled"})
                       /\ at[c] = "filled" => contents[buf[c]] = c

OwnBytes == \A c \in Callers : payload[c] \in {c, None} /\ written[c] \in {c, None}

\* Before the failover and after it.
Failover ==
    /\ \/ failovers = 0 /\ primary = "proxied" /\ secondary = "standby"
       \/ failovers = 1 /\ primary = "standby" /\ secondary = "none"
    /\ \A c \in Callers : stage[c] = "retrying" => tried[c] = "standby"

Inv == TypeOK /\ BuffersConserved /\ NoLostLoan /\ Holding /\ OwnBytes /\ Failover

\* The callers that count in NoLostLoan.
Coming == {c \in Callers : at[c] \in {"notifying", "acquiring"}}

USE EndpointsAssumption, LoanPoolAssumption, RedundancyAssumption

LEMMA InitInv == Init => Inv
<1> SUFFICES ASSUME Init PROVE Inv OBVIOUS
<1> USE DEF Init, PoolInit, RedInit
<1>1. pool \in Seq(Buffers)
  BY FS_CardinalityType
<1>2. TypeOK
  BY <1>1 DEF TypeOK, Places, Members
<1>3. BuffersConserved
  BY DEF BuffersConserved
<1>4. NoLostLoan /\ Holding /\ OwnBytes /\ Failover
  BY DEF NoLostLoan, Holding, OwnBytes, Failover
<1> QED BY <1>2, <1>3, <1>4 DEF Inv

\* The disjuncts of Next, one by one, and the stuttering step.
LEMMA Steps ==
    ASSUME [Next]_vars
    PROVE  \/ \E c \in Callers : \/ (Ask(c) \/ TryAcquire(c) \/ Acquire(c) \/ Fill(c) \/ ReturnLoan(c)
                                       \/ WriteLoaned(c) \/ Notify(c) \/ Spurious(c))
                                    /\ UNCHANGED <<redVars, plain, written>>
                                 \/ Forward(c) \/ CallPlain(c)
                                 \/ Dispatch(c)
           \/ Replug /\ UNCHANGED <<poolVars, plain, written>>
           \/ UNCHANGED vars
BY DEF Next, Lend, PoolStep

LEMMA PopType ==
    ASSUME TypeOK, NEW c \in Callers, Pop(c)
    PROVE  /\ pool' \in Seq(Buffers) /\ Len(pool') = Len(pool) - 1 /\ Len(pool) \in Nat \ {0}
           /\ \A i \in DOMAIN pool' : pool'[i] = pool[i]
           /\ DOMAIN pool = 1 .. Len(pool) /\ DOMAIN pool' = 1 .. Len(pool) - 1
           /\ buf' = [buf EXCEPT ![c] = pool[Len(pool)]] /\ pool[Len(pool)] \in Buffers
<1>1. pool \in Seq(Buffers) /\ pool # <<>> /\ pool' = SubSeq(pool, 1, Len(pool) - 1)
  BY DEF Pop, TypeOK
<1>2. Len(pool) \in Nat \ {0} /\ DOMAIN pool = 1 .. Len(pool)
  BY <1>1
<1>3. /\ pool' \in Seq(Buffers) /\ Len(pool') = Len(pool) - 1
      /\ \A i \in 1 .. Len(pool) - 1 : pool'[i] = pool[i]
  BY <1>1, <1>2
<1>4. buf' = [buf EXCEPT ![c] = pool[Len(pool)]]
  BY DEF Pop
<1> QED BY <1>1, <1>2, <1>3, <1>4

LEMMA GiveBackType ==
    ASSUME TypeOK, NEW c \in Callers, buf[c] \in Buffers, GiveBack(c)
    PROVE  /\ pool' \in Seq(Buffers) /\ Len(pool') = Len(pool) + 1 /\ Len(pool) \in Nat
           /\ \A i \in 1 .. Len(pool) : pool'[i] = pool[i]
           /\ pool'[Len(pool) + 1] = buf[c]
           /\ DOMAIN pool = 1 .. Len(pool) /\ DOMAIN pool' = 1 .. Len(pool) + 1
           /\ buf' = [buf EXCEPT ![c] = None]
BY DEF GiveBack, TypeOK

\* Holding, as far as types need it.
LEMMA HeldBuffer ==
    ASSUME TypeOK, Holding, NEW c \in Callers, at[c] \in {"holding", "filled"}
    PROVE  buf[c] \in Buffers
BY DEF TypeOK, Holding

LEMMA TypeStep ==
    ASSUME Inv, [Next]_vars
    PROVE  TypeOK'
<1> USE DEF Inv, TypeOK, Places, Members
<1>1. ASSUME NEW c \in Callers, Pop(c), UNCHANGED <<redVars, plain, written>>, loans' \in Nat
      PROVE  TypeOK'
  <2>1. pool' \in Seq(Buffers) /\ buf' \in [Callers -> Buffers \cup {None}]
    BY <1>1, PopType
  <2> QED BY <1>1, <2>1 DEF Pop, redVars
<1>2. ASSUME NEW c \in Callers, at[c] \in {"holding", "filled"}, GiveBack(c),
             UNCHANGED <<redVars, plain, written, contents, loans>>,
             payload' \in [Callers -> Callers \cup {None}]
      PROVE  TypeOK'
  <2>1. pool' \in Seq(Buffers) /\ buf' \in [Callers -> Buffers \cup {None}]
    BY <1>2, GiveBackType, HeldBuffer
  <2>2. at' = [at EXCEPT ![c] = "notifying"]
    BY <1>2 DEF GiveBack
  <2> QED BY <1>2, <2>1, <2>2 DEF redVars
<1>3. CASE UNCHANGED vars
  BY <1>3 DEF vars, poolVars, redVars
<1>4. CASE Replug /\ UNCHANGED <<poolVars, plain, written>>
  BY <1>4 DEF Replug, poolVars
<1>5. ASSUME NEW c \in Callers, Ask(c), UNCHANGED <<redVars, plain, written>> PROVE TypeOK'
  BY <1>5 DEF Ask, redVars
<1>6. ASSUME NEW c \in Callers, TryAcquire(c), UNCHANGED <<redVars, plain, written>> PROVE TypeOK'
  BY <1>6, <1>1 DEF TryAcquire
<1>7. ASSUME NEW c \in Callers, Acquire(c), UNCHANGED <<redVars, plain, written>> PROVE TypeOK'
  <2>1. CASE Pop(c)
    BY <1>7, <1>1, <2>1 DEF Acquire
  <2>2. CASE ~Pop(c)
    BY <1>7, <2>2 DEF Acquire, redVars
  <2> QED BY <2>1, <2>2
<1>8. ASSUME NEW c \in Callers, Fill(c), UNCHANGED <<redVars, plain, written>> PROVE TypeOK'
  BY <1>8, HeldBuffer DEF Fill, redVars
<1>9. ASSUME NEW c \in Callers, ReturnLoan(c), UNCHANGED <<redVars, plain, written>> PROVE TypeOK'
  BY <1>9, <1>2 DEF ReturnLoan
<1>10. ASSUME NEW c \in Callers, WriteLoaned(c), UNCHANGED <<redVars, plain, written>> PROVE TypeOK'
  <2>1. at[c] = "filled" /\ buf[c] \in Buffers
    BY <1>10, HeldBuffer DEF WriteLoaned
  <2>2. payload' \in [Callers -> Callers \cup {None}]
    BY <1>10, <2>1 DEF WriteLoaned
  <2> QED BY <1>10, <1>2, <2>1, <2>2 DEF WriteLoaned
<1>11. ASSUME NEW c \in Callers, Notify(c), UNCHANGED <<redVars, plain, written>> PROVE TypeOK'
  <2>1. at' \in [Callers -> Places]
    BY <1>11 DEF Notify
  <2> QED BY <1>11, <2>1 DEF Notify, redVars
<1>12. ASSUME NEW c \in Callers, Spurious(c), UNCHANGED <<redVars, plain, written>> PROVE TypeOK'
  BY <1>12 DEF Spurious, redVars
<1>13. ASSUME NEW c \in Callers, Forward(c) PROVE TypeOK'
  BY <1>13 DEF Forward, Enter
<1>14. ASSUME NEW c \in Callers, CallPlain(c) PROVE TypeOK'
  BY <1>14 DEF CallPlain, Enter
<1>15. ASSUME NEW c \in Callers, Dispatch(c) PROVE TypeOK'
  <2>1. /\ at' \in [Callers -> Places] /\ payload' \in [Callers -> Callers \cup {None}]
        /\ written' \in [Callers -> Callers \cup {None}]
        /\ UNCHANGED <<pool, buf, contents, loans, plain>>
    BY <1>15 DEF Dispatch
  <2>2. CASE FirstAnswer(c)
    BY <2>1, <2>2 DEF FirstAnswer, Return, Count, Answers
  <2>3. CASE Promote(c)
    BY <2>1, <2>3 DEF Promote, Return
  <2>4. CASE Retry(c)
    BY <2>1, <2>4 DEF Retry, Return, Count, Answers
  <2> QED BY <1>15, <2>2, <2>3, <2>4 DEF Dispatch, RedStep
<1> QED BY <1>3, <1>4, <1>5, <1>6, <1>7, <1>8, <1>9, <1>10, <1>11, <1>12, <1>13, <1>14, <1>15, Steps

-----------------------------------------------------------------------------
LEMMA PopConserves ==
    ASSUME TypeOK, BuffersConserved, NEW c \in Callers, buf[c] = None, Pop(c)
    PROVE  BuffersConserved'
<1> DEFINE taken == pool[Len(pool)]
<1>1. /\ taken \in Buffers /\ buf' = [buf EXCEPT ![c] = taken]
      /\ DOMAIN pool = 1 .. Len(pool) /\ DOMAIN pool' = 1 .. Len(pool) - 1
      /\ Len(pool) \in Nat \ {0} /\ \A i \in DOMAIN pool' : pool'[i] = pool[i]
  BY PopType
<1>2. buf \in [Callers -> Buffers \cup {None}] /\ taken # None
  BY <1>1 DEF TypeOK
<1>3. \A d \in Callers : buf[d] # taken
  BY <1>1 DEF BuffersConserved
<1>4. \A i \in DOMAIN pool' : i \in DOMAIN pool /\ pool'[i] # taken
  <2> SUFFICES ASSUME NEW i \in DOMAIN pool' PROVE i \in DOMAIN pool /\ pool'[i] # taken
    OBVIOUS
  <2>1. i \in DOMAIN pool /\ Len(pool) \in DOMAIN pool /\ i # Len(pool)
    BY <1>1
  <2> QED BY <1>1, <2>1 DEF BuffersConserved
<1>5. \A i, j \in DOMAIN pool' : pool'[i] = pool'[j] => i = j
  BY <1>1, <1>4 DEF BuffersConserved
<1>6. \A d, e \in Callers : buf'[d] = buf'[e] /\ buf'[d] # None => d = e
  BY <1>1, <1>2, <1>3 DEF BuffersConserved
<1>7. ASSUME NEW b \in Buffers
      PROVE  (\E i \in DOMAIN pool' : pool'[i] = b) # (\E d \in Callers : buf'[d] = b)
  <2>1. CASE b = taken
    BY <1>1, <1>2, <1>4, <2>1
  <2>2. CASE b # taken
    <3>1. (\E i \in DOMAIN pool' : pool'[i] = b) <=> (\E i \in DOMAIN pool : pool[i] = b)
      <4>1. ASSUME NEW i \in DOMAIN pool, pool[i] = b PROVE i \in DOMAIN pool'
        BY <1>1, <2>2, <4>1
      <4> QED BY <1>1, <1>4, <4>1
    <3>2. (\E d \in Callers : buf'[d] = b) <=> (\E d \in Callers : buf[d] = b)
      BY <1>1, <1>2, <2>2, LoanPoolAssumption
    <3> QED BY <3>1, <3>2 DEF BuffersConserved
  <2> QED BY <2>1, <2>2
<1> QED BY <1>5, <1>6, <1>7 DEF BuffersConserved

LEMMA GiveBackConserves ==
    ASSUME TypeOK, BuffersConserved, NEW c \in Callers, buf[c] \in Buffers, GiveBack(c)
    PROVE  BuffersConserved'
<1> DEFINE given == buf[c]
<1> DEFINE last == Len(pool) + 1
<1>1. /\ last \in Nat /\ DOMAIN pool = 1 .. Len(pool) /\ DOMAIN pool' = 1 .. last
      /\ \A i \in DOMAIN pool : pool'[i] = pool[i] /\ i \in DOMAIN pool' /\ i # last
      /\ pool'[last] = given /\ buf' = [buf EXCEPT ![c] = None] /\ last \in DOMAIN pool'
      /\ \A i \in DOMAIN pool' : i = last \/ i \in DOMAIN pool
  BY GiveBackType
<1>2. buf \in [Callers -> Buffers \cup {None}] /\ given # None
  BY DEF TypeOK
<1>3. \A i \in DOMAIN pool : pool[i] # given
  BY <1>2 DEF BuffersConserved
<1> HIDE DEF given, last
<1>4. \A i, j \in DOMAIN pool' : pool'[i] = pool'[j] => i = j
  BY <1>1, <1>3 DEF BuffersConserved
<1>5. \A d, e \in Callers : buf'[d] = buf'[e] /\ buf'[d] # None => d = e
  BY <1>1, <1>2 DEF BuffersConserved
<1>6. ASSUME NEW b \in Buffers
      PROVE  (\E i \in DOMAIN pool' : pool'[i] = b) # (\E d \in Callers : buf'[d] = b)
  <2>1. CASE b = given
    <3>1. \A d \in Callers : buf'[d] # b
      BY <1>1, <1>2, <2>1 DEF BuffersConserved, given
    <3> QED BY <1>1, <2>1, <3>1
  <2>2. CASE b # given
    <3>1. (\E i \in DOMAIN pool' : pool'[i] = b) <=> (\E i \in DOMAIN pool : pool[i] = b)
      BY <1>1, <2>2
    <3>2. (\E d \in Callers : buf'[d] = b) <=> (\E d \in Callers : buf[d] = b)
      BY <1>1, <1>2, <2>2, LoanPoolAssumption DEF given
    <3> QED BY <3>1, <3>2 DEF BuffersConserved
  <2> QED BY <2>1, <2>2
<1> QED BY <1>4, <1>5, <1>6 DEF BuffersConserved

\* What a step does to the pool: nothing, one buffer out, or one back.
LEMMA PoolEffects ==
    ASSUME Inv, [Next]_vars
    PROVE  \/ UNCHANGED <<pool, buf>>
           \/ \E c \in Callers : /\ Pop(c) /\ at[c] \in {"idle", "acquiring"}
                                 /\ buf[c] = None
           \/ \E c \in Callers : /\ GiveBack(c) /\ at[c] \in {"holding", "filled"}
                                 /\ buf[c] \in Buffers
<1>1. \A c \in Callers : at[c] \in {"idle", "acquiring"} => buf[c] = None
  BY DEF Inv, Holding
<1>2. \A c \in Callers : at[c] \in {"holding", "filled"} => buf[c] \in Buffers
  BY HeldBuffer DEF Inv
<1>3. \A c \in Callers : Acquire(c) \/ TryAcquire(c) =>
          UNCHANGED <<pool, buf>> \/ (Pop(c) /\ at[c] \in {"idle", "acquiring"})
  BY DEF Acquire, TryAcquire
<1>4. \A c \in Callers : ReturnLoan(c) \/ WriteLoaned(c) => GiveBack(c) /\ at[c] \in {"holding", "filled"}
  BY DEF ReturnLoan, WriteLoaned
<1>5. \A c \in Callers : Ask(c) \/ Fill(c) \/ Notify(c) \/ Spurious(c) \/ Forward(c) \/ CallPlain(c) \/ Dispatch(c)
          => UNCHANGED <<pool, buf>>
  BY DEF Ask, Fill, Notify, Spurious, Forward, CallPlain, Dispatch
<1>6. UNCHANGED poolVars \/ UNCHANGED vars => UNCHANGED <<pool, buf>>
  BY DEF poolVars, vars
<1> QED BY <1>1, <1>2, <1>3, <1>4, <1>5, <1>6, Steps

LEMMA ConservedStep ==
    ASSUME Inv, [Next]_vars
    PROVE  BuffersConserved'
<1>1. CASE UNCHANGED <<pool, buf>>
  BY <1>1 DEF Inv, BuffersConserved
<1>2. CASE \E c \in Callers : Pop(c) /\ buf[c] = None
  BY <1>2, PopConserves DEF Inv
<1>3. CASE \E c \in Callers : GiveBack(c) /\ buf[c] \in Buffers
  BY <1>3, GiveBackConserves DEF Inv
<1> QED BY <1>1, <1>2, <1>3, PoolEffects

-----------------------------------------------------------------------------
LEMMA ComingFinite == IsFiniteSet(Coming) /\ Cardinality(Coming) \in Nat
<1>1. IsFiniteSet(Coming)
  BY FS_Subset DEF Coming
<1> QED BY <1>1, FS_CardinalityType

\* Somebody joins those that count, or leaves them, or changes places with
\* a thread that waits.
LEMMA ComingJoins ==
    ASSUME TypeOK, NEW c \in Callers, at[c] \notin {"notifying", "acquiring"},
           NEW p \in {"notifying", "acquiring"}, at' = [at EXCEPT ![c] = p]
    PROVE  Cardinality(Coming') = Cardinality(Coming) + 1
<1>1. c \notin Coming /\ Coming' = Coming \cup {c}
  BY DEF Coming, TypeOK
<1>2. IsFiniteSet(Coming)
  BY ComingFinite
<1>3. Cardinality(Coming \cup {c}) = IF c \in Coming THEN Cardinality(Coming) ELSE Cardinality(Coming) + 1
  BY ONLY <1>2, FS_AddElement
<1> QED BY <1>1, <1>3

LEMMA ComingLeaves ==
    ASSUME TypeOK, NEW c \in Callers, at[c] \in {"notifying", "acquiring"},
           NEW p \in Places \ {"notifying", "acquiring"}, at' = [at EXCEPT ![c] = p]
    PROVE  Cardinality(Coming') = Cardinality(Coming) - 1
<1>1. c \in Coming /\ Coming' = Coming \ {c}
  BY DEF Coming, TypeOK
<1>2. IsFiniteSet(Coming)
  BY ComingFinite
<1>3. Cardinality(Coming \ {c}) = IF c \in Coming THEN Cardinality(Coming) - 1 ELSE Cardinality(Coming)
  BY ONLY <1>2, FS_RemoveElement
<1> QED BY <1>1, <1>3

LEMMA ComingSwaps ==
    ASSUME TypeOK, NEW c \in Callers, at[c] = "notifying", NEW w \in Callers, at[w] = "waiting",
           NEW p \in Places \ {"notifying", "acquiring"},
           at' = [at EXCEPT ![c] = p, ![w] = "acquiring"]
    PROVE  Cardinality(Coming') = Cardinality(Coming)
<1> DEFINE others == Coming \ {c}
<1>1. c \in Coming /\ w \notin others /\ Coming' = others \cup {w}
  BY DEF Coming, TypeOK
<1>2. IsFiniteSet(Coming) /\ Cardinality(Coming) \in Nat
  BY ComingFinite
<1>3. /\ IsFiniteSet(others)
      /\ Cardinality(others) = IF c \in Coming THEN Cardinality(Coming) - 1 ELSE Cardinality(Coming)
  BY ONLY <1>2, FS_RemoveElement
<1> HIDE DEF others
<1>4. Cardinality(others \cup {w}) = IF w \in others THEN Cardinality(others) ELSE Cardinality(others) + 1
  BY ONLY <1>3, FS_AddElement
<1> QED BY <1>1, <1>2, <1>3, <1>4

LEMMA NoLostStep ==
    ASSUME Inv, [Next]_vars
    PROVE  NoLostLoan'
<1> DEFINE Waiting == \E c \in Callers : at[c] = "waiting"
<1>1. /\ TypeOK /\ at \in [Callers -> Places] /\ Len(pool) \in Nat /\ Len(pool') \in Nat
      /\ Waiting => Len(pool) <= Cardinality(Coming)
      /\ Cardinality(Coming) \in Nat
  <2>1. TypeOK'
    BY TypeStep
  <2> QED BY <2>1, ComingFinite DEF Inv, TypeOK, NoLostLoan, Coming
<1>2. SUFFICES Waiting' => Len(pool') <= Cardinality(Coming')
  BY DEF NoLostLoan, Coming
<1>3. CASE UNCHANGED <<at, pool>>
  BY <1>1, <1>3 DEF Coming
<1>4. ASSUME NEW c \in Callers, NEW p \in Places, at' = [at EXCEPT ![c] = p], UNCHANGED pool,
             p # "waiting", p \in {"notifying", "acquiring"} <=> at[c] \in {"notifying", "acquiring"}
      PROVE  Waiting' => Len(pool') <= Cardinality(Coming')
  <2>1. Coming' = Coming /\ (Waiting' => Waiting)
    BY <1>1, <1>4 DEF Coming
  <2> QED BY <1>1, <1>4, <2>1
<1>5. ASSUME NEW c \in Callers, at[c] \notin {"notifying", "acquiring"},
             at' = [at EXCEPT ![c] = "acquiring"], UNCHANGED pool
      PROVE  Waiting' => Len(pool') <= Cardinality(Coming')
  <2>1. Waiting' => Waiting
    BY <1>1, <1>5
  <2>2. Cardinality(Coming') = Cardinality(Coming) + 1
    BY <1>1, <1>5, ComingJoins
  <2> QED BY <1>1, <1>5, <2>1, <2>2
<1>6. ASSUME NEW c \in Callers, Pop(c), at[c] \in {"idle", "acquiring"}
      PROVE  Waiting' => Len(pool') <= Cardinality(Coming')
  <2>1. at' = [at EXCEPT ![c] = "holding"] /\ Len(pool') = Len(pool) - 1
    BY <1>1, <1>6, PopType DEF Pop
  <2>2. Waiting' => Waiting
    BY <1>1, <2>1
  <2>3. CASE at[c] = "idle"
    <3>1. Coming' = Coming
      BY <1>1, <2>1, <2>3 DEF Coming
    <3> QED BY <1>1, <2>1, <2>2, <3>1
  <2>4. CASE at[c] = "acquiring"
    <3>1. "holding" \in Places \ {"notifying", "acquiring"}
      BY DEF Places
    <3>2. Cardinality(Coming') = Cardinality(Coming) - 1
      BY <1>1, <2>1, <2>4, <3>1, ComingLeaves
    <3> QED BY <1>1, <2>1, <2>2, <3>2
  <2> QED BY <1>6, <2>3, <2>4
<1>7. ASSUME NEW c \in Callers, GiveBack(c), at[c] \in {"holding", "filled"}
      PROVE  Waiting' => Len(pool') <= Cardinality(Coming')
  <2>1. at' = [at EXCEPT ![c] = "notifying"] /\ Len(pool') = Len(pool) + 1
    BY <1>1, <1>7, HeldBuffer, GiveBackType DEF GiveBack, Inv
  <2>2. Waiting' => Waiting
    BY <1>1, <2>1
  <2>3. Cardinality(Coming') = Cardinality(Coming) + 1
    BY <1>1, <1>7, <2>1, ComingJoins
  <2> QED BY <1>1, <2>1, <2>2, <2>3
<1>8. ASSUME NEW c \in Callers, Acquire(c), ~Pop(c)
      PROVE  Waiting' => Len(pool') <= Cardinality(Coming')
  <2>1. Len(pool') = 0
    BY <1>8 DEF Acquire
  <2>2. Cardinality(Coming') \in Nat
    <3>1. IsFiniteSet(Coming')
      BY FS_Subset DEF Coming
    <3> QED BY <3>1, FS_CardinalityType
  <2> QED BY <2>1, <2>2
<1>9. ASSUME NEW c \in Callers, Notify(c)
      PROVE  Waiting' => Len(pool') <= Cardinality(Coming')
  <2>1. PICK p \in {"idle", "writing"} :
             \/ ~Waiting /\ at' = [at EXCEPT ![c] = p]
             \/ \E w \in Callers : at[w] = "waiting" /\ at' = [at EXCEPT ![c] = p, ![w] = "acquiring"]
    BY <1>9 DEF Notify
  <2>2. p \in Places \ {"notifying", "acquiring"} /\ p # "waiting" /\ at[c] = "notifying" /\ UNCHANGED pool
    BY <1>9 DEF Notify, Places
  <2>3. CASE ~Waiting /\ at' = [at EXCEPT ![c] = p]
    BY <1>1, <2>2, <2>3
  <2>4. ASSUME NEW w \in Callers, at[w] = "waiting", at' = [at EXCEPT ![c] = p, ![w] = "acquiring"]
        PROVE  Len(pool') <= Cardinality(Coming')
    BY <1>1, <2>2, <2>4, ComingSwaps
  <2> QED BY <2>1, <2>3, <2>4
<1>10. ASSUME NEW c \in Callers, Ask(c)
       PROVE  Waiting' => Len(pool') <= Cardinality(Coming')
  <2>1. PICK size \in Sizes : at' = [at EXCEPT ![c] = IF size > BufferSize THEN "idle" ELSE "acquiring"]
    BY <1>10 DEF Ask
  <2>2. at[c] = "idle" /\ UNCHANGED pool
    BY <1>10 DEF Ask
  <2>3. CASE size > BufferSize
    <3>1. UNCHANGED at
      BY <1>1, <2>1, <2>2, <2>3
    <3> QED BY <1>3, <2>2, <3>1
  <2>4. CASE ~(size > BufferSize)
    BY <1>5, <2>1, <2>2, <2>4
  <2> QED BY <2>3, <2>4
<1>11. ASSUME NEW c \in Callers, Spurious(c) PROVE Waiting' => Len(pool') <= Cardinality(Coming')
  BY <1>5, <1>11 DEF Spurious
<1>12. ASSUME NEW c \in Callers, Fill(c) \/ Forward(c) \/ CallPlain(c) \/ Dispatch(c)
       PROVE  Waiting' => Len(pool') <= Cardinality(Coming')
  <2>1. \E p \in {"filled", "calling", "idle"} : at' = [at EXCEPT ![c] = p]
    <3>1. Fill(c) \/ Forward(c) \/ CallPlain(c) =>
              \/ at' = [at EXCEPT ![c] = "filled"] \/ at' = [at EXCEPT ![c] = "calling"]
      BY DEF Fill, Forward, CallPlain
    <3>2. Dispatch(c) => \/ at' = [at EXCEPT ![c] = "idle"] \/ at' = [at EXCEPT ![c] = "calling"]
      BY DEF Dispatch
    <3> QED BY <1>12, <3>1, <3>2
  <2>2. at[c] \in {"holding", "writing", "idle", "calling"} /\ UNCHANGED pool
    BY <1>12 DEF Fill, Forward, CallPlain, Dispatch
  <2>3. PICK p \in {"filled", "calling", "idle"} : at' = [at EXCEPT ![c] = p]
    BY <2>1
  <2>4. p \in Places
    BY DEF Places
  <2> QED BY <1>4, <2>2, <2>3, <2>4
<1>13. ASSUME NEW c \in Callers, ReturnLoan(c) \/ WriteLoaned(c)
       PROVE  Waiting' => Len(pool') <= Cardinality(Coming')
  BY <1>7, <1>13 DEF ReturnLoan, WriteLoaned
<1>14. ASSUME NEW c \in Callers, TryAcquire(c) PROVE Waiting' => Len(pool') <= Cardinality(Coming')
  BY <1>6, <1>14 DEF TryAcquire
<1>15. ASSUME NEW c \in Callers, Acquire(c) PROVE Waiting' => Len(pool') <= Cardinality(Coming')
  BY <1>6, <1>8, <1>15 DEF Acquire
<1>16. UNCHANGED poolVars \/ UNCHANGED vars => UNCHANGED <<at, pool>>
  BY DEF poolVars, vars
<1> QED BY <1>3, <1>9, <1>10, <1>11, <1>12, <1>13, <1>14, <1>15, <1>16, Steps

-----------------------------------------------------------------------------
LEMMA HoldingStep ==
    ASSUME Inv, [Next]_vars
    PROVE  Holding'
<1>1. /\ TypeOK /\ BuffersConserved /\ Holding
      /\ at \in [Callers -> Places] /\ buf \in [Callers -> Buffers \cup {None}]
      /\ contents \in [Buffers -> Callers \cup {None}]
  BY DEF Inv, TypeOK
<1>2. CASE UNCHANGED <<at, buf, contents>>
  BY <1>1, <1>2 DEF Holding
<1>3. ASSUME NEW c \in Callers, NEW p \in Places \ {"holding", "filled"},
             at[c] \notin {"holding", "filled"}, at' = [at EXCEPT ![c] = p], UNCHANGED <<buf, contents>>
      PROVE  Holding'
  BY <1>1, <1>3 DEF Holding
<1>4. ASSUME NEW c \in Callers, Pop(c), UNCHANGED contents
      PROVE  Holding'
  <2>1. buf' = [buf EXCEPT ![c] = pool[Len(pool)]] /\ pool[Len(pool)] \in Buffers
    BY <1>1, <1>4, PopType
  <2>2. at' = [at EXCEPT ![c] = "holding"]
    BY <1>4 DEF Pop
  <2> QED BY <1>1, <1>4, <2>1, <2>2, LoanPoolAssumption DEF Holding
<1>5. ASSUME NEW c \in Callers, GiveBack(c), UNCHANGED contents
      PROVE  Holding'
  BY <1>1, <1>5 DEF Holding, GiveBack
<1>6. ASSUME NEW c \in Callers, Fill(c)
      PROVE  Holding'
  <2>1. /\ at[c] = "holding" /\ buf[c] \in Buffers /\ buf' = buf
        /\ contents' = [contents EXCEPT ![buf[c]] = c] /\ at' = [at EXCEPT ![c] = "filled"]
    BY <1>1, <1>6, HeldBuffer DEF Fill
  <2>2. \A d \in Callers \ {c} : buf[d] # buf[c]
    BY <1>1, <2>1 DEF BuffersConserved, Holding
  <2>3. contents'[buf[c]] = c /\ \A d \in Callers \ {c} : contents'[buf[d]] = contents[buf[d]] \/ buf[d] = None
    BY <1>1, <2>1, <2>2
  <2> QED BY <1>1, <2>1, <2>2, <2>3 DEF Holding
<1>7. ASSUME NEW c \in Callers, Notify(c)
      PROVE  Holding'
  <2>1. at[c] = "notifying" /\ UNCHANGED <<buf, contents>>
    BY <1>7 DEF Notify
  <2>2. PICK p \in {"idle", "writing"} :
             \/ at' = [at EXCEPT ![c] = p]
             \/ \E w \in Callers : at[w] = "waiting" /\ at' = [at EXCEPT ![c] = p, ![w] = "acquiring"]
    BY <1>7 DEF Notify
  <2>3. \A d \in Callers : at'[d] # at[d] => /\ at[d] \notin {"holding", "filled"}
                                             /\ at'[d] \notin {"holding", "filled"}
    BY <1>1, <2>1, <2>2
  <2> QED BY <2>1, <2>3, <1>1 DEF Holding
<1>8. ASSUME NEW c \in Callers, Ask(c) \/ Spurious(c) \/ (Acquire(c) /\ ~Pop(c))
      PROVE  Holding'
  <2>1. UNCHANGED <<buf, contents>> /\ at[c] \notin {"holding", "filled"}
    BY <1>8 DEF Ask, Spurious, Acquire
  <2>2. PICK p \in {"idle", "acquiring", "waiting"} : at' = [at EXCEPT ![c] = p]
    BY <1>8 DEF Ask, Spurious, Acquire
  <2>3. p \in Places \ {"holding", "filled"}
    BY DEF Places
  <2> QED BY <1>3, <2>1, <2>2, <2>3
<1>9. ASSUME NEW c \in Callers, Forward(c) \/ CallPlain(c) \/ Dispatch(c)
      PROVE  Holding'
  <2>1. UNCHANGED <<buf, contents>> /\ at[c] \notin {"holding", "filled"}
    BY <1>9 DEF Forward, CallPlain, Dispatch
  <2>2. at' = [at EXCEPT ![c] = "idle"] \/ at' = [at EXCEPT ![c] = "calling"]
    <3>1. Dispatch(c) => at' = [at EXCEPT ![c] = "idle"] \/ at' = [at EXCEPT ![c] = "calling"]
      BY DEF Dispatch
    <3> QED BY <1>9, <3>1 DEF Forward, CallPlain
  <2>3. {"idle", "calling"} \subseteq Places \ {"holding", "filled"}
    BY DEF Places
  <2> QED BY <1>3, <2>1, <2>2, <2>3
<1>10. ASSUME NEW c \in Callers, Acquire(c) \/ TryAcquire(c) PROVE Holding'
  BY <1>4, <1>8, <1>10 DEF Acquire, TryAcquire, Pop
<1>11. ASSUME NEW c \in Callers, ReturnLoan(c) \/ WriteLoaned(c) PROVE Holding'
  BY <1>5, <1>11 DEF ReturnLoan, WriteLoaned
<1>12. UNCHANGED poolVars \/ UNCHANGED vars => UNCHANGED <<at, buf, contents>>
  BY DEF poolVars, vars
<1> QED BY <1>2, <1>6, <1>7, <1>8, <1>9, <1>10, <1>11, <1>12, Steps

LEMMA OwnBytesStep ==
    ASSUME Inv, [Next]_vars
    PROVE  OwnBytes'
<1> USE DEF Inv, OwnBytes
<1>1. payload \in [Callers -> Callers \cup {None}] /\ written \in [Callers -> Callers \cup {None}]
  BY DEF TypeOK
<1>2. CASE UNCHANGED <<payload, written>>
  BY <1>2
<1>3. ASSUME NEW c \in Callers, WriteLoaned(c), UNCHANGED written PROVE OwnBytes'
  <2>1. payload' = [payload EXCEPT ![c] = c]
    BY <1>3 DEF WriteLoaned, Holding
  <2> QED BY <1>1, <1>3, <2>1
<1>4. ASSUME NEW c \in Callers, Forward(c) PROVE OwnBytes'
  BY <1>1, <1>4 DEF Forward
<1>5. ASSUME NEW c \in Callers, Dispatch(c) PROVE OwnBytes'
  <2>1. /\ \A d \in Callers : payload'[d] \in {payload[d], None}
        /\ \A d \in Callers : written'[d] \in {written[d], None}
    BY <1>1, <1>5 DEF Dispatch
  <2> QED BY <2>1
<1>6. ASSUME NEW c \in Callers, UNCHANGED written,
             Ask(c) \/ TryAcquire(c) \/ Acquire(c) \/ Fill(c) \/ ReturnLoan(c) \/ Notify(c) \/ Spurious(c)
      PROVE  UNCHANGED <<payload, written>>
  BY <1>6 DEF Ask, TryAcquire, Acquire, Pop, Fill, ReturnLoan, GiveBack, Notify, Spurious
<1>7. ASSUME NEW c \in Callers, CallPlain(c) PROVE UNCHANGED <<payload, written>>
  BY <1>7 DEF CallPlain
<1>8. UNCHANGED <<poolVars, written>> \/ UNCHANGED vars => UNCHANGED <<payload, written>>
  BY DEF poolVars, vars
<1> QED BY <1>2, <1>3, <1>4, <1>5, <1>6, <1>7, <1>8, Steps

-----------------------------------------------------------------------------
\* What a step does to the redundant pair, and who does it.
LEMMA RedEffects ==
    ASSUME [Next]_vars
    PROVE  \/ UNCHANGED redVars
           \/ Replug
           \/ \E c \in Clients : Enter(c) \/ FirstAnswer(c) \/ Promote(c) \/ Retry(c)
<1>1. \A c \in Callers : Forward(c) \/ CallPlain(c) => Enter(c)
  BY DEF Forward, CallPlain
<1>2. \A c \in Callers : Dispatch(c) => FirstAnswer(c) \/ Promote(c) \/ Retry(c)
  BY DEF Dispatch, RedStep
<1>3. UNCHANGED vars => UNCHANGED redVars
  BY DEF vars
<1> QED BY <1>1, <1>2, <1>3, Steps, EndpointsAssumption

LEMMA FailoverStep ==
    ASSUME Inv, [Next]_vars
    PROVE  /\ Failover'
           /\ \/ UNCHANGED <<primary, secondary, failovers>>
              \/ failovers = 0 /\ failovers' = 1 /\ secondary' = "none" /\ primary' = "standby"
<1> USE EndpointsAssumption DEF Inv, Failover
<1>1. /\ stage \in [Clients -> {"idle", "primary", "failed", "retrying"}]
      /\ tried \in [Clients -> Members \cup {"none"}]
  BY DEF TypeOK
<1>2. CASE UNCHANGED redVars
  BY <1>2 DEF redVars
<1>3. CASE Replug
  BY <1>3 DEF Replug
<1>4. ASSUME NEW c \in Clients, Enter(c)
      PROVE  Failover' /\ UNCHANGED <<primary, secondary, failovers>>
  BY <1>1, <1>4 DEF Enter
<1>5. ASSUME NEW c \in Clients, FirstAnswer(c)
      PROVE  Failover' /\ UNCHANGED <<primary, secondary, failovers>>
  BY <1>1, <1>5 DEF FirstAnswer, Return
<1>6. ASSUME NEW c \in Clients, Retry(c)
      PROVE  Failover' /\ UNCHANGED <<primary, secondary, failovers>>
  BY <1>1, <1>6 DEF Retry, Return
<1>7. ASSUME NEW c \in Clients, Promote(c), secondary = "none"
      PROVE  Failover' /\ UNCHANGED <<primary, secondary, failovers>>
  BY <1>1, <1>7 DEF Promote, Return
<1>8. ASSUME NEW c \in Clients, Promote(c), secondary # "none"
      PROVE  Failover' /\ failovers = 0 /\ failovers' = 1 /\ secondary' = "none" /\ primary' = "standby"
  BY <1>1, <1>8 DEF Promote
<1> QED BY <1>2, <1>3, <1>4, <1>5, <1>6, <1>7, <1>8, RedEffects

(* What one step returns to a caller: an error comes from the standby, or   *)
(* to a call that found the standby taken.                                  *)
LEMMA ErrorStep ==
    ASSUME Inv, [Next]_vars, NEW c \in Clients,
           stage[c] # "idle", stage'[c] = "idle", returned' = "Err"
    PROVE  tried[c] = "standby" \/ failovers = 1
<1> USE EndpointsAssumption DEF Inv, Failover
<1>1. stage \in [Clients -> {"idle", "primary", "failed", "retrying"}]
  BY DEF TypeOK
<1>2. ~UNCHANGED redVars /\ ~Replug
  BY DEF redVars, Replug
<1>3. PICK d \in Clients : Enter(d) \/ FirstAnswer(d) \/ Promote(d) \/ Retry(d)
  BY <1>2, RedEffects
<1>4. ~Enter(d)
  BY <1>1 DEF Enter
<1>5. \A e \in Clients : e # d => stage'[e] = stage[e]
  BY <1>1, <1>3, <1>4 DEF FirstAnswer, Promote, Retry, Return
<1>6. d = c
  BY <1>5
<1>7. ~FirstAnswer(c)
  BY <1>1 DEF FirstAnswer, Return
<1>8. CASE Promote(c)
  BY <1>1, <1>8 DEF Promote
<1>9. CASE Retry(c)
  BY <1>9 DEF Retry
<1> QED BY <1>3, <1>4, <1>6, <1>7, <1>8, <1>9

-----------------------------------------------------------------------------
(* Inv holds of every state the decorators reach, whatever the numbers of   *)
(* callers, buffers, loans and device errors.                               *)
THEOREM Invariant == Spec => []Inv
<1>1. Inv /\ [Next]_vars => Inv'
  BY TypeStep, ConservedStep, NoLostStep, HoldingStep, OwnBytesStep, FailoverStep DEF Inv
<1> QED BY InitInv, <1>1, PTL DEF Spec

(* Every variable keeps its type (loan.rs, redundancy.rs, proxy.rs).        *)
THEOREM TypeCorrect == Spec => []TypeOK
<1>1. Inv => TypeOK
  BY DEF Inv
<1> QED BY <1>1, Invariant, PTL

(* No buffer is lost, lent twice or given back twice (loan.rs, and Loan of  *)
(* lib.rs).                                                                 *)
THEOREM BuffersAlwaysConserved == Spec => []BuffersConserved
<1>1. Inv => BuffersConserved
  BY DEF Inv
<1> QED BY <1>1, Invariant, PTL

(* The push, the notify_one after it and the wait loop of acquire never     *)
(* leave a thread asleep over a buffer nobody is coming for.                *)
THEOREM NoLoanIsLost == Spec => []NoLostLoan
<1>1. Inv => NoLostLoan
  BY DEF Inv
<1> QED BY <1>1, Invariant, PTL

(* What write_loaned sends is its own caller's, though the buffer is lent   *)
(* to somebody else by then.                                                *)
THEOREM BytesAreTheCallers == Spec => []OwnBytesWritten
<1>1. Inv => OwnBytesWritten
  BY DEF Inv, OwnBytes, OwnBytesWritten
<1> QED BY <1>1, Invariant, PTL

(* dispatch promotes the standby at most once and for good.                 *)
THEOREM StandbyPromotedOnce == Spec => PromotedOnce
<1> DEFINE A == /\ failovers' \in {failovers, failovers + 1} /\ failovers' <= 1
                /\ (failovers' = 1) <=> (secondary' = "none")
                /\ (failovers' = 1) <=> (primary' = "standby")
<1>1. Inv /\ [Next]_vars => [A]_<<primary, secondary, failovers>>
  <2> SUFFICES ASSUME Inv, [Next]_vars, ~UNCHANGED <<primary, secondary, failovers>>
               PROVE  A
    OBVIOUS
  <2>1. failovers = 0 /\ failovers' = 1 /\ secondary' = "none" /\ primary' = "standby"
    BY FailoverStep
  <2> QED BY <2>1
<1> HIDE DEF A
<1>2. Spec => [][A]_<<primary, secondary, failovers>>
  BY <1>1, Invariant, PTL DEF Spec
<1> QED BY <1>2 DEF PromotedOnce, A

(* The one way an error of the old primary reaches a caller unretried: the  *)
(* standby was already taken by another call.                               *)
THEOREM ErrorsHadNoStandby == Spec => ErrorHadNoStandby
<1> DEFINE A == \A c \in Clients :
                   stage[c] # "idle" /\ stage'[c] = "idle" /\ returned' = "Err" =>
                       tried[c] = "standby" \/ failovers = 1
<1>1. Inv /\ [Next]_vars => [A]_redVars
  BY ErrorStep
<1> HIDE DEF A
<1>2. Spec => [][A]_redVars
  BY <1>1, Invariant, PTL DEF Spec
<1> QED BY <1>2 DEF ErrorHadNoStandby, A

-----------------------------------------------------------------------------
(* What REQ-RED-004 takes for granted: that calls come one at a time.  A    *)
(* call is then on the primary of the moment until it fails over itself.    *)
OneAtATime == \A c, d \in Clients : stage[c] # "idle" /\ stage[d] # "idle" => c = d

OnPrimary == \A c \in Clients : stage[c] \in {"primary", "failed"} => tried[c] = primary

LEMMA OnPrimaryStep ==
    ASSUME Inv, OneAtATime, OnPrimary, [Next]_vars
    PROVE  OnPrimary'
<1> USE DEF OnPrimary
<1>1. /\ stage \in [Clients -> {"idle", "primary", "failed", "retrying"}]
      /\ tried \in [Clients -> Members \cup {"none"}]
  BY EndpointsAssumption DEF Inv, TypeOK
<1>2. CASE UNCHANGED redVars
  BY <1>2 DEF redVars
<1>3. CASE Replug
  BY <1>3 DEF Replug
<1>4. ASSUME NEW c \in Clients, Enter(c) PROVE OnPrimary'
  BY <1>1, <1>4 DEF Enter
<1>5. ASSUME NEW c \in Clients, FirstAnswer(c) PROVE OnPrimary'
  BY <1>1, <1>5 DEF FirstAnswer, Return
<1>6. ASSUME NEW c \in Clients, Retry(c) PROVE OnPrimary'
  BY <1>1, <1>6 DEF Retry, Return
<1>7. ASSUME NEW c \in Clients, Promote(c) PROVE OnPrimary'
  <2>1. /\ stage[c] = "failed"
        /\ stage' = [stage EXCEPT ![c] = "idle"] \/ stage' = [stage EXCEPT ![c] = "retrying"]
    BY <1>7 DEF Promote, Return
  <2>2. \A d \in Clients : d # c => stage[d] = "idle"
    BY <2>1 DEF OneAtATime
  <2>3. \A d \in Clients : stage'[d] \notin {"primary", "failed"}
    BY <1>1, <2>1, <2>2
  <2> QED BY <2>3
<1> QED BY <1>2, <1>3, <1>4, <1>5, <1>6, <1>7, RedEffects

LEMMA StandbyFailedStep ==
    ASSUME Inv, OnPrimary, [Next]_vars, NEW c \in Clients,
           stage[c] # "idle", stage'[c] = "idle", returned' = "Err"
    PROVE  tried[c] = "standby"
<1> USE EndpointsAssumption DEF Inv, Failover
<1>1. /\ stage \in [Clients -> {"idle", "primary", "failed", "retrying"}]
      /\ tried \in [Clients -> Members \cup {"none"}]
  BY DEF TypeOK
<1>2. ~UNCHANGED redVars /\ ~Replug
  BY DEF redVars, Replug
<1>3. PICK d \in Clients : Enter(d) \/ FirstAnswer(d) \/ Promote(d) \/ Retry(d)
  BY <1>2, RedEffects
<1>4. ~Enter(d)
  BY <1>1 DEF Enter
<1>5. d = c
  BY <1>1, <1>3, <1>4 DEF FirstAnswer, Promote, Retry, Return
<1>6. ~FirstAnswer(c)
  BY <1>1 DEF FirstAnswer, Return
<1>7. CASE Promote(c)
  <2>1. stage[c] = "failed" /\ secondary = "none"
    BY <1>1, <1>7 DEF Promote
  <2> QED BY <2>1 DEF OnPrimary
<1>8. CASE Retry(c)
  BY <1>8 DEF Retry
<1> QED BY <1>3, <1>4, <1>5, <1>6, <1>7, <1>8

(* What the requirement says of dispatch holds of calls that do not         *)
(* overlap, whatever the proxy and the devices do: the counterexample of    *)
(* two calls is the only kind there is.                                     *)
THEOREM ErrorsMeanBothFailedOneByOne == Spec /\ []OneAtATime => ErrorMeansBothFailed
<1> DEFINE A == \A c \in Clients :
                   stage[c] # "idle" /\ stage'[c] = "idle" /\ returned' = "Err" =>
                       tried[c] = "standby"
<1>1. Inv /\ OnPrimary /\ [Next]_vars => [A]_redVars
  BY StandbyFailedStep
<1>2. Inv /\ OneAtATime /\ OnPrimary /\ [Next]_vars => OnPrimary'
  BY OnPrimaryStep
<1>3. Init => OnPrimary
  BY EndpointsAssumption DEF Init, RedInit, OnPrimary
<1> HIDE DEF A
<1>4. Spec /\ []OneAtATime => [][A]_redVars
  BY <1>1, <1>2, <1>3, Invariant, PTL DEF Spec
<1> QED BY <1>4 DEF ErrorMeansBothFailed, A
=============================================================================
