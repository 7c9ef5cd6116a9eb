--------------------------- MODULE ExchangeProofs ---------------------------
(***************************************************************************)
(* Theorems of Exchange: for any number of callers and requests, and any   *)
(* number of faults of the medium.                                         *)
(***************************************************************************)
EXTENDS Exchange, FiniteSetTheorems, SequenceTheorems, TLAPS

\* While nothing has gone wrong at most one call is in progress, and its
\* request, or the answer to it, is the only thing on the wires.
AloneOnWires ==
    mishaps = {} =>
      /\ \A c, d \in Callers : pc[c] # "idle" /\ pc[d] # "idle" => c = d
      /\ \A c \in Callers : pc[c] # "idle" =>
           /\ call[c] # Foreign
           /\ \/ requests = <<call[c]>> /\ frames = <<>>
              \/ requests = <<>> /\ frames = <<call[c]>>
      /\ (\A c \in Callers : pc[c] = "idle") => requests = <<>> /\ frames = <<>>

\* A call in progress has sent its request and returned nothing yet.
InProgress == \A c \in Callers : pc[c] # "idle" => call[c] \in Messages /\ result[c] = "none"

Inv == TypeOK /\ InProgress /\ NoLostWakeup /\ AloneOnWires /\ OwnAnswerUndisturbed

Waiting == \E c \in Callers : pc[c] = "waiting"
Locking == {c \in Callers : pc[c] = "locking"}

USE ExchangeAssumption

LEMMA InitInv == Init => Inv
<1> SUFFICES ASSUME Init PROVE Inv OBVIOUS
<1> USE DEF Init
<1>1. TypeOK
  BY DEF TypeOK, Outcomes
<1>2. InProgress /\ NoLostWakeup /\ AloneOnWires /\ OwnAnswerUndisturbed
  BY DEF InProgress, NoLostWakeup, AloneOnWires, OwnAnswerUndisturbed
<1> QED BY <1>1, <1>2 DEF Inv

(* An accepted frame answers a request like the one the caller sent         *)
(* (verify_echo_back of acf.rs, and the decoding before it).                *)
LEMMA JudgeSound ==
    ASSUME NEW request \in Messages, NEW frame \in Messages \cup {Foreign}
    PROVE  /\ Judge(request, frame) \in Outcomes \ {"none", "Timeout"}
           /\ Judge(request, frame) = "Ok" => frame \in Messages /\ frame.header = request.header
           /\ Judge(request, request) = "Ok"
<1>1. \A h \in Headers : h = [bus |-> h.bus, format |-> h.format]
  OBVIOUS
<1>2. request.header \in Headers /\ request # Foreign
  BY DEF Messages
<1>3. CASE frame = Foreign
  BY <1>2, <1>3 DEF Judge, verify_echo_back, Outcomes
<1>4. CASE frame \in Messages
  <2>1. frame.header \in Headers /\ frame # Foreign
    BY <1>4 DEF Messages
  <2> QED BY <1>1, <1>2, <1>4, <2>1 DEF Judge, verify_echo_back, Outcomes
<1> QED BY <1>3, <1>4

\* The frame at the head of the queue, and what is left behind it.
LEMMA HeadFrame ==
    ASSUME TypeOK, frames # <<>>
    PROVE  /\ Head(frames) \in Messages \cup {Foreign} /\ Tail(frames) \in Seq(Messages \cup {Foreign})
           /\ Len(frames) \in Nat \ {0} /\ Len(Tail(frames)) = Len(frames) - 1
BY DEF TypeOK

LEMMA EditedFrames ==
    ASSUME TypeOK, NEW i \in DOMAIN frames
    PROVE  /\ Without(frames, i) \in Seq(Messages \cup {Foreign}) /\ Len(Without(frames, i)) = Len(frames) - 1
           /\ Twice(frames, i) \in Seq(Messages \cup {Foreign}) /\ Len(Twice(frames, i)) = Len(frames) + 1
           /\ i + 1 \in DOMAIN frames =>
                /\ Swapped(frames, i) \in Seq(Messages \cup {Foreign})
                /\ Len(Swapped(frames, i)) = Len(frames)
<1> DEFINE S == Messages \cup {Foreign}
<1> DEFINE n == Len(frames)
<1>1. frames \in Seq(S) /\ n \in Nat /\ DOMAIN frames = 1 .. n /\ i \in 1 .. n
  BY DEF TypeOK
<1>2. \A j \in 1 .. n : frames[j] \in S
  BY <1>1
<1> HIDE DEF S
<1>3. /\ \A j \in 1 .. i - 1 : frames[j] \in S
      /\ \A j \in 1 .. i : frames[j] \in S
      /\ \A j \in i .. n : frames[j] \in S
      /\ \A j \in i + 1 .. n : frames[j] \in S
      /\ i \in Int /\ i - 1 \in Int /\ i + 1 \in Int /\ n \in Int
  BY <1>1, <1>2
<1> HIDE DEF n
<1>4. /\ SubSeq(frames, 1, i - 1) \in Seq(S)
      /\ Len(SubSeq(frames, 1, i - 1)) = IF 1 <= i - 1 THEN (i - 1) - 1 + 1 ELSE 0
  BY ONLY <1>3, SubSeqProperties
<1>5. /\ SubSeq(frames, 1, i) \in Seq(S)
      /\ Len(SubSeq(frames, 1, i)) = IF 1 <= i THEN i - 1 + 1 ELSE 0
  BY ONLY <1>3, SubSeqProperties
<1>6. /\ SubSeq(frames, i, n) \in Seq(S)
      /\ Len(SubSeq(frames, i, n)) = IF i <= n THEN n - i + 1 ELSE 0
  BY ONLY <1>3, SubSeqProperties
<1>7. /\ SubSeq(frames, i + 1, n) \in Seq(S)
      /\ Len(SubSeq(frames, i + 1, n)) = IF i + 1 <= n THEN n - (i + 1) + 1 ELSE 0
  BY ONLY <1>3, SubSeqProperties
<1>8. /\ Without(frames, i) \in Seq(S)
      /\ Len(Without(frames, i)) = Len(SubSeq(frames, 1, i - 1)) + Len(SubSeq(frames, i + 1, n))
  BY ONLY <1>4, <1>7, ConcatProperties DEF Without, n
<1>9. /\ Twice(frames, i) \in Seq(S)
      /\ Len(Twice(frames, i)) = Len(SubSeq(frames, 1, i)) + Len(SubSeq(frames, i, n))
  BY ONLY <1>5, <1>6, ConcatProperties DEF Twice, n
<1>10. i + 1 \in DOMAIN frames =>
          Swapped(frames, i) \in Seq(S) /\ Len(Swapped(frames, i)) = n
  BY <1>1, <1>2 DEF Swapped, n
<1> QED BY <1>1, <1>4, <1>5, <1>6, <1>7, <1>8, <1>9, <1>10 DEF S, n

-----------------------------------------------------------------------------
\* What Take does, by the verdict.
LEMMA TakeEffect ==
    ASSUME Inv, NEW c \in Callers, Take(c)
    PROVE  \E verdict \in Outcomes \ {"none", "Timeout"} :
             /\ verdict = Judge(call[c], Head(frames))
             /\ result' = [result EXCEPT ![c] = verdict]
             /\ answer' = [answer EXCEPT ![c] = IF verdict = "Ok" THEN Head(frames) ELSE Foreign]
             /\ verdict = "Ok" => /\ Head(frames) \in Messages
                                  /\ Head(frames).header = call[c].header
<1>1. pc[c] = "locking" /\ frames # <<>> /\ call[c] \in Messages
  BY DEF Take, Inv, InProgress
<1>2. Head(frames) \in Messages \cup {Foreign}
  BY <1>1, HeadFrame DEF Inv
<1> DEFINE verdict == Judge(call[c], Head(frames))
<1>3. /\ verdict \in Outcomes \ {"none", "Timeout"}
      /\ verdict = "Ok" => Head(frames) \in Messages /\ Head(frames).header = call[c].header
  BY <1>1, <1>2, JudgeSound
<1>4. /\ result' = [result EXCEPT ![c] = verdict]
      /\ answer' = [answer EXCEPT ![c] = IF verdict = "Ok" THEN Head(frames) ELSE Foreign]
  BY DEF Take
<1> HIDE DEF verdict
<1> QED BY <1>3, <1>4 DEF verdict

LEMMA TypeStep ==
    ASSUME Inv, [Next]_vars
    PROVE  TypeOK' /\ InProgress'
<1> USE DEF InProgress
<1>1. /\ TypeOK /\ InProgress /\ \A c \in Callers : answer[c] \in Messages \cup {Foreign}
      /\ \A c \in Callers : result[c] = "Ok" => answer[c] # Foreign /\ answer[c].header = call[c].header
  BY DEF Inv, TypeOK
<1>2. CASE UNCHANGED vars
  BY <1>1, <1>2 DEF TypeOK, vars
<1>3. ASSUME NEW c \in Callers, NEW error \in {"Timeout", "Other"}, Decline(c, error)
      PROVE  TypeOK' /\ InProgress'
  BY <1>1, <1>3 DEF Decline, wires, TypeOK, Outcomes
<1>4. ASSUME NEW c \in Callers, Take(c) PROVE TypeOK' /\ InProgress'
  <2>1. PICK verdict \in Outcomes \ {"none", "Timeout"} :
             /\ result' = [result EXCEPT ![c] = verdict]
             /\ answer' = [answer EXCEPT ![c] = IF verdict = "Ok" THEN Head(frames) ELSE Foreign]
             /\ verdict = "Ok" => /\ Head(frames) \in Messages
                                  /\ Head(frames).header = call[c].header
    BY <1>4, TakeEffect
  <2>2. /\ frames' \in Seq(Messages \cup {Foreign})
        /\ pc' = [pc EXCEPT ![c] = "idle"] /\ expired' = expired \ {c}
        /\ UNCHANGED <<requests, notices, call, calls, faults, mishaps, owed>>
    BY <1>1, <1>4, HeadFrame DEF Take, Leave
  <2>3. lag' \in Int
    <3>1. CASE Judge(call[c], Head(frames)) = "Ok"
      <4>1. pc[c] = "locking" /\ call[c] \in Messages /\ frames # <<>>
        BY <1>4 DEF Take, Inv
      <4>2. Head(frames) \in Messages
        BY <1>1, <3>1, <4>1, HeadFrame, JudgeSound
      <4>3. call[c].num \in Int /\ Head(frames).num \in Int
        BY <4>1, <4>2 DEF Messages
      <4>4. lag' = call[c].num - Head(frames).num
        BY <1>4, <3>1 DEF Take
      <4> QED BY <4>3, <4>4
    <3>2. CASE Judge(call[c], Head(frames)) # "Ok"
      <4>1. lag' = lag
        BY <1>4, <3>2 DEF Take
      <4> QED BY <1>1, <4>1 DEF TypeOK
    <3> QED BY <3>1, <3>2
  <2>4. /\ result' \in [Callers -> Outcomes] /\ answer' \in [Callers -> Messages \cup {Foreign}]
        /\ pc' \in [Callers -> {"idle", "locking", "waiting"}] /\ expired' \subseteq Callers \ Patient
    BY <1>1, <2>1, <2>2 DEF TypeOK
  <2>5. \A d \in Callers : result'[d] = "Ok" => answer'[d] # Foreign /\ answer'[d].header = call[d].header
    BY <1>1, <2>1 DEF TypeOK
  <2>6. InProgress'
    BY <1>1, <2>1, <2>2 DEF TypeOK
  <2> QED BY <1>1, <2>2, <2>3, <2>4, <2>5, <2>6 DEF TypeOK
<1>5. ASSUME NEW c \in Callers, Wait(c) PROVE TypeOK' /\ InProgress'
  BY <1>1, <1>5 DEF Wait, wires, TypeOK
<1>6. ASSUME NEW c \in Callers, GiveUp(c) PROVE TypeOK' /\ InProgress'
  BY <1>1, <1>6 DEF GiveUp, Leave, wires, TypeOK, Outcomes, Mishaps
<1>12. ASSUME NEW c \in Callers, ReceiveFails(c) PROVE TypeOK' /\ InProgress'
  <2>1. faults' \in 0 .. MaxFaults
    BY <1>1, <1>12 DEF ReceiveFails, TypeOK
  <2> QED BY <1>1, <1>12, <2>1 DEF ReceiveFails, Leave, wires, TypeOK, Outcomes, Mishaps
<1>7. ASSUME NEW c \in Callers, TimeUp(c) PROVE TypeOK' /\ InProgress'
  BY <1>1, <1>7 DEF TimeUp, wires, TypeOK
<1>8. ASSUME NEW c \in Callers, NEW header \in Headers, Send(c, header) PROVE TypeOK' /\ InProgress'
  <2> DEFINE message == [header |-> header, num |-> calls + 1]
  <2>1. message \in Messages /\ calls' \in 0 .. MaxCalls
    BY <1>1, <1>8 DEF Send, TypeOK, Messages
  <2>2. /\ requests' = Append(requests, message) /\ call' = [call EXCEPT ![c] = message]
        /\ pc' = [pc EXCEPT ![c] = "locking"]
        /\ result' = [result EXCEPT ![c] = "none"] /\ answer' = [answer EXCEPT ![c] = Foreign]
        /\ UNCHANGED <<frames, notices, expired, faults, lag, owed>>
    BY <1>8 DEF Send
  <2>3. mishaps' \subseteq Mishaps
    BY <1>1, <1>8 DEF Send, TypeOK, Mishaps
  <2> HIDE DEF message
  <2>4. requests' \in Seq(Messages)
    BY <1>1, <2>1, <2>2 DEF TypeOK
  <2> QED BY <1>1, <2>1, <2>2, <2>3, <2>4 DEF TypeOK, Outcomes
<1>9. CASE Serve
  <2>1. /\ Head(requests) \in Messages /\ Tail(requests) \in Seq(Messages)
        /\ frames' = Append(frames, Head(requests)) /\ notices' = notices + 1
        /\ requests' = Tail(requests)
    BY <1>1, <1>9 DEF Serve, Arrive, TypeOK
  <2>2. frames' \in Seq(Messages \cup {Foreign})
    BY <1>1, <2>1 DEF TypeOK
  <2> QED BY <1>1, <1>9, <2>1, <2>2 DEF Serve, TypeOK
<1>10. CASE Notify
  BY <1>1, <1>10 DEF Notify, TypeOK
<1>11. ASSUME NEW kind \in Faults, Fault(kind) PROVE TypeOK' /\ InProgress'
  <2>1. frames' \in Seq(Messages \cup {Foreign})
    <3>1. ASSUME kind = "foreign", Arrive(Foreign) PROVE frames' \in Seq(Messages \cup {Foreign})
      BY <1>1, <3>1 DEF Arrive, TypeOK
    <3>2. ASSUME NEW i \in 1 .. Len(frames) - 1 PROVE i \in DOMAIN frames /\ i + 1 \in DOMAIN frames
      BY <1>1 DEF TypeOK
    <3> QED BY <1>1, <1>11, <3>1, <3>2, EditedFrames DEF Fault
  <2>2. notices' \in Nat /\ faults' \in 0 .. MaxFaults /\ mishaps' \subseteq Mishaps
    BY <1>1, <1>11 DEF Fault, Arrive, TypeOK
  <2>3. owed' \in Int
    BY <1>1, <1>11 DEF Fault, Surplus, TypeOK
  <2> QED BY <1>1, <1>11, <2>1, <2>2, <2>3 DEF Fault, TypeOK
<1> QED BY <1>2, <1>3, <1>4, <1>5, <1>6, <1>7, <1>8, <1>9, <1>10, <1>11, <1>12 DEF Next, Continue

-----------------------------------------------------------------------------
LEMMA LockingFinite == IsFiniteSet(Locking) /\ Cardinality(Locking) \in Nat
<1>1. IsFiniteSet(Locking)
  BY FS_Subset DEF Locking
<1> QED BY <1>1, FS_CardinalityType

LEMMA LockingJoins ==
    ASSUME TypeOK, NEW c \in Callers, pc[c] # "locking", pc' = [pc EXCEPT ![c] = "locking"]
    PROVE  Cardinality(Locking') = Cardinality(Locking) + 1
<1>1. c \notin Locking /\ Locking' = Locking \cup {c}
  BY DEF Locking, TypeOK
<1>2. IsFiniteSet(Locking)
  BY LockingFinite
<1>3. Cardinality(Locking \cup {c}) = IF c \in Locking THEN Cardinality(Locking) ELSE Cardinality(Locking) + 1
  BY ONLY <1>2, FS_AddElement
<1> QED BY <1>1, <1>3

LEMMA LockingLeaves ==
    ASSUME TypeOK, NEW c \in Callers, pc[c] = "locking", pc' = [pc EXCEPT ![c] = "idle"]
    PROVE  Cardinality(Locking') = Cardinality(Locking) - 1
<1>1. c \in Locking /\ Locking' = Locking \ {c}
  BY DEF Locking, TypeOK
<1>2. IsFiniteSet(Locking)
  BY LockingFinite
<1>3. Cardinality(Locking \ {c}) = IF c \in Locking THEN Cardinality(Locking) - 1 ELSE Cardinality(Locking)
  BY ONLY <1>2, FS_RemoveElement
<1> QED BY <1>1, <1>3

LEMMA WakeupStep ==
    ASSUME Inv, [Next]_vars
    PROVE  NoLostWakeup'
<1> DEFINE Goal == Waiting' => Len(frames') <= notices' + Cardinality(Locking')
<1>1. /\ TypeOK /\ pc \in [Callers -> {"idle", "locking", "waiting"}]
      /\ Len(frames) \in Nat /\ notices \in Nat /\ Cardinality(Locking) \in Nat
      /\ Waiting => Len(frames) <= notices + Cardinality(Locking)
  BY LockingFinite DEF Inv, TypeOK, NoLostWakeup, Waiting, Locking
<1>2. SUFFICES Goal
  BY DEF NoLostWakeup, Waiting, Locking
<1>3. CASE UNCHANGED <<frames, notices, pc>>
  BY <1>1, <1>3 DEF Waiting, Locking
<1>4. ASSUME NEW c \in Callers, pc[c] # "locking", pc' = [pc EXCEPT ![c] = "locking"],
             UNCHANGED <<frames, notices>>
      PROVE  Goal
  <2>1. (Waiting' => Waiting) /\ Cardinality(Locking') = Cardinality(Locking) + 1
    BY <1>1, <1>4, LockingJoins DEF Waiting
  <2> QED BY <1>1, <1>4, <2>1
<1>5. ASSUME NEW c \in Callers, Take(c) PROVE Goal
  <2>1. /\ pc[c] = "locking" /\ pc' = [pc EXCEPT ![c] = "idle"] /\ notices' = notices
        /\ Len(frames') = Len(frames) - 1
    BY <1>1, <1>5, HeadFrame DEF Take, Leave
  <2>2. (Waiting' => Waiting) /\ Cardinality(Locking') = Cardinality(Locking) - 1
    BY <1>1, <2>1, LockingLeaves DEF Waiting
  <2> QED BY <1>1, <2>1, <2>2
<1>6. ASSUME NEW c \in Callers, Wait(c) \/ GiveUp(c) \/ ReceiveFails(c) PROVE Goal
  <2>1. Len(frames') = 0 /\ notices' = notices
    BY <1>6 DEF Wait, GiveUp, ReceiveFails, wires
  <2>2. Cardinality(Locking') \in Nat
    <3>1. IsFiniteSet(Locking')
      BY FS_Subset DEF Locking
    <3> QED BY <3>1, FS_CardinalityType
  <2> QED BY <1>1, <2>1, <2>2
<1>7. ASSUME NEW c \in Callers, TimeUp(c) PROVE Goal
  <2>1. UNCHANGED <<frames, notices>> /\ pc' = [pc EXCEPT ![c] = "locking"]
    BY <1>7 DEF TimeUp, wires
  <2>2. CASE pc[c] = "locking"
    <3>1. pc' = pc
      BY <1>1, <2>1, <2>2
    <3> QED BY <1>3, <2>1, <3>1
  <2> QED BY <1>4, <2>1, <2>2
<1>8. ASSUME NEW c \in Callers, NEW header \in Headers, Send(c, header) PROVE Goal
  BY <1>4, <1>8 DEF Send
<1>9. CASE Serve
  <2>1. Len(frames') = Len(frames) + 1 /\ notices' = notices + 1 /\ pc' = pc
    BY <1>1, <1>9 DEF Serve, Arrive, TypeOK
  <2> QED BY <1>1, <2>1 DEF Waiting, Locking
<1>10. CASE Notify
  <2>1. frames' = frames /\ notices' = notices - 1
    BY <1>10 DEF Notify
  <2>2. ASSUME ~Waiting, pc' = pc PROVE Goal
    BY <2>2 DEF Waiting
  <2>3. ASSUME NEW c \in Callers, pc[c] = "waiting", pc' = [pc EXCEPT ![c] = "locking"] PROVE Goal
    <3>1. Waiting /\ Cardinality(Locking') = Cardinality(Locking) + 1
      BY <1>1, <2>3, LockingJoins DEF Waiting
    <3> QED BY <1>1, <2>1, <3>1
  <2> QED BY <1>10, <2>2, <2>3 DEF Notify, Waiting
<1>11. ASSUME NEW kind \in Faults, Fault(kind) PROVE Goal
  <2>1. /\ pc' = pc
        /\ \/ Len(frames') <= Len(frames) /\ notices' = notices
           \/ Len(frames') = Len(frames) + 1 /\ notices' = notices + 1
    <3>1. ASSUME Arrive(Foreign)
          PROVE  Len(frames') = Len(frames) + 1 /\ notices' = notices + 1
      BY <1>1, <3>1 DEF Arrive, TypeOK
    <3>2. ASSUME NEW i \in 1 .. Len(frames) - 1 PROVE i \in DOMAIN frames /\ i + 1 \in DOMAIN frames
      BY <1>1 DEF TypeOK
    <3> QED BY <1>1, <1>11, <3>1, <3>2, EditedFrames DEF Fault
  <2>2. Len(frames') \in Nat
    <3>1. TypeOK'
      BY TypeStep
    <3> QED BY <3>1 DEF TypeOK
  <2> QED BY <1>1, <2>1, <2>2 DEF Waiting, Locking
<1>12. ASSUME NEW c \in Callers, NEW error \in {"Timeout", "Other"}, Decline(c, error)
      PROVE  Goal
  BY <1>3, <1>12 DEF Decline, wires
<1>13. CASE UNCHANGED vars
  BY <1>3, <1>13 DEF vars
<1> HIDE DEF Goal
<1> QED BY <1>5, <1>6, <1>7, <1>8, <1>9, <1>10, <1>11, <1>12, <1>13 DEF Next, Continue

-----------------------------------------------------------------------------
(* What is on the wires, and what a call returned, as long as nothing has   *)
(* gone wrong.                                                              *)
LEMMA AloneStep ==
    ASSUME Inv, [Next]_vars
    PROVE  AloneOnWires' /\ OwnAnswerUndisturbed'
<1> USE DEF AloneOnWires, OwnAnswerUndisturbed
<1>1. /\ TypeOK /\ AloneOnWires /\ OwnAnswerUndisturbed
      /\ pc \in [Callers -> {"idle", "locking", "waiting"}]
      /\ call \in [Callers -> Messages \cup {Foreign}]
      /\ result \in [Callers -> Outcomes] /\ answer \in [Callers -> Messages \cup {Foreign}]
  BY DEF Inv, TypeOK
<1>2. ASSUME UNCHANGED <<requests, frames, call, result, answer, mishaps>>,
             \A c \in Callers : pc'[c] = "idle" <=> pc[c] = "idle"
      PROVE  AloneOnWires' /\ OwnAnswerUndisturbed'
  BY <1>1, <1>2
<1>3. ASSUME NEW c \in Callers, NEW error \in {"Timeout", "Other"}, Decline(c, error)
      PROVE  AloneOnWires' /\ OwnAnswerUndisturbed'
  BY <1>1, <1>3 DEF Decline, wires
<1>4. ASSUME NEW c \in Callers, Take(c) PROVE AloneOnWires' /\ OwnAnswerUndisturbed'
  <2> SUFFICES ASSUME mishaps' = {} PROVE AloneOnWires' /\ OwnAnswerUndisturbed'
    OBVIOUS
  <2>1. /\ pc[c] = "locking" /\ pc' = [pc EXCEPT ![c] = "idle"] /\ mishaps = {}
        /\ frames # <<>> /\ frames' = Tail(frames) /\ UNCHANGED <<requests, call>>
    BY <1>4 DEF Take, Leave
  <2>2. frames = <<call[c]>> /\ requests = <<>> /\ call[c] \in Messages
    BY <1>1, <2>1 DEF Inv, InProgress
  <2>3. Head(frames) = call[c] /\ frames' = <<>>
    BY <2>1, <2>2
  <2>4. Judge(call[c], Head(frames)) = "Ok"
    BY <2>2, <2>3, JudgeSound
  <2>5. result' = [result EXCEPT ![c] = "Ok"] /\ answer' = [answer EXCEPT ![c] = call[c]]
    BY <1>4, <2>3, <2>4, TakeEffect
  <2>6. \A d \in Callers : pc'[d] = "idle"
    BY <1>1, <2>1
  <2>7. AloneOnWires'
    BY <2>1, <2>2, <2>3, <2>6
  <2>8. OwnAnswerUndisturbed'
    BY <1>1, <2>1, <2>5
  <2> QED BY <2>7, <2>8
<1>5. ASSUME NEW c \in Callers, GiveUp(c) \/ ReceiveFails(c) PROVE mishaps' # {}
  BY <1>5 DEF GiveUp, ReceiveFails
<1>6. ASSUME NEW c \in Callers, Wait(c) PROVE AloneOnWires' /\ OwnAnswerUndisturbed'
  BY <1>1, <1>2, <1>6 DEF Wait, wires
<1>7. ASSUME NEW c \in Callers, TimeUp(c) PROVE AloneOnWires' /\ OwnAnswerUndisturbed'
  BY <1>1, <1>2, <1>7 DEF TimeUp, wires
<1>8. ASSUME NEW c \in Callers, NEW header \in Headers, Send(c, header)
      PROVE  AloneOnWires' /\ OwnAnswerUndisturbed'
  <2> SUFFICES ASSUME mishaps' = {} PROVE AloneOnWires' /\ OwnAnswerUndisturbed'
    OBVIOUS
  <2> DEFINE message == [header |-> header, num |-> calls + 1]
  <2>1. mishaps = {} /\ \A d \in Callers : pc[d] = "idle"
    BY <1>8 DEF Send
  <2>2. /\ requests' = Append(requests, message) /\ call' = [call EXCEPT ![c] = message]
        /\ pc' = [pc EXCEPT ![c] = "locking"] /\ frames' = frames
        /\ result' = [result EXCEPT ![c] = "none"] /\ answer' = [answer EXCEPT ![c] = Foreign]
    BY <1>8 DEF Send
  <2>3. message \in Messages
    BY <1>1 DEF TypeOK, Messages
  <2> HIDE DEF message
  <2>4. requests' = <<message>> /\ frames' = <<>> /\ message # Foreign
    <3>1. requests = <<>> /\ frames = <<>>
      BY <1>1, <2>1
    <3>2. message # Foreign
      BY <2>3
    <3>3. Append(<<>>, message) = <<message>>
      OBVIOUS
    <3> QED BY <2>2, <3>1, <3>2, <3>3
  <2>5. AloneOnWires'
    BY <1>1, <2>1, <2>2, <2>4
  <2>6. OwnAnswerUndisturbed'
    BY <1>1, <2>1, <2>2
  <2> QED BY <2>5, <2>6
<1>9. CASE Serve
  <2> SUFFICES ASSUME mishaps' = {} PROVE AloneOnWires' /\ OwnAnswerUndisturbed'
    OBVIOUS
  <2>1. /\ requests # <<>> /\ requests' = Tail(requests) /\ frames' = Append(frames, Head(requests))
        /\ UNCHANGED <<call, pc, result, answer, mishaps>> /\ mishaps = {}
    BY <1>9 DEF Serve, Arrive
  <2>2. PICK c \in Callers : pc[c] # "idle"
    BY <1>1, <2>1
  <2>3. requests = <<call[c]>> /\ frames = <<>>
    BY <1>1, <2>1, <2>2
  <2>4. requests' = <<>> /\ frames' = <<call[c]>>
    BY <2>1, <2>3
  <2>5. \A d \in Callers : pc[d] # "idle" => d = c
    BY <1>1, <2>1, <2>2
  <2> QED BY <1>1, <2>1, <2>2, <2>4, <2>5
<1>10. CASE Notify
  BY <1>1, <1>2, <1>10 DEF Notify
<1>11. ASSUME NEW kind \in Faults, Fault(kind) PROVE mishaps' # {}
  BY <1>11 DEF Fault
<1>12. CASE UNCHANGED vars
  BY <1>2, <1>12 DEF vars
<1> QED BY <1>3, <1>4, <1>5, <1>6, <1>7, <1>8, <1>9, <1>10, <1>11, <1>12 DEF Next, Continue

-----------------------------------------------------------------------------
(* Inv holds of every state of the exchange.                                *)
THEOREM Invariant == Spec => []Inv
<1>1. Inv /\ [Next]_vars => Inv'
  BY TypeStep, WakeupStep, AloneStep DEF Inv
<1> QED BY InitInv, <1>1, PTL DEF Spec

(* Types, and that an accepted frame has the header of the request          *)
(* (verify_echo_back, acf.rs).                                              *)
THEOREM TypeCorrect == Spec => []TypeOK
<1>1. Inv => TypeOK
  BY DEF Inv
<1> QED BY <1>1, Invariant, PTL

(* Without timeouts, overlapping calls and faults of the medium the next    *)
(* frame is always the answer (udp.rs, shmem.rs, l2.rs, tlstransport.rs).   *)
THEOREM UndisturbedCallsGetTheirAnswer == Spec => []OwnAnswerUndisturbed
<1>1. Inv => OwnAnswerUndisturbed
  BY DEF Inv
<1> QED BY <1>1, Invariant, PTL

(* The notify_one after the push of InProcChannel::write wakes somebody for *)
(* every frame that is left (shmem.rs).                                     *)
THEOREM NoWakeupIsLost == Spec => []NoLostWakeup
<1>1. Inv => NoLostWakeup
  BY DEF Inv
<1> QED BY <1>1, Invariant, PTL

-----------------------------------------------------------------------------
Busy == {c \in Callers : pc[c] # "idle"}

LEMMA BusyFinite == IsFiniteSet(Busy) /\ Cardinality(Busy) \in Nat
<1>1. IsFiniteSet(Busy)
  BY FS_Subset DEF Busy
<1> QED BY <1>1, FS_CardinalityType

LEMMA BusyBegins ==
    ASSUME TypeOK, NEW c \in Callers, pc[c] = "idle", pc' = [pc EXCEPT ![c] = "locking"]
    PROVE  Cardinality(Busy') = Cardinality(Busy) + 1
<1>1. c \notin Busy /\ Busy' = Busy \cup {c}
  BY DEF Busy, TypeOK
<1>2. Cardinality(Busy \cup {c}) = IF c \in Busy THEN Cardinality(Busy) ELSE Cardinality(Busy) + 1
  BY ONLY BusyFinite, FS_AddElement
<1> QED BY <1>1, <1>2

LEMMA BusyEnds ==
    ASSUME TypeOK, NEW c \in Callers, pc[c] # "idle", pc' = [pc EXCEPT ![c] = "idle"]
    PROVE  Cardinality(Busy') = Cardinality(Busy) - 1
<1>1. c \in Busy /\ Busy' = Busy \ {c}
  BY DEF Busy, TypeOK
<1>2. Cardinality(Busy \ {c}) = IF c \in Busy THEN Cardinality(Busy) - 1 ELSE Cardinality(Busy)
  BY ONLY BusyFinite, FS_RemoveElement
<1> QED BY <1>1, <1>2

\* A fault changes what has arrived by its surplus.
LEMMA FaultSurplus ==
    ASSUME TypeOK, NEW kind \in Faults, Fault(kind)
    PROVE  Len(frames') = Len(frames) + Surplus(kind) /\ Surplus(kind) \in Int
<1>1. Len(frames) \in Nat /\ frames \in Seq(Messages \cup {Foreign})
  BY DEF TypeOK
<1>2. ASSUME Arrive(Foreign) PROVE Len(frames') = Len(frames) + 1
  BY <1>1, <1>2 DEF Arrive
<1>3. ASSUME NEW i \in 1 .. Len(frames) - 1 PROVE i \in DOMAIN frames /\ i + 1 \in DOMAIN frames
  BY <1>1
<1> QED BY <1>1, <1>2, <1>3, EditedFrames DEF Fault, Surplus

LEMMA BacklogStep ==
    ASSUME TypeOK, BacklogIsOwed, [Next]_vars
    PROVE  BacklogIsOwed'
<1> DEFINE Under == Len(requests) + Len(frames)
<1>1. /\ Under = Cardinality(Busy) + owed /\ Cardinality(Busy) \in Nat /\ owed \in Int
      /\ Len(frames) \in Nat /\ Len(requests) \in Nat
      /\ pc \in [Callers -> {"idle", "locking", "waiting"}]
  BY BusyFinite DEF BacklogIsOwed, Busy, TypeOK
<1>2. SUFFICES Under' = Cardinality(Busy') + owed'
  BY DEF BacklogIsOwed, Busy
<1>3. ASSUME UNCHANGED <<requests, frames, owed>>, \A c \in Callers : pc'[c] = "idle" <=> pc[c] = "idle"
      PROVE  Under' = Cardinality(Busy') + owed'
  <2>1. Busy' = Busy
    BY <1>3 DEF Busy
  <2> QED BY <1>1, <1>3, <2>1
<1>4. ASSUME NEW c \in Callers, Wait(c) \/ TimeUp(c) PROVE Under' = Cardinality(Busy') + owed'
  BY <1>1, <1>3, <1>4 DEF Wait, TimeUp, wires
<1>5. ASSUME NEW c \in Callers, NEW error, Decline(c, error) PROVE Under' = Cardinality(Busy') + owed'
  BY <1>3, <1>5 DEF Decline, wires
<1>6. ASSUME NEW c \in Callers, Take(c) PROVE Under' = Cardinality(Busy') + owed'
  <2>1. /\ pc[c] # "idle" /\ pc' = [pc EXCEPT ![c] = "idle"] /\ UNCHANGED <<requests, owed>>
        /\ Len(frames') = Len(frames) - 1
    BY <1>6, HeadFrame DEF Take, Leave
  <2>2. Cardinality(Busy') = Cardinality(Busy) - 1
    BY <2>1, BusyEnds
  <2> QED BY <1>1, <2>1, <2>2
<1>7. ASSUME NEW c \in Callers, GiveUp(c) \/ ReceiveFails(c)
      PROVE  Under' = Cardinality(Busy') + owed'
  <2>1. /\ pc[c] # "idle" /\ pc' = [pc EXCEPT ![c] = "idle"] /\ UNCHANGED <<requests, frames>>
        /\ owed' = owed + 1
    BY <1>7 DEF GiveUp, ReceiveFails, Leave, wires
  <2>2. Cardinality(Busy') = Cardinality(Busy) - 1
    BY <2>1, BusyEnds
  <2> QED BY <1>1, <2>1, <2>2
<1>8. ASSUME NEW c \in Callers, NEW header, Send(c, header) PROVE Under' = Cardinality(Busy') + owed'
  <2>1. /\ pc[c] = "idle" /\ pc' = [pc EXCEPT ![c] = "locking"] /\ UNCHANGED <<frames, owed>>
        /\ Len(requests') = Len(requests) + 1
    BY <1>8 DEF Send, TypeOK
  <2>2. Cardinality(Busy') = Cardinality(Busy) + 1
    BY <2>1, BusyBegins
  <2> QED BY <1>1, <2>1, <2>2
<1>9. CASE Serve
  <2>1. UNCHANGED <<pc, owed>> /\ Len(requests') = Len(requests) - 1 /\ Len(frames') = Len(frames) + 1
    BY <1>9 DEF Serve, Arrive, TypeOK
  <2> QED BY <1>1, <2>1 DEF Busy
<1>10. CASE Notify
  BY <1>1, <1>3, <1>10 DEF Notify
<1>11. ASSUME NEW kind \in Faults, Fault(kind) PROVE Under' = Cardinality(Busy') + owed'
  <2>1. UNCHANGED <<requests, pc>> /\ owed' = owed + Surplus(kind)
    BY <1>11 DEF Fault
  <2>2. Busy' = Busy
    BY <2>1 DEF Busy
  <2> QED BY <1>1, <1>11, <2>1, <2>2, FaultSurplus
<1>12. CASE UNCHANGED vars
  BY <1>3, <1>12 DEF vars
<1> HIDE DEF Under
<1> QED BY <1>4, <1>5, <1>6, <1>7, <1>8, <1>9, <1>10, <1>11, <1>12 DEF Next, Continue

(* A call takes one frame for the one it sent, be it its own, another's or   *)
(* nobody's: only giving up, an error of the socket and the medium make the *)
(* queue longer or shorter than the calls in progress account for.          *)
THEOREM BacklogAlwaysOwed == Spec => []BacklogIsOwed
<1>1. Init => BacklogIsOwed
  <2> SUFFICES ASSUME Init PROVE BacklogIsOwed
    OBVIOUS
  <2>1. Busy = {} /\ Len(requests) = 0 /\ Len(frames) = 0 /\ owed = 0
    BY DEF Init, Busy
  <2> QED BY <2>1, FS_EmptySet DEF BacklogIsOwed, Busy
<1>2. TypeOK /\ BacklogIsOwed /\ [Next]_vars => BacklogIsOwed'
  BY BacklogStep
<1> QED BY <1>1, <1>2, TypeCorrect, PTL DEF Spec

-----------------------------------------------------------------------------
(* Everything under way, in the order in which it will be taken: what the   *)
(* callers have not taken, and then the answers still to come.              *)
Size == Len(frames) + Len(requests)
Line == [i \in 1 .. Size |-> IF i <= Len(frames) THEN frames[i] ELSE requests[i - Len(frames)]]

\* The number of the request whose call takes the next frame.
Due == IF \A c \in Callers : pc[c] = "idle" THEN calls + 1 ELSE calls

(* In a line of n frames numbers rise by one at most from place to place,   *)
(* the first is at least behind requests old, and enough frames follow each *)
(* one to answer what was sent since.                                       *)
Lined(line, n, sent, due, behind) ==
    /\ \A i, j \in 1 .. n : i <= j /\ line[i] # Foreign /\ line[j] # Foreign =>
          line[j].num <= line[i].num + (j - i)
    /\ \A i \in 1 .. n : line[i] # Foreign =>
          line[i].num < due - behind + i /\ sent <= line[i].num + (n - i)
    /\ behind <= n + due - sent - 1

Undisturbed == mishaps \cap {"lose", "reorder", "overlap"} = {}

Ordered ==
    /\ \A c, d \in Callers : pc[c] # "idle" /\ pc[d] # "idle" => c = d
    /\ \A c \in Callers : pc[c] # "idle" => call[c].num = calls
    /\ Lined(Line, Size, calls, Due, lag)

InOrder == Undisturbed => Ordered

Lines(n) == [1 .. n -> Messages \cup {Foreign}]

LEMMA NumTypes ==
    ASSUME NEW n \in Nat, NEW line \in Lines(n), NEW i \in 1 .. n, line[i] # Foreign
    PROVE  line[i].num \in Nat
BY DEF Lines, Messages

\* Taking the first: a rejected frame changes nothing, an accepted one says
\* how far the answers are behind, which is at least as far as before.
LEMMA LinedTaken ==
    ASSUME NEW n \in Nat \ {0}, NEW line \in Lines(n), NEW rest \in Lines(n - 1),
           NEW sent \in Nat, NEW behind \in Int, NEW now_behind \in Int,
           \A i \in 1 .. n - 1 : rest[i] = line[i + 1],
           Lined(line, n, sent, sent, behind),
           \/ now_behind = behind
           \/ line[1] # Foreign /\ now_behind = sent - line[1].num
    PROVE  Lined(rest, n - 1, sent, sent + 1, now_behind) /\ now_behind >= behind
<1>1. \A i \in 1 .. n : line[i] # Foreign => line[i].num \in Int
  BY NumTypes
<1>2. \A i, j \in 1 .. n - 1 : i <= j /\ rest[i] # Foreign /\ rest[j] # Foreign =>
         rest[j].num <= rest[i].num + (j - i)
  <2> SUFFICES ASSUME NEW i \in 1 .. n - 1, NEW j \in 1 .. n - 1, i <= j,
                      rest[i] # Foreign, rest[j] # Foreign
               PROVE  rest[j].num <= rest[i].num + (j - i)
    OBVIOUS
  <2>1. i + 1 \in 1 .. n /\ j + 1 \in 1 .. n /\ i + 1 <= j + 1
    OBVIOUS
  <2>2. line[j + 1].num <= line[i + 1].num + ((j + 1) - (i + 1))
    BY <2>1 DEF Lined
  <2>3. (j + 1) - (i + 1) = j - i
    OBVIOUS
  <2> QED BY <2>2, <2>3
<1>3. CASE now_behind = behind
  <2>1. \A i \in 1 .. n - 1 : rest[i] # Foreign =>
           rest[i].num < (sent + 1) - behind + i /\ sent <= rest[i].num + ((n - 1) - i)
    <3> SUFFICES ASSUME NEW i \in 1 .. n - 1, rest[i] # Foreign
                 PROVE  rest[i].num < (sent + 1) - behind + i /\ sent <= rest[i].num + ((n - 1) - i)
      OBVIOUS
    <3>1. i + 1 \in 1 .. n /\ line[i + 1] # Foreign
      OBVIOUS
    <3>2. /\ line[i + 1].num < sent - behind + (i + 1) /\ line[i + 1].num \in Int
          /\ sent <= line[i + 1].num + (n - (i + 1))
      BY <1>1, <3>1 DEF Lined
    <3> QED BY <3>2
  <2>2. behind <= (n - 1) + (sent + 1) - sent - 1
    BY DEF Lined
  <2> QED BY <1>2, <1>3, <2>1, <2>2 DEF Lined
<1>4. CASE line[1] # Foreign /\ now_behind = sent - line[1].num
  <2>1. 1 \in 1 .. n /\ line[1].num \in Int
    BY <1>1, <1>4
  <2>2. line[1].num < sent - behind + 1 /\ sent <= line[1].num + (n - 1)
    BY <1>4, <2>1 DEF Lined
  <2>3. \A i \in 1 .. n - 1 : rest[i] # Foreign =>
           rest[i].num < (sent + 1) - now_behind + i /\ sent <= rest[i].num + ((n - 1) - i)
    <3> SUFFICES ASSUME NEW i \in 1 .. n - 1, rest[i] # Foreign
                 PROVE  rest[i].num < (sent + 1) - now_behind + i /\ sent <= rest[i].num + ((n - 1) - i)
      OBVIOUS
    <3>1. i + 1 \in 1 .. n /\ line[i + 1] # Foreign /\ 1 <= i + 1
      OBVIOUS
    <3>2. /\ line[i + 1].num <= line[1].num + ((i + 1) - 1) /\ line[i + 1].num \in Int
          /\ sent <= line[i + 1].num + (n - (i + 1))
      BY <1>1, <1>4, <2>1, <3>1 DEF Lined
    <3> QED BY <1>4, <2>1, <3>2
  <2>4. now_behind <= (n - 1) + (sent + 1) - sent - 1 /\ now_behind >= behind
    BY <1>4, <2>1, <2>2
  <2> QED BY <1>2, <2>3, <2>4 DEF Lined
<1> QED BY <1>3, <1>4

\* One more request, when no call is in progress.
LEMMA LinedSent ==
    ASSUME NEW n \in Nat, NEW line \in Lines(n), NEW longer \in Lines(n + 1),
           NEW sent \in Nat, NEW behind \in Int,
           \A i \in 1 .. n : longer[i] = line[i],
           longer[n + 1] # Foreign, longer[n + 1].num = sent + 1,
           Lined(line, n, sent, sent + 1, behind)
    PROVE  Lined(longer, n + 1, sent + 1, sent + 1, behind)
<1>1. \A i \in 1 .. n : line[i] # Foreign => line[i].num \in Int
  BY NumTypes
<1>2. ASSUME NEW i \in 1 .. n + 1, longer[i] # Foreign
      PROVE  longer[i].num < (sent + 1) - behind + i /\ sent + 1 <= longer[i].num + ((n + 1) - i)
  <2>1. CASE i = n + 1
    BY <2>1 DEF Lined
  <2>2. CASE i \in 1 .. n
    <3>1. line[i].num < (sent + 1) - behind + i /\ sent <= line[i].num + (n - i) /\ line[i].num \in Int
      BY <1>1, <1>2, <2>2 DEF Lined
    <3> QED BY <2>2, <3>1
  <2> QED BY <2>1, <2>2
<1>3. ASSUME NEW i \in 1 .. n + 1, NEW j \in 1 .. n + 1, i <= j,
             longer[i] # Foreign, longer[j] # Foreign
      PROVE  longer[j].num <= longer[i].num + (j - i)
  <2>1. CASE j \in 1 .. n
    BY <1>3, <2>1 DEF Lined
  <2>2. CASE j = n + 1 /\ i = n + 1
    BY <2>2
  <2>3. CASE j = n + 1 /\ i \in 1 .. n
    <3>1. sent + 1 <= line[i].num + ((n + 1) - i) /\ line[i] # Foreign /\ line[i].num \in Int
      BY <1>1, <1>2, <1>3, <2>3
    <3> QED BY <2>3, <3>1
  <2> QED BY <2>1, <2>2, <2>3
<1>4. behind <= (n + 1) + (sent + 1) - (sent + 1) - 1
  BY DEF Lined
<1> QED BY <1>2, <1>3, <1>4 DEF Lined

\* The same line, once a call has given up.
LEMMA LinedLater ==
    ASSUME NEW n \in Nat, NEW line \in Lines(n), NEW sent \in Nat, NEW behind \in Int,
           Lined(line, n, sent, sent, behind)
    PROVE  Lined(line, n, sent, sent + 1, behind)
<1>1. ASSUME NEW i \in 1 .. n, line[i] # Foreign
      PROVE  line[i].num < (sent + 1) - behind + i /\ sent <= line[i].num + (n - i)
  <2>1. line[i].num < sent - behind + i /\ sent <= line[i].num + (n - i) /\ line[i].num \in Int
    BY <1>1, NumTypes DEF Lined
  <2> QED BY <2>1
<1>2. behind <= n + (sent + 1) - sent - 1
  BY DEF Lined
<1> QED BY <1>1, <1>2 DEF Lined

\* A frame too many behind place f: a copy of the one at f, or one that does
\* not decode.
LEMMA LinedGrown ==
    ASSUME NEW n \in Nat, NEW line \in Lines(n), NEW longer \in Lines(n + 1),
           NEW sent \in Nat, NEW due \in Int, NEW behind \in Int, NEW f \in 0 .. n,
           \A i \in 1 .. n + 1 : longer[i] = IF i <= f THEN line[i]
                                             ELSE IF i = f + 1 THEN longer[f + 1]
                                             ELSE line[i - 1],
           longer[f + 1] = Foreign \/ (f >= 1 /\ longer[f + 1] = line[f]),
           Lined(line, n, sent, due, behind)
    PROVE  Lined(longer, n + 1, sent, due, behind)
<1> DEFINE Old(i) == IF i <= f THEN i ELSE i - 1
<1>1. \A i \in 1 .. n + 1 : longer[i] # Foreign =>
         /\ Old(i) \in 1 .. n /\ longer[i] = line[Old(i)]
         /\ Old(i) <= i /\ i <= Old(i) + 1
  OBVIOUS
<1>2. \A i, j \in 1 .. n + 1 : i <= j => Old(i) <= Old(j) /\ Old(j) - Old(i) <= j - i
  OBVIOUS
<1>3. \A i \in 1 .. n : line[i] # Foreign => line[i].num \in Int
  BY NumTypes
<1> HIDE DEF Old
<1>4. ASSUME NEW i \in 1 .. n + 1, longer[i] # Foreign
      PROVE  longer[i].num < due - behind + i /\ sent <= longer[i].num + ((n + 1) - i)
  <2> DEFINE o == Old(i)
  <2>1. o \in 1 .. n /\ longer[i] = line[o] /\ o <= i /\ i <= o + 1 /\ line[o].num \in Int
    BY <1>1, <1>3, <1>4
  <2> HIDE DEF o
  <2>2. line[o].num < due - behind + o /\ sent <= line[o].num + (n - o)
    BY <1>4, <2>1 DEF Lined
  <2> QED BY <2>1, <2>2
<1>5. ASSUME NEW i \in 1 .. n + 1, NEW j \in 1 .. n + 1, i <= j,
             longer[i] # Foreign, longer[j] # Foreign
      PROVE  longer[j].num <= longer[i].num + (j - i)
  <2> DEFINE o == Old(i)
             q == Old(j)
  <2>1. /\ o \in 1 .. n /\ longer[i] = line[o] /\ line[o].num \in Int
        /\ q \in 1 .. n /\ longer[j] = line[q] /\ line[q].num \in Int
    BY <1>1, <1>3, <1>5
  <2>2. o <= q /\ q - o <= j - i
    BY <1>2, <1>5
  <2> HIDE DEF o, q
  <2>3. line[q].num <= line[o].num + (q - o)
    BY <1>5, <2>1, <2>2 DEF Lined
  <2> QED BY <2>1, <2>2, <2>3
<1>6. behind <= (n + 1) + due - sent - 1
  BY DEF Lined
<1> QED BY <1>4, <1>5, <1>6 DEF Lined

-----------------------------------------------------------------------------
\* The line, frame by frame.
LEMMA LineOfMessages ==
    ASSUME NEW fs \in Seq(Messages \cup {Foreign}), NEW rs \in Seq(Messages)
    PROVE  [i \in 1 .. Len(fs) + Len(rs) |-> IF i <= Len(fs) THEN fs[i] ELSE rs[i - Len(fs)]]
              \in Lines(Len(fs) + Len(rs))
<1>1. /\ Len(fs) \in Nat /\ Len(rs) \in Nat
      /\ \A i \in 1 .. Len(fs) : fs[i] \in Messages \cup {Foreign}
      /\ \A i \in 1 .. Len(rs) : rs[i] \in Messages
  OBVIOUS
<1> DEFINE n == Len(fs)
           m == Len(rs)
<1> HIDE DEF n, m
<1>2. n \in Nat /\ m \in Nat
  BY <1>1 DEF n, m
<1>3. ASSUME NEW i \in 1 .. n + m
      PROVE  (IF i <= n THEN fs[i] ELSE rs[i - n]) \in Messages \cup {Foreign}
  <2>1. CASE i <= n
    BY <1>1, <1>2, <2>1 DEF n
  <2>2. CASE i > n
    <3>1. i - n \in 1 .. m
      BY <1>2, <2>2
    <3> QED BY <1>1, <1>2, <2>2, <3>1 DEF m
  <2> QED BY <1>2, <2>1, <2>2
<1> QED BY <1>3 DEF Lines, n, m

LEMMA LineType ==
    ASSUME TypeOK
    PROVE  /\ Len(frames) \in Nat /\ Len(requests) \in Nat /\ Size \in Nat
           /\ Size = Len(frames) + Len(requests) /\ Line \in Lines(Size)
           /\ \A i \in 1 .. Size :
                 Line[i] = IF i <= Len(frames) THEN frames[i] ELSE requests[i - Len(frames)]
           /\ calls \in Nat /\ lag \in Int
<1>1. frames \in Seq(Messages \cup {Foreign}) /\ requests \in Seq(Messages)
  BY DEF TypeOK
<1>2. Line \in Lines(Size)
  BY <1>1, LineOfMessages DEF Line, Size
<1> QED BY <1>1, <1>2 DEF TypeOK, Size, Line

LEMMA LineTypeAfter ==
    ASSUME TypeOK'
    PROVE  Line' \in Lines(Size')
<1>1. frames' \in Seq(Messages \cup {Foreign}) /\ requests' \in Seq(Messages)
  BY DEF TypeOK
<1> QED BY <1>1, LineOfMessages DEF Line, Size

LEMMA LineTaken ==
    ASSUME TypeOK, TypeOK', frames # <<>>, frames' = Tail(frames), requests' = requests
    PROVE  /\ Size \in Nat \ {0} /\ Size' = Size - 1 /\ Line[1] = Head(frames)
           /\ \A i \in 1 .. Size - 1 : Line'[i] = Line[i + 1]
<1>1. /\ Len(frames) \in Nat \ {0} /\ Len(frames') = Len(frames) - 1 /\ Head(frames) = frames[1]
      /\ \A i \in 1 .. Len(frames) - 1 : frames'[i] = frames[i + 1]
  BY DEF TypeOK
<1>2. Size \in Nat \ {0} /\ Size' = Size - 1 /\ Len(requests) \in Nat
  BY <1>1, LineType DEF Size
<1>3. Line[1] = Head(frames)
  BY <1>1, <1>2, LineType
<1>4. ASSUME NEW i \in 1 .. Size - 1
      PROVE  Line'[i] = Line[i + 1]
  <2>1. /\ Line[i + 1] = IF i + 1 <= Len(frames) THEN frames[i + 1] ELSE requests[(i + 1) - Len(frames)]
        /\ i \in 1 .. Size'
    BY <1>2, LineType
  <2>2. Line'[i] = IF i <= Len(frames') THEN frames'[i] ELSE requests'[i - Len(frames')]
    BY <2>1 DEF Line
  <2>3. CASE i <= Len(frames')
    BY <1>1, <2>1, <2>2, <2>3
  <2>4. CASE ~(i <= Len(frames'))
    <3>1. ~(i + 1 <= Len(frames)) /\ i - Len(frames') = (i + 1) - Len(frames)
      BY <1>1, <2>4
    <3> QED BY <2>1, <2>2, <2>4, <3>1
  <2> QED BY <2>3, <2>4
<1> QED BY <1>2, <1>3, <1>4

LEMMA LineServed ==
    ASSUME TypeOK, Serve
    PROVE  Size' = Size /\ Line' = Line
<1> DEFINE n == Len(frames)
           m == Len(requests)
<1>1. /\ n \in Nat /\ m \in Nat \ {0} /\ Len(frames') = n + 1 /\ Len(requests') = m - 1
      /\ \A i \in 1 .. n : frames'[i] = frames[i]
      /\ frames'[n + 1] = requests[1]
      /\ \A i \in 1 .. m - 1 : requests'[i] = requests[i + 1]
  BY DEF Serve, Arrive, TypeOK
<1> HIDE DEF n, m
<1>2. Size = n + m /\ Size' = n + m
  BY <1>1 DEF Size, n, m
<1>3. ASSUME NEW i \in 1 .. n + m
      PROVE  (IF i <= n + 1 THEN frames'[i] ELSE requests'[i - (n + 1)])
                = IF i <= n THEN frames[i] ELSE requests[i - n]
  <2>1. CASE i <= n
    BY <1>1, <2>1
  <2>2. CASE i = n + 1
    <3>1. ~(i <= n) /\ i <= n + 1 /\ i - n = 1
      BY <1>1, <2>2
    <3> QED BY <1>1, <2>2, <3>1
  <2>3. CASE i > n + 1
    <3>1. ~(i <= n) /\ ~(i <= n + 1) /\ i - (n + 1) \in 1 .. m - 1 /\ (i - (n + 1)) + 1 = i - n
      BY <1>1, <2>3
    <3> QED BY <1>1, <3>1
  <2> QED BY <1>1, <2>1, <2>2, <2>3
<1> QED BY <1>1, <1>2, <1>3 DEF Line, n

LEMMA LineSent ==
    ASSUME TypeOK, NEW m \in Messages, frames' = frames, requests' = Append(requests, m)
    PROVE  /\ Size' = Size + 1 /\ Line'[Size + 1] = m
           /\ \A i \in 1 .. Size : Line'[i] = Line[i]
<1> DEFINE n == Len(frames)
           k == Len(requests)
<1>1. /\ n \in Nat /\ k \in Nat /\ Len(requests') = k + 1 /\ requests'[k + 1] = m
      /\ \A i \in 1 .. k : requests'[i] = requests[i]
  BY DEF TypeOK
<1>2. Len(frames') = n
  OBVIOUS
<1> HIDE DEF n, k
<1>3. Size = n + k /\ Size' = n + k + 1
  BY <1>1, <1>2 DEF Size, n, k
<1>4. ASSUME NEW i \in 1 .. n + k + 1
      PROVE  Line'[i] = IF i <= n THEN frames[i] ELSE requests'[i - n]
  BY <1>2, <1>3 DEF Line
<1>5. Line'[Size + 1] = m
  <2>1. n + k + 1 \in 1 .. n + k + 1 /\ ~(n + k + 1 <= n) /\ (n + k + 1) - n = k + 1
    BY <1>1
  <2> QED BY <1>1, <1>3, <1>4, <2>1
<1>6. ASSUME NEW i \in 1 .. n + k
      PROVE  Line'[i] = Line[i]
  <2>1. Line[i] = IF i <= n THEN frames[i] ELSE requests[i - n]
    BY <1>3 DEF Line, n
  <2>2. i \in 1 .. n + k + 1
    BY <1>1
  <2>3. i > n => i - n \in 1 .. k
    BY <1>1
  <2> QED BY <1>1, <1>4, <2>1, <2>2, <2>3
<1> QED BY <1>3, <1>5, <1>6
\* The medium puts one more frame behind place f.
LEMMA LineGrown ==
    ASSUME TypeOK, NEW f \in 0 .. Len(frames), requests' = requests,
           Len(frames') = Len(frames) + 1,
           \A i \in 1 .. Len(frames) + 1 :
              frames'[i] = IF i <= f THEN frames[i]
                           ELSE IF i = f + 1 THEN frames'[f + 1] ELSE frames[i - 1]
    PROVE  /\ Size' = Size + 1 /\ f \in 0 .. Size
           /\ Line'[f + 1] = frames'[f + 1] /\ (f >= 1 => Line[f] = frames[f])
           /\ \A i \in 1 .. Size + 1 : Line'[i] = IF i <= f THEN Line[i]
                                               ELSE IF i = f + 1 THEN Line'[f + 1]
                                               ELSE Line[i - 1]
<1> DEFINE n == Len(frames)
           m == Len(requests)
<1>1. /\ n \in Nat /\ m \in Nat /\ f \in 0 .. n /\ Len(frames') = n + 1
      /\ \A i \in 1 .. n + 1 :
            frames'[i] = IF i <= f THEN frames[i]
                         ELSE IF i = f + 1 THEN frames'[f + 1] ELSE frames[i - 1]
  BY LineType
<1> HIDE DEF n, m
<1>2. Size = n + m /\ Size' = n + m + 1
  BY <1>1 DEF Size, n, m
<1>3. \A i \in 1 .. n + m : Line[i] = IF i <= n THEN frames[i] ELSE requests[i - n]
  BY <1>2 DEF Line, n
<1>4. \A i \in 1 .. n + m + 1 : Line'[i] = IF i <= n + 1 THEN frames'[i] ELSE requests[i - (n + 1)]
  BY <1>1, <1>2 DEF Line
<1>5. Line'[f + 1] = frames'[f + 1] /\ (f >= 1 => Line[f] = frames[f])
  <2>1. f + 1 \in 1 .. n + m + 1 /\ f + 1 <= n + 1 /\ (f >= 1 => f \in 1 .. n + m /\ f <= n)
    BY <1>1
  <2> QED BY <1>3, <1>4, <2>1
<1>6. ASSUME NEW i \in 1 .. n + m + 1
      PROVE  Line'[i] = IF i <= f THEN Line[i] ELSE IF i = f + 1 THEN Line'[f + 1] ELSE Line[i - 1]
  <2>1. CASE i <= f
    <3>1. i \in 1 .. n + 1 /\ i \in 1 .. n + m /\ i <= n /\ i <= n + 1
      BY <1>1, <2>1
    <3> QED BY <1>1, <1>3, <1>4, <2>1, <3>1
  <2>2. CASE i = f + 1
    <3>1. ~(i <= f)
      BY <1>1, <2>2
    <3> QED BY <2>2, <3>1
  <2>3. CASE i > f + 1 /\ i <= n + 1
    <3>1. i \in 1 .. n + 1 /\ i - 1 \in 1 .. n + m /\ i - 1 <= n /\ ~(i <= f) /\ i # f + 1
      BY <1>1, <2>3
    <3>2. Line'[i] = frames[i - 1]
      BY <1>1, <1>4, <2>3, <3>1
    <3>3. Line[i - 1] = frames[i - 1]
      BY <1>3, <3>1
    <3> QED BY <3>1, <3>2, <3>3
  <2>4. CASE i > n + 1
    <3>1. /\ i - 1 \in 1 .. n + m /\ ~(i - 1 <= n) /\ ~(i <= f) /\ i # f + 1 /\ ~(i <= n + 1)
          /\ (i - 1) - n = i - (n + 1)
      BY <1>1, <2>4
    <3>2. Line'[i] = requests[i - (n + 1)]
      BY <1>4, <3>1
    <3>3. Line[i - 1] = requests[i - (n + 1)]
      BY <1>3, <3>1
    <3> QED BY <3>1, <3>2, <3>3
  <2> QED BY <1>1, <2>1, <2>2, <2>3, <2>4
<1>7. f \in 0 .. Size
  BY <1>1, <1>2
<1> QED BY <1>2, <1>5, <1>6, <1>7

\* A repeated frame stands right behind itself.
LEMMA RepeatedFrame ==
    ASSUME TypeOK, NEW k \in DOMAIN frames
    PROVE  /\ k \in 1 .. Len(frames) /\ Len(Twice(frames, k)) = Len(frames) + 1
           /\ \A i \in 1 .. Len(frames) + 1 :
                 Twice(frames, k)[i] = IF i <= k THEN frames[i] ELSE frames[i - 1]
<1> DEFINE S == Messages \cup {Foreign}
           n == Len(frames)
<1>1. /\ frames \in Seq(S) /\ n \in Nat /\ DOMAIN frames = 1 .. n /\ k \in 1 .. n
      /\ Len(Twice(frames, k)) = n + 1
  BY EditedFrames DEF TypeOK
<1>2. \A j \in 1 .. n : frames[j] \in S
  BY <1>1
<1> HIDE DEF S, n
<1>3. /\ \A j \in 1 .. k : frames[j] \in S
      /\ \A j \in k .. n : frames[j] \in S
      /\ 1 \in Int /\ k \in Int /\ n \in Int
  BY <1>1, <1>2
<1> DEFINE front == SubSeq(frames, 1, k)
           back == SubSeq(frames, k, n)
<1>4. /\ front \in Seq(S) /\ Len(front) = k
      /\ \A i \in 1 .. k : front[i] = frames[i]
  <2>1. /\ front \in Seq(S) /\ Len(front) = (IF 1 <= k THEN k - 1 + 1 ELSE 0)
        /\ \A i \in 1 .. k - 1 + 1 : front[i] = frames[1 + i - 1]
    BY ONLY <1>3, SubSeqProperties
  <2>2. k - 1 + 1 = k /\ 1 <= k
    BY <1>1
  <2>3. \A i \in 1 .. k : 1 + i - 1 = i
    OBVIOUS
  <2> HIDE DEF front
  <2> QED BY <2>1, <2>2, <2>3
<1>5. /\ back \in Seq(S) /\ Len(back) = n - k + 1
      /\ \A i \in 1 .. n - k + 1 : back[i] = frames[k + i - 1]
  <2>1. /\ back \in Seq(S) /\ Len(back) = (IF k <= n THEN n - k + 1 ELSE 0)
        /\ \A i \in 1 .. n - k + 1 : back[i] = frames[k + i - 1]
    BY ONLY <1>3, SubSeqProperties
  <2> HIDE DEF back
  <2> QED BY <1>1, <2>1
<1>6. Twice(frames, k) = front \o back
  BY DEF Twice, n
<1> HIDE DEF front, back
<1>7. /\ Len(front \o back) = Len(front) + Len(back)
      /\ \A i \in 1 .. Len(front) + Len(back) :
            (front \o back)[i] = IF i <= Len(front) THEN front[i] ELSE back[i - Len(front)]
  BY ONLY <1>4, <1>5, ConcatProperties
<1>8. ASSUME NEW i \in 1 .. n + 1
      PROVE  (front \o back)[i] = IF i <= k THEN frames[i] ELSE frames[i - 1]
  <2>1. Len(front) + Len(back) = n + 1
    BY <1>1, <1>4, <1>5
  <2>2. CASE i <= k
    BY <1>1, <1>4, <1>7, <2>1, <2>2
  <2>3. CASE i > k
    <3>1. i - k \in 1 .. n - k + 1 /\ k + (i - k) - 1 = i - 1 /\ ~(i <= k)
      BY <1>1, <2>3
    <3>2. (front \o back)[i] = back[i - k]
      BY <1>4, <1>7, <2>1, <3>1
    <3>3. back[i - k] = frames[k + (i - k) - 1]
      BY <1>5, <3>1
    <3> QED BY <3>1, <3>2, <3>3
  <2>4. i <= k \/ i > k
    BY ONLY <1>3, i \in 1 .. n + 1, SMT
  <2> QED BY ONLY <2>2, <2>3, <2>4
<1>9. /\ k \in 1 .. n /\ Len(Twice(frames, k)) = n + 1
      /\ \A i \in 1 .. n + 1 : Twice(frames, k)[i] = IF i <= k THEN frames[i] ELSE frames[i - 1]
  BY ONLY <1>1, <1>6, <1>8
<1> QED BY ONLY <1>9, Zenon DEF n
-----------------------------------------------------------------------------
LEMMA MishapsStay == [Next]_vars => mishaps \subseteq mishaps'
BY DEF Next, Continue, vars, wires, Decline, Take, Wait, GiveUp, TimeUp,
       ReceiveFails, Send, Serve, Notify, Fault

\* Steps that take nothing, send nothing and end no call.
LEMMA QuietStep ==
    ASSUME Ordered, UNCHANGED <<requests, frames, calls, lag>>,
           \A c \in Callers : pc'[c] = "idle" <=> pc[c] = "idle",
           \A c \in Callers : pc[c] # "idle" => call'[c] = call[c]
    PROVE  Ordered'
<1>1. Line' = Line /\ Size' = Size
  BY DEF Line, Size
<1>2. Due' = Due
  BY DEF Due
<1>3. Lined(Line, Size, calls, Due, lag)' <=> Lined(Line, Size, calls, Due, lag)
  BY <1>1, <1>2 DEF Lined
<1> QED BY <1>3 DEF Ordered

LEMMA OrderedTake ==
    ASSUME Inv, TypeOK', Ordered, NEW c \in Callers, Take(c)
    PROVE  Ordered' /\ lag' >= lag
<1>1. /\ pc[c] = "locking" /\ pc' = [pc EXCEPT ![c] = "idle"]
      /\ frames # <<>> /\ frames' = Tail(frames)
      /\ UNCHANGED <<requests, call, calls>> /\ call[c] \in Messages
      /\ TypeOK /\ pc \in [Callers -> {"idle", "locking", "waiting"}]
  BY DEF Take, Leave, Inv, InProgress, TypeOK
<1>2. \A d \in Callers : pc[d] # "idle" => d = c
  BY <1>1 DEF Ordered
<1>3. \A d \in Callers : pc'[d] = "idle"
  BY <1>1, <1>2
<1>4. Due = calls /\ Due' = calls + 1
  BY <1>1, <1>3 DEF Due
<1>5. /\ Size \in Nat \ {0} /\ Size' = Size - 1 /\ Line[1] = Head(frames)
      /\ \A i \in 1 .. Size - 1 : Line'[i] = Line[i + 1]
  BY <1>1, LineTaken
<1>6. Line \in Lines(Size) /\ calls \in Nat /\ lag \in Int
  BY <1>1, LineType
<1>7. Line' \in Lines(Size - 1)
  <2>1. Line' \in Lines(Size')
    BY LineTypeAfter
  <2> QED BY <1>5, <2>1 DEF Lines
<1>8. lag' = lag \/ (Line[1] # Foreign /\ lag' = calls - Line[1].num)
  <2>1. CASE Judge(call[c], Head(frames)) = "Ok"
    <3>1. Head(frames) \in Messages
      BY <1>1, <2>1, HeadFrame, JudgeSound
    <3>2. lag' = call[c].num - Head(frames).num
      BY <2>1 DEF Take
    <3>3. call[c].num = calls
      BY <1>1 DEF Ordered
    <3> QED BY <1>5, <3>1, <3>2, <3>3
  <2>2. CASE Judge(call[c], Head(frames)) # "Ok"
    BY <2>2 DEF Take
  <2> QED BY <2>1, <2>2
<1>9. lag' \in Int
  BY DEF TypeOK
<1>10. Lined(Line, Size, calls, calls, lag)
  BY <1>4 DEF Ordered
<1> HIDE DEF Line, Size
<1>11. Lined(Line', Size - 1, calls, calls + 1, lag') /\ lag' >= lag
  BY <1>5, <1>6, <1>7, <1>8, <1>9, <1>10, LinedTaken
<1>12. Lined(Line, Size, calls, Due, lag)'
  BY <1>1, <1>4, <1>5, <1>11
<1> QED BY <1>3, <1>11, <1>12 DEF Ordered

LEMMA OrderedGiveUp ==
    ASSUME Inv, Ordered, NEW c \in Callers, GiveUp(c) \/ ReceiveFails(c)
    PROVE  Ordered'
<1>1. /\ pc[c] # "idle" /\ pc' = [pc EXCEPT ![c] = "idle"]
      /\ UNCHANGED <<requests, frames, calls, lag>>
      /\ TypeOK /\ pc \in [Callers -> {"idle", "locking", "waiting"}]
  BY DEF GiveUp, ReceiveFails, Leave, wires, Inv, TypeOK
<1>2. \A d \in Callers : pc[d] # "idle" => d = c
  BY <1>1 DEF Ordered
<1>3. \A d \in Callers : pc'[d] = "idle"
  BY <1>1, <1>2
<1>4. Due = calls /\ Due' = calls + 1
  BY <1>1, <1>3 DEF Due
<1>5. Line' = Line /\ Size' = Size
  BY <1>1 DEF Line, Size
<1>6. Size \in Nat /\ Line \in Lines(Size) /\ calls \in Nat /\ lag \in Int
  BY <1>1, LineType
<1>7. Lined(Line, Size, calls, calls, lag)
  BY <1>4 DEF Ordered
<1>8. Lined(Line, Size, calls, calls + 1, lag)
  BY <1>6, <1>7, LinedLater
<1>9. Lined(Line, Size, calls, Due, lag)'
  BY <1>1, <1>4, <1>5, <1>8
<1> QED BY <1>3, <1>9 DEF Ordered

LEMMA OrderedSend ==
    ASSUME Inv, TypeOK', Ordered, Undisturbed', NEW c \in Callers, NEW header \in Headers,
           Send(c, header)
    PROVE  Ordered'
<1> DEFINE message == [header |-> header, num |-> calls + 1]
<1>1. /\ \A d \in Callers : pc[d] = "idle"
      /\ requests' = Append(requests, message) /\ call' = [call EXCEPT ![c] = message]
      /\ pc' = [pc EXCEPT ![c] = "locking"] /\ calls' = calls + 1
      /\ UNCHANGED <<frames, lag>>
  BY DEF Send, Undisturbed
<1>2. /\ TypeOK /\ pc \in [Callers -> {"idle", "locking", "waiting"}]
      /\ call \in [Callers -> Messages \cup {Foreign}]
      /\ calls \in Nat /\ lag \in Int /\ Size \in Nat /\ Line \in Lines(Size)
  BY LineType DEF Inv, TypeOK
<1>3. message \in Messages /\ message.num = calls + 1 /\ message # Foreign
  BY <1>2 DEF Messages
<1> HIDE DEF message
<1>4. /\ Size' = Size + 1 /\ Line'[Size + 1] = message
      /\ \A i \in 1 .. Size : Line'[i] = Line[i]
  BY <1>1, <1>2, <1>3, LineSent
<1>5. Line' \in Lines(Size + 1)
  <2>1. Line' \in Lines(Size')
    BY LineTypeAfter
  <2> QED BY <1>4, <2>1 DEF Lines
<1>6. Due = calls + 1 /\ Due' = calls + 1
  BY <1>1, <1>2 DEF Due
<1>7. Lined(Line, Size, calls, calls + 1, lag)
  BY <1>6 DEF Ordered
<1>8. Lined(Line', Size + 1, calls + 1, calls + 1, lag)
  BY <1>2, <1>3, <1>4, <1>5, <1>7, LinedSent
<1>9. Lined(Line, Size, calls, Due, lag)'
  BY <1>1, <1>4, <1>6, <1>8
<1>10. \A d \in Callers : pc'[d] # "idle" => d = c /\ call'[d].num = calls'
  BY <1>1, <1>2, <1>3
<1> QED BY <1>9, <1>10 DEF Ordered

LEMMA OrderedServe ==
    ASSUME Inv, Ordered, Serve
    PROVE  Ordered'
<1>1. UNCHANGED <<pc, call, calls, lag>>
  BY DEF Serve
<1>2. Line' = Line /\ Size' = Size
  BY LineServed DEF Inv
<1>3. Due' = Due
  BY <1>1 DEF Due
<1>4. Lined(Line, Size, calls, Due, lag)'
  BY <1>1, <1>2, <1>3 DEF Ordered
<1> QED BY <1>1, <1>4 DEF Ordered

LEMMA OrderedFault ==
    ASSUME Inv, TypeOK', Ordered, Undisturbed', NEW kind \in Faults, Fault(kind)
    PROVE  Ordered'
<1>1. TypeOK /\ UNCHANGED <<requests, pc, call, calls, lag>> /\ kind \notin {"lose", "reorder"}
  BY DEF Inv, Fault, Undisturbed
<1>2. /\ Size \in Nat /\ Line \in Lines(Size) /\ calls \in Nat /\ lag \in Int
      /\ Len(frames) \in Nat
  BY <1>1, LineType
<1>3. Due' = Due /\ Due \in Int
  BY <1>1, <1>2 DEF Due
<1>4. ASSUME NEW f \in 0 .. Len(frames), Len(frames') = Len(frames) + 1,
             \A i \in 1 .. Len(frames) + 1 :
                frames'[i] = IF i <= f THEN frames[i]
                             ELSE IF i = f + 1 THEN frames'[f + 1] ELSE frames[i - 1],
             frames'[f + 1] = Foreign \/ (f >= 1 /\ frames'[f + 1] = frames[f])
      PROVE  Ordered'
  <2>1. /\ Size' = Size + 1 /\ f \in 0 .. Size
        /\ Line'[f + 1] = frames'[f + 1] /\ (f >= 1 => Line[f] = frames[f])
        /\ \A i \in 1 .. Size + 1 : Line'[i] = IF i <= f THEN Line[i]
                                             ELSE IF i = f + 1 THEN Line'[f + 1]
                                             ELSE Line[i - 1]
    BY <1>1, <1>4, LineGrown
  <2>2. Line' \in Lines(Size + 1)
    <3>1. Line' \in Lines(Size')
      BY LineTypeAfter
    <3> QED BY <2>1, <3>1 DEF Lines
  <2>3. Line'[f + 1] = Foreign \/ (f >= 1 /\ Line'[f + 1] = Line[f])
    BY <1>4, <2>1
  <2>4. Lined(Line, Size, calls, Due, lag)
    BY DEF Ordered
  <2>5. Lined(Line', Size + 1, calls, Due, lag)
    BY <1>2, <1>3, <2>1, <2>2, <2>3, <2>4, LinedGrown
  <2>6. Lined(Line, Size, calls, Due, lag)'
    BY <1>1, <1>3, <2>1, <2>5
  <2> QED BY <1>1, <2>6 DEF Ordered
<1>5. CASE kind = "repeat"
  <2>1. PICK k \in DOMAIN frames : frames' = Twice(frames, k)
    BY <1>5 DEF Fault
  <2>2. /\ k \in 1 .. Len(frames) /\ Len(frames') = Len(frames) + 1
        /\ \A i \in 1 .. Len(frames) + 1 :
              frames'[i] = IF i <= k THEN frames[i] ELSE frames[i - 1]
    BY <1>1, <2>1, RepeatedFrame
  <2>3. k \in 0 .. Len(frames) /\ k >= 1 /\ frames'[k + 1] = frames[k]
    BY <1>2, <2>2
  <2> QED BY <1>4, <2>2, <2>3
<1>6. CASE kind = "foreign"
  <2>1. frames' = Append(frames, Foreign)
    BY <1>6 DEF Fault, Arrive
  <2>2. /\ Len(frames') = Len(frames) + 1 /\ frames'[Len(frames) + 1] = Foreign
        /\ \A i \in 1 .. Len(frames) : frames'[i] = frames[i]
    BY <1>1, <2>1 DEF TypeOK
  <2> QED BY <1>2, <1>4, <2>2
<1> QED BY <1>1, <1>5, <1>6 DEF Fault

LEMMA InOrderStep ==
    ASSUME Inv, TypeOK', InOrder, [Next]_vars
    PROVE  InOrder' /\ (Undisturbed' => lag' >= lag)
<1> SUFFICES ASSUME Undisturbed' PROVE Ordered' /\ lag' >= lag
  BY DEF InOrder
<1>1. Ordered
  BY MishapsStay DEF InOrder, Undisturbed
<1>2. lag \in Int /\ pc \in [Callers -> {"idle", "locking", "waiting"}]
  BY DEF Inv, TypeOK
<1>3. CASE UNCHANGED vars
  BY <1>1, <1>2, <1>3, QuietStep DEF vars
<1>4. ASSUME NEW c \in Callers, NEW error \in {"Timeout", "Other"}, Decline(c, error)
      PROVE  Ordered' /\ lag' >= lag
  <2>1. \A d \in Callers : pc[d] # "idle" => call'[d] = call[d]
    BY <1>4 DEF Decline, Inv, TypeOK
  <2> QED BY <1>1, <1>2, <1>4, <2>1, QuietStep DEF Decline, wires
<1>5. ASSUME NEW c \in Callers, Take(c) PROVE Ordered' /\ lag' >= lag
  BY <1>1, <1>5, OrderedTake
<1>6. ASSUME NEW c \in Callers, Wait(c) PROVE Ordered' /\ lag' >= lag
  BY <1>1, <1>2, <1>6, QuietStep DEF Wait, wires
<1>7. ASSUME NEW c \in Callers, GiveUp(c) \/ ReceiveFails(c) PROVE Ordered' /\ lag' >= lag
  <2>1. lag' = lag
    BY <1>7 DEF GiveUp, ReceiveFails
  <2> QED BY <1>1, <1>2, <1>7, <2>1, OrderedGiveUp
<1>8. ASSUME NEW c \in Callers, TimeUp(c) PROVE Ordered' /\ lag' >= lag
  BY <1>1, <1>2, <1>8, QuietStep DEF TimeUp, wires
<1>9. ASSUME NEW c \in Callers, NEW header \in Headers, Send(c, header)
      PROVE  Ordered' /\ lag' >= lag
  <2>1. lag' = lag
    BY <1>9 DEF Send
  <2> QED BY <1>1, <1>2, <1>9, <2>1, OrderedSend
<1>10. CASE Serve
  <2>1. lag' = lag
    BY <1>10 DEF Serve
  <2> QED BY <1>1, <1>2, <1>10, <2>1, OrderedServe
<1>11. CASE Notify
  BY <1>1, <1>2, <1>11, QuietStep DEF Notify
<1>12. ASSUME NEW kind \in Faults, Fault(kind) PROVE Ordered' /\ lag' >= lag
  <2>1. lag' = lag
    BY <1>12 DEF Fault
  <2> QED BY <1>1, <1>2, <1>12, <2>1, OrderedFault
<1> QED BY <1>3, <1>4, <1>5, <1>6, <1>7, <1>8, <1>9, <1>10, <1>11, <1>12 DEF Next, Continue

LEMMA InitInOrder == Init => InOrder
<1> SUFFICES ASSUME Init PROVE Ordered
  BY DEF InOrder
<1>1. Size = 0 /\ Due = 1 /\ calls = 0 /\ lag = 0 /\ \A c \in Callers : pc[c] = "idle"
  BY DEF Init, Size, Due
<1> HIDE DEF Size, Line, Due
<1>2. Lined(Line, 0, 0, 1, 0)
  BY DEF Lined
<1> QED BY <1>1, <1>2 DEF Ordered

(* A caller that gives up leaves the answer to be taken by its next call,   *)
(* and nothing but a loss, a swap or a second caller ever makes good for    *)
(* it: calling again does not (udp.rs, shmem.rs, l2.rs, tlstransport.rs).   *)
THEOREM RetriesDoNotResynchronise == Spec => LagNeverShrinks
<1>1. Inv /\ Inv' /\ InOrder /\ [Next]_vars => InOrder' /\ (Undisturbed' => lag' >= lag)
  BY InOrderStep DEF Inv
<1>2. Inv /\ Inv' /\ InOrder /\ [Next]_vars =>
        [mishaps' \cap {"lose", "reorder", "overlap"} = {} => lag' >= lag]_vars
  BY <1>1 DEF Undisturbed
<1> QED BY <1>1, <1>2, Invariant, InitInOrder, PTL DEF Spec, LagNeverShrinks

-----------------------------------------------------------------------------
(* Every request has a number of its own, and as long as no frame is        *)
(* repeated a number is in one place: on the wires, or with one caller.     *)
Apart(line, n, given, sent) ==
    /\ \A i, j \in 1 .. n : i # j /\ line[i] # Foreign /\ line[j] # Foreign =>
          line[i].num # line[j].num
    /\ \A i \in 1 .. n : line[i] # Foreign => line[i].num <= sent
    /\ \A c \in Callers : given[c] # Foreign =>
          /\ given[c].num <= sent
          /\ \A i \in 1 .. n : line[i] # Foreign => line[i].num # given[c].num
    /\ \A c, d \in Callers : c # d /\ given[c] # Foreign /\ given[d] # Foreign =>
          given[c].num # given[d].num

Unrepeated == "repeat" \notin mishaps => Apart(Line, Size, answer, calls)

\* Frame i of a line of m was frame from[i] of the line of n, if it is a message.
MovedFrom(from, moved, m, line, n) ==
    /\ \A i \in 1 .. m : moved[i] # Foreign => from[i] \in 1 .. n /\ moved[i] = line[from[i]]
    /\ \A i, j \in 1 .. m : i # j /\ moved[i] # Foreign /\ moved[j] # Foreign => from[i] # from[j]

\* Frames that move, or disappear, stay apart; so do answers that are forgotten.
LEMMA ApartMoved ==
    ASSUME NEW line, NEW n \in Nat, NEW given, NEW sent \in Nat, Apart(line, n, given, sent),
           NEW moved, NEW m \in Nat, NEW from, MovedFrom(from, moved, m, line, n),
           NEW now, \A c \in Callers : now[c] # Foreign => now[c] = given[c]
    PROVE  Apart(moved, m, now, sent)
<1> USE DEF MovedFrom
<1>1. \A i, j \in 1 .. m : i # j /\ moved[i] # Foreign /\ moved[j] # Foreign =>
         moved[i].num # moved[j].num
  BY DEF Apart
<1>2. \A i \in 1 .. m : moved[i] # Foreign => moved[i].num <= sent
  BY DEF Apart
<1>3. ASSUME NEW c \in Callers, now[c] # Foreign
      PROVE  /\ now[c].num <= sent
             /\ \A i \in 1 .. m : moved[i] # Foreign => moved[i].num # now[c].num
  BY <1>3 DEF Apart
<1>4. \A c, d \in Callers : c # d /\ now[c] # Foreign /\ now[d] # Foreign => now[c].num # now[d].num
  BY DEF Apart
<1> QED BY <1>1, <1>2, <1>3, <1>4 DEF Apart

\* The first frame goes to one caller, or to nobody.
LEMMA ApartTaken ==
    ASSUME NEW n \in Nat \ {0}, NEW line \in Lines(n), NEW shorter, NEW sent \in Nat,
           NEW given \in [Callers -> Messages \cup {Foreign}], Apart(line, n, given, sent),
           \A i \in 1 .. n - 1 : shorter[i] = line[i + 1],
           NEW c \in Callers, NEW frame \in {line[1], Foreign}
    PROVE  Apart(shorter, n - 1, [given EXCEPT ![c] = frame], sent)
<1> DEFINE now == [given EXCEPT ![c] = frame]
<1>1. now[c] = frame /\ \A d \in Callers : d # c => now[d] = given[d]
  OBVIOUS
<1> HIDE DEF now
<1>2. 1 \in 1 .. n /\ \A i \in 1 .. n - 1 : i + 1 \in 1 .. n /\ i + 1 # 1
  OBVIOUS
<1>3. \A i, j \in 1 .. n - 1 : i # j => i + 1 # j + 1
  OBVIOUS
<1>4. \A i, j \in 1 .. n - 1 : i # j /\ shorter[i] # Foreign /\ shorter[j] # Foreign =>
         shorter[i].num # shorter[j].num
  BY <1>2, <1>3 DEF Apart
<1>5. \A i \in 1 .. n - 1 : shorter[i] # Foreign => shorter[i].num <= sent
  BY <1>2 DEF Apart
<1>6. ASSUME NEW d \in Callers, now[d] # Foreign
      PROVE  /\ now[d].num <= sent
             /\ \A i \in 1 .. n - 1 : shorter[i] # Foreign => shorter[i].num # now[d].num
  <2>1. CASE d = c
    BY <1>1, <1>2, <1>6, <2>1 DEF Apart
  <2>2. CASE d # c
    BY <1>1, <1>2, <1>6, <2>2 DEF Apart
  <2> QED BY <2>1, <2>2
<1>7. \A d, e \in Callers : d # e /\ now[d] # Foreign /\ now[e] # Foreign => now[d].num # now[e].num
  BY <1>1, <1>2 DEF Apart
<1>8. Apart(shorter, n - 1, now, sent)
  BY <1>4, <1>5, <1>6, <1>7 DEF Apart
<1> QED BY <1>8 DEF now

\* A new request has a number nothing has yet.
LEMMA ApartSent ==
    ASSUME NEW n \in Nat, NEW line \in Lines(n), NEW longer, NEW sent \in Nat,
           NEW given \in [Callers -> Messages \cup {Foreign}], Apart(line, n, given, sent),
           \A i \in 1 .. n : longer[i] = line[i], longer[n + 1] # Foreign,
           longer[n + 1].num = sent + 1, NEW c \in Callers
    PROVE  Apart(longer, n + 1, [given EXCEPT ![c] = Foreign], sent + 1)
<1> DEFINE now == [given EXCEPT ![c] = Foreign]
<1>1. \A d \in Callers : now[d] # Foreign => now[d] = given[d] /\ given[d].num \in Nat
  BY DEF Messages
<1> HIDE DEF now
<1>2. \A i \in 1 .. n : line[i] # Foreign => line[i].num \in Nat
  BY DEF Lines, Messages
<1>3. \A i \in 1 .. n + 1 : i \in 1 .. n \/ i = n + 1
  OBVIOUS
<1>4. \A i \in 1 .. n : line[i] # Foreign => line[i].num <= sent /\ line[i].num # sent + 1
  BY <1>2 DEF Apart
<1>5. \A i, j \in 1 .. n + 1 : i # j /\ longer[i] # Foreign /\ longer[j] # Foreign =>
         longer[i].num # longer[j].num
  BY <1>3, <1>4 DEF Apart
<1>6. \A i \in 1 .. n + 1 : longer[i] # Foreign => longer[i].num <= sent + 1
  BY <1>2, <1>3, <1>4
<1>7. ASSUME NEW d \in Callers, now[d] # Foreign
      PROVE  /\ now[d].num <= sent + 1
             /\ \A i \in 1 .. n + 1 : longer[i] # Foreign => longer[i].num # now[d].num
  <2>1. now[d] = given[d] /\ now[d].num \in Nat /\ now[d].num <= sent
    BY <1>1, <1>7 DEF Apart
  <2>2. now[d].num <= sent + 1 /\ now[d].num # sent + 1
    BY <2>1
  <2> QED BY <1>3, <1>7, <2>1, <2>2 DEF Apart
<1>8. \A d, e \in Callers : d # e /\ now[d] # Foreign /\ now[e] # Foreign => now[d].num # now[e].num
  BY <1>1 DEF Apart
<1>9. Apart(longer, n + 1, now, sent + 1)
  BY <1>5, <1>6, <1>7, <1>8 DEF Apart
<1> QED BY <1>9 DEF now

\* Steps that leave the wires as they are and give nobody an answer.
LEMMA ApartQuiet ==
    ASSUME TypeOK, Apart(Line, Size, answer, calls), Line' = Line, Size' = Size, calls' = calls,
           \A c \in Callers : answer'[c] # Foreign => answer'[c] = answer[c]
    PROVE  Apart(Line, Size, answer, calls)'
<1>1. Size \in Nat /\ calls \in Nat
  BY LineType
<1>2. Apart(Line', Size, answer', calls)
  BY <1>1 DEF Apart
<1> QED BY <1>2

\* The medium moves frames, drops some, and adds some that do not decode.
LEMMA ApartFrames ==
    ASSUME TypeOK, TypeOK', Apart(Line, Size, answer, calls),
           UNCHANGED <<requests, answer, calls>>, NEW g,
           MovedFrom(g, frames', Len(frames'), frames, Len(frames))
    PROVE  Apart(Line, Size, answer, calls)'
<1> DEFINE n == Len(frames)
           k == Len(frames')
           m == Len(requests)
           moved == Line'
           from == [i \in 1 .. k + m |-> IF i <= k THEN g[i] ELSE (i - k) + n]
<1>1. /\ n \in Nat /\ k \in Nat /\ m \in Nat /\ calls \in Nat
      /\ Size = n + m /\ Size' = k + m
  BY LineType DEF TypeOK, Size
<1>2. \A i \in 1 .. n + m : Line[i] = IF i <= n THEN frames[i] ELSE requests[i - n]
  BY <1>1, LineType
<1>3. \A i \in 1 .. k + m : moved[i] = IF i <= k THEN frames'[i] ELSE requests[i - k]
  BY <1>1 DEF Line
<1>4. \A i \in 1 .. k + m : from[i] = IF i <= k THEN g[i] ELSE (i - k) + n
  OBVIOUS
<1>5. \A i \in 1 .. k : frames'[i] # Foreign => g[i] \in 1 .. n /\ frames'[i] = frames[g[i]]
  BY DEF MovedFrom
<1>6. \A i, j \in 1 .. k : i # j /\ frames'[i] # Foreign /\ frames'[j] # Foreign => g[i] # g[j]
  BY DEF MovedFrom
<1> HIDE DEF n, k, m, moved, from
<1>7. ASSUME NEW i \in 1 .. k + m
      PROVE  \/ i \in 1 .. k /\ i <= k /\ moved[i] = frames'[i] /\ from[i] = g[i]
             \/ i > k /\ ~(i <= k) /\ moved[i] = requests[i - k] /\ from[i] = (i - k) + n
  <2>1. CASE i <= k
    <3>1. i \in 1 .. k
      BY <1>1, <2>1
    <3> QED BY <1>3, <1>4, <2>1, <3>1
  <2>2. CASE ~(i <= k)
    <3>1. i > k
      BY <1>1, <2>2
    <3> QED BY <1>3, <1>4, <2>2, <3>1
  <2> QED BY <2>1, <2>2
<1>8. ASSUME NEW i \in 1 .. k + m, moved[i] # Foreign
      PROVE  from[i] \in 1 .. n + m /\ moved[i] = Line[from[i]]
  <2>1. CASE i \in 1 .. k /\ moved[i] = frames'[i] /\ from[i] = g[i]
    <3>1. g[i] \in 1 .. n /\ frames'[i] = frames[g[i]]
      BY <1>5, <1>8, <2>1
    <3>2. g[i] \in 1 .. n + m /\ g[i] <= n
      BY <1>1, <3>1
    <3> QED BY <1>2, <2>1, <3>1, <3>2
  <2>2. CASE i > k /\ moved[i] = requests[i - k] /\ from[i] = (i - k) + n
    <3>1. (i - k) + n \in 1 .. n + m /\ ~((i - k) + n <= n) /\ ((i - k) + n) - n = i - k
      BY <1>1, <2>2
    <3> QED BY <1>2, <2>2, <3>1
  <2> QED BY <1>7, <2>1, <2>2
<1>9. ASSUME NEW i \in 1 .. k + m, NEW j \in 1 .. k + m, i # j,
             moved[i] # Foreign, moved[j] # Foreign
      PROVE  from[i] # from[j]
  <2>1. ASSUME NEW a \in 1 .. k + m, moved[a] # Foreign, a <= k
        PROVE  /\ a \in 1 .. k /\ from[a] = g[a] /\ frames'[a] # Foreign
               /\ g[a] \in Int /\ g[a] <= n
    <3>1. a \in 1 .. k /\ moved[a] = frames'[a] /\ from[a] = g[a]
      BY <1>7, <2>1
    <3>2. g[a] \in 1 .. n
      BY <1>5, <2>1, <3>1
    <3> QED BY <1>1, <2>1, <3>1, <3>2
  <2>2. ASSUME NEW a \in 1 .. k + m, ~(a <= k)
        PROVE  a > k /\ from[a] = (a - k) + n
    BY <1>7, <2>2
  <2>3. CASE i <= k /\ j <= k
    BY <1>6, <1>9, <2>1, <2>3
  <2>4. CASE i <= k /\ ~(j <= k)
    <3>1. from[i] = g[i] /\ g[i] \in Int /\ g[i] <= n /\ j > k /\ from[j] = (j - k) + n
      BY <1>9, <2>1, <2>2, <2>4
    <3> QED BY <1>1, <3>1
  <2>5. CASE ~(i <= k) /\ j <= k
    <3>1. from[j] = g[j] /\ g[j] \in Int /\ g[j] <= n /\ i > k /\ from[i] = (i - k) + n
      BY <1>9, <2>1, <2>2, <2>5
    <3> QED BY <1>1, <3>1
  <2>6. CASE ~(i <= k) /\ ~(j <= k)
    <3>1. from[i] = (i - k) + n /\ from[j] = (j - k) + n
      BY <2>2, <2>6
    <3> QED BY <1>1, <1>9, <3>1
  <2> QED BY <2>3, <2>4, <2>5, <2>6
<1>10. n + m \in Nat /\ k + m \in Nat /\ Apart(Line, n + m, answer, calls)
  BY <1>1
<1> DEFINE line == Line
           now == answer'
<1>11. \A c \in Callers : now[c] # Foreign => now[c] = answer[c]
  OBVIOUS
<1> HIDE DEF line, now
<1>12. Apart(moved, k + m, now, calls)
  <2> DEFINE size == n + m
             rest == k + m
  <2>1. /\ size \in Nat /\ rest \in Nat /\ Apart(line, size, answer, calls)
        /\ MovedFrom(from, moved, rest, line, size)
    BY <1>8, <1>9, <1>10 DEF line, MovedFrom
  <2> HIDE DEF size, rest
  <2>2. Apart(moved, rest, now, calls)
    BY ONLY <1>1, <1>11, <2>1, ApartMoved
  <2> QED BY <2>2 DEF rest
<1> QED BY <1>1, <1>12 DEF moved, now

\* What follows a lost frame moves up.
LEMMA LostFrame ==
    ASSUME TypeOK, NEW k \in DOMAIN frames
    PROVE  /\ k \in 1 .. Len(frames) /\ Len(Without(frames, k)) = Len(frames) - 1
           /\ \A i \in 1 .. Len(frames) - 1 :
                 Without(frames, k)[i] = IF i < k THEN frames[i] ELSE frames[i + 1]
<1> DEFINE S == Messages \cup {Foreign}
           n == Len(frames)
<1>1. /\ frames \in Seq(S) /\ n \in Nat /\ DOMAIN frames = 1 .. n /\ k \in 1 .. n
      /\ Len(Without(frames, k)) = n - 1
  BY EditedFrames DEF TypeOK
<1>2. \A j \in 1 .. n : frames[j] \in S
  BY <1>1
<1> HIDE DEF S, n
<1>3. /\ \A j \in 1 .. k - 1 : frames[j] \in S
      /\ \A j \in k + 1 .. n : frames[j] \in S
      /\ 1 \in Int /\ k - 1 \in Int /\ k + 1 \in Int /\ n \in Int
  BY <1>1, <1>2
<1> DEFINE front == SubSeq(frames, 1, k - 1)
           back == SubSeq(frames, k + 1, n)
<1>4. /\ front \in Seq(S) /\ Len(front) = k - 1
      /\ \A i \in 1 .. k - 1 : front[i] = frames[i]
  <2>1. /\ front \in Seq(S) /\ Len(front) = (IF 1 <= k - 1 THEN (k - 1) - 1 + 1 ELSE 0)
        /\ \A i \in 1 .. (k - 1) - 1 + 1 : front[i] = frames[1 + i - 1]
    BY ONLY <1>3, SubSeqProperties
  <2>2. (k - 1) - 1 + 1 = k - 1 /\ (~(1 <= k - 1) => k - 1 = 0)
    BY <1>1
  <2>3. \A i \in 1 .. k - 1 : 1 + i - 1 = i
    OBVIOUS
  <2> HIDE DEF front
  <2> QED BY <2>1, <2>2, <2>3
<1>5. /\ back \in Seq(S) /\ Len(back) = n - k
      /\ \A i \in 1 .. n - k : back[i] = frames[k + i]
  <2>1. /\ back \in Seq(S) /\ Len(back) = (IF k + 1 <= n THEN n - (k + 1) + 1 ELSE 0)
        /\ \A i \in 1 .. n - (k + 1) + 1 : back[i] = frames[(k + 1) + i - 1]
    BY ONLY <1>3, SubSeqProperties
  <2>2. n - (k + 1) + 1 = n - k /\ (~(k + 1 <= n) => n - k = 0)
    BY <1>1
  <2>3. \A i \in 1 .. n - k : (k + 1) + i - 1 = k + i
    BY <1>1
  <2> HIDE DEF back
  <2> QED BY <2>1, <2>2, <2>3
<1>6. Without(frames, k) = front \o back
  BY DEF Without, n
<1> HIDE DEF front, back
<1>7. \A i \in 1 .. Len(front) + Len(back) :
         (front \o back)[i] = IF i <= Len(front) THEN front[i] ELSE back[i - Len(front)]
  BY ONLY <1>4, <1>5, ConcatProperties
<1>8. ASSUME NEW i \in 1 .. n - 1
      PROVE  (front \o back)[i] = IF i < k THEN frames[i] ELSE frames[i + 1]
  <2>1. i \in 1 .. Len(front) + Len(back) /\ n \in Int /\ k \in Int
    BY <1>1, <1>4, <1>5
  <2>2. CASE i < k
    <3>1. i <= k - 1 /\ i \in 1 .. k - 1
      BY <2>1, <2>2
    <3> QED BY <1>4, <1>7, <2>1, <2>2, <3>1
  <2>3. CASE ~(i < k)
    <3>1. ~(i <= k - 1) /\ i - (k - 1) \in 1 .. n - k /\ k + (i - (k - 1)) = i + 1
      BY <2>1, <2>3
    <3>2. (front \o back)[i] = back[i - (k - 1)]
      BY <1>4, <1>7, <2>1, <3>1
    <3>3. back[i - (k - 1)] = frames[k + (i - (k - 1))]
      BY <1>5, <3>1
    <3> QED BY <2>3, <3>1, <3>2, <3>3
  <2> QED BY ONLY <2>2, <2>3
<1>9. /\ k \in 1 .. n /\ Len(Without(frames, k)) = n - 1
      /\ \A i \in 1 .. n - 1 : Without(frames, k)[i] = IF i < k THEN frames[i] ELSE frames[i + 1]
  BY ONLY <1>1, <1>6, <1>8
<1> QED BY ONLY <1>9, Zenon DEF n

LEMMA UnrepeatedFault ==
    ASSUME TypeOK, TypeOK', Apart(Line, Size, answer, calls), NEW kind \in Faults, Fault(kind),
           kind # "repeat"
    PROVE  Apart(Line, Size, answer, calls)'
<1> DEFINE n == Len(frames)
<1>1. /\ n \in Nat /\ DOMAIN frames = 1 .. n /\ frames \in [1 .. n -> Messages \cup {Foreign}]
      /\ UNCHANGED <<requests, answer, calls>>
  BY DEF Fault, TypeOK
<1>2. CASE kind = "lose"
  <2>1. PICK k \in DOMAIN frames : frames' = Without(frames, k)
    BY <1>2 DEF Fault
  <2> DEFINE g == [i \in 1 .. n - 1 |-> IF i < k THEN i ELSE i + 1]
  <2>2. /\ k \in 1 .. n /\ Len(frames') = n - 1
        /\ \A i \in 1 .. n - 1 : frames'[i] = IF i < k THEN frames[i] ELSE frames[i + 1]
    BY <2>1, LostFrame
  <2>3. \A i \in 1 .. n - 1 : g[i] \in 1 .. n /\ frames'[i] = frames[g[i]]
    BY <1>1, <2>2
  <2>4. \A i, j \in 1 .. n - 1 : i # j => g[i] # g[j]
    BY <1>1, <2>2
  <2> HIDE DEF g
  <2>5. MovedFrom(g, frames', Len(frames'), frames, Len(frames))
    BY <2>2, <2>3, <2>4 DEF MovedFrom
  <2> QED BY <1>1, <2>5, ApartFrames
<1>3. CASE kind = "reorder"
  <2>1. PICK k \in 1 .. n - 1 : frames' = Swapped(frames, k)
    BY <1>3 DEF Fault
  <2> DEFINE g == [i \in 1 .. n |-> IF i = k THEN k + 1 ELSE IF i = k + 1 THEN k ELSE i]
  <2>2. k \in 1 .. n /\ k + 1 \in 1 .. n /\ k # k + 1
    BY <1>1
  <2>3. Len(frames') = n
    BY <1>1, <2>1, <2>2 DEF Swapped
  <2>4. \A i \in 1 .. n : g[i] \in 1 .. n /\ frames'[i] = frames[g[i]]
    BY <1>1, <2>1, <2>2 DEF Swapped
  <2>5. \A i, j \in 1 .. n : i # j => g[i] # g[j]
    BY <1>1, <2>2
  <2> HIDE DEF g
  <2>6. MovedFrom(g, frames', Len(frames'), frames, Len(frames))
    BY <2>3, <2>4, <2>5 DEF MovedFrom
  <2> QED BY <1>1, <2>6, ApartFrames
<1>4. CASE kind = "foreign"
  <2>1. frames' = Append(frames, Foreign)
    BY <1>4 DEF Fault, Arrive
  <2> DEFINE g == [i \in 1 .. n + 1 |-> i]
  <2>2. /\ Len(frames') = n + 1 /\ frames'[n + 1] = Foreign
        /\ \A i \in 1 .. n : frames'[i] = frames[i]
    BY <1>1, <2>1 DEF TypeOK
  <2>3. \A i \in 1 .. n + 1 : g[i] = i /\ (i \in 1 .. n \/ i = n + 1)
    BY <1>1
  <2> HIDE DEF g
  <2>4. MovedFrom(g, frames', Len(frames'), frames, Len(frames))
    BY <2>2, <2>3 DEF MovedFrom
  <2> QED BY <1>1, <2>4, ApartFrames
<1> QED BY <1>2, <1>3, <1>4 DEF Fault

LEMMA UnrepeatedTake ==
    ASSUME Inv, TypeOK', Apart(Line, Size, answer, calls), NEW c \in Callers, Take(c)
    PROVE  Apart(Line, Size, answer, calls)'
<1>1. /\ TypeOK /\ frames # <<>> /\ frames' = Tail(frames) /\ UNCHANGED <<requests, calls>>
      /\ answer \in [Callers -> Messages \cup {Foreign}]
  BY DEF Take, Inv, TypeOK
<1>2. /\ Size \in Nat \ {0} /\ Size' = Size - 1 /\ Line[1] = Head(frames)
      /\ \A i \in 1 .. Size - 1 : Line'[i] = Line[i + 1]
  BY <1>1, LineTaken
<1>3. Line \in Lines(Size) /\ calls \in Nat
  BY <1>1, LineType
<1>4. PICK frame \in {Line[1], Foreign} : answer' = [answer EXCEPT ![c] = frame]
  BY <1>2, TakeEffect
<1> DEFINE n == Size
           line == Line
           rest == Line'
<1> HIDE DEF n, line, rest
<1>5. /\ n \in Nat \ {0} /\ line \in Lines(n) /\ frame \in {line[1], Foreign}
      /\ \A i \in 1 .. n - 1 : rest[i] = line[i + 1]
      /\ Apart(line, n, answer, calls)
  BY <1>2, <1>3 DEF n, line, rest
<1>6. Apart(rest, n - 1, [answer EXCEPT ![c] = frame], calls)
  BY ONLY <1>1, <1>3, <1>5, c \in Callers, ApartTaken
<1> QED BY <1>1, <1>2, <1>4, <1>6 DEF n, line, rest

LEMMA UnrepeatedSend ==
    ASSUME Inv, TypeOK', Apart(Line, Size, answer, calls), NEW c \in Callers,
           NEW header \in Headers, Send(c, header)
    PROVE  Apart(Line, Size, answer, calls)'
<1> DEFINE message == [header |-> header, num |-> calls + 1]
<1>1. /\ TypeOK /\ requests' = Append(requests, message) /\ calls' = calls + 1
      /\ frames' = frames /\ answer' = [answer EXCEPT ![c] = Foreign]
      /\ answer \in [Callers -> Messages \cup {Foreign}]
  BY DEF Send, Inv, TypeOK
<1>2. Size \in Nat /\ Line \in Lines(Size) /\ calls \in Nat
  BY <1>1, LineType
<1>3. message \in Messages /\ message.num = calls + 1 /\ message # Foreign
  BY <1>2 DEF Messages
<1> HIDE DEF message
<1>4. /\ Size' = Size + 1 /\ Line'[Size + 1] = message
      /\ \A i \in 1 .. Size : Line'[i] = Line[i]
  BY <1>1, <1>3, LineSent
<1> DEFINE n == Size
           line == Line
           longer == Line'
<1> HIDE DEF n, line, longer
<1>5. /\ n \in Nat /\ line \in Lines(n) /\ Apart(line, n, answer, calls)
      /\ \A i \in 1 .. n : longer[i] = line[i]
      /\ longer[n + 1] # Foreign /\ longer[n + 1].num = calls + 1
  BY <1>2, <1>3, <1>4 DEF n, line, longer
<1>6. Apart(longer, n + 1, [answer EXCEPT ![c] = Foreign], calls + 1)
  BY ONLY <1>1, <1>2, <1>5, c \in Callers, ApartSent
<1> QED BY <1>1, <1>4, <1>6 DEF n, line, longer

LEMMA UnrepeatedStep ==
    ASSUME Inv, TypeOK', Unrepeated, [Next]_vars
    PROVE  Unrepeated'
<1> SUFFICES ASSUME "repeat" \notin mishaps' PROVE Apart(Line, Size, answer, calls)'
  BY DEF Unrepeated
<1>1. TypeOK /\ Apart(Line, Size, answer, calls)
  BY MishapsStay DEF Unrepeated, Inv
<1>2. ASSUME UNCHANGED <<requests, frames, calls>>,
             \A c \in Callers : answer'[c] # Foreign => answer'[c] = answer[c]
      PROVE  Apart(Line, Size, answer, calls)'
  <2>1. Line' = Line /\ Size' = Size
    BY <1>2 DEF Line, Size
  <2> QED BY <1>1, <1>2, <2>1, ApartQuiet
<1>3. CASE UNCHANGED vars
  BY <1>2, <1>3 DEF vars
<1>4. ASSUME NEW c \in Callers, NEW error \in {"Timeout", "Other"}, Decline(c, error)
      PROVE  Apart(Line, Size, answer, calls)'
  <2>1. \A d \in Callers : answer'[d] # Foreign => answer'[d] = answer[d]
    BY <1>1, <1>4 DEF Decline, TypeOK
  <2> QED BY <1>2, <1>4, <2>1 DEF Decline, wires
<1>5. ASSUME NEW c \in Callers, Take(c) PROVE Apart(Line, Size, answer, calls)'
  BY <1>1, <1>5, UnrepeatedTake
<1>6. ASSUME NEW c \in Callers, Wait(c) \/ GiveUp(c) \/ TimeUp(c) \/ ReceiveFails(c)
      PROVE  Apart(Line, Size, answer, calls)'
  BY <1>2, <1>6 DEF Wait, GiveUp, TimeUp, ReceiveFails, wires
<1>7. ASSUME NEW c \in Callers, NEW header \in Headers, Send(c, header)
      PROVE  Apart(Line, Size, answer, calls)'
  BY <1>1, <1>7, UnrepeatedSend
<1>8. CASE Serve
  <2>1. Line' = Line /\ Size' = Size /\ UNCHANGED <<answer, calls>>
    BY <1>1, <1>8, LineServed DEF Serve
  <2> QED BY <1>1, <2>1, ApartQuiet
<1>9. CASE Notify
  BY <1>2, <1>9 DEF Notify
<1>10. ASSUME NEW kind \in Faults, Fault(kind) PROVE Apart(Line, Size, answer, calls)'
  <2>1. kind # "repeat"
    BY <1>10 DEF Fault
  <2> QED BY <1>1, <1>10, <2>1, UnrepeatedFault
<1> QED BY <1>3, <1>4, <1>5, <1>6, <1>7, <1>8, <1>9, <1>10 DEF Next, Continue

LEMMA InitUnrepeated == Init => Unrepeated
<1> SUFFICES ASSUME Init PROVE Apart(Line, Size, answer, calls)
  BY DEF Unrepeated
<1>1. Size = 0 /\ \A c \in Callers : answer[c] = Foreign
  BY DEF Init, Size
<1> HIDE DEF Size, Line
<1> QED BY <1>1 DEF Apart

(* Who takes a frame takes it away from everybody else: pop_front under the *)
(* mutex of InProcChannel, a read of the socket (shmem.rs, udp.rs, l2.rs).  *)
THEOREM AnswersGoToOneCall == Spec => []AnswersNotShared
<1>1. Inv /\ Inv' /\ Unrepeated /\ [Next]_vars => Unrepeated'
  BY UnrepeatedStep DEF Inv
<1>2. Unrepeated => AnswersNotShared
  BY DEF Unrepeated, Apart, AnswersNotShared
<1> QED BY <1>1, <1>2, Invariant, InitUnrepeated, PTL DEF Spec

-----------------------------------------------------------------------------
(* What keeps a client and its answers together: as long as no call has     *)
(* given up or overlapped another, and nothing has arrived that was not     *)
(* asked for, the wires hold at most the request of the one call in         *)
(* progress, or its answer.  A loss empties them, and one frame has nothing *)
(* to be reordered with.                                                    *)
OnlyGaps == mishaps \subseteq {"lose", "reorder"}

AtMostOwn ==
    /\ \A c, d \in Callers : pc[c] # "idle" /\ pc[d] # "idle" => c = d
    /\ (\A c \in Callers : pc[c] = "idle") => requests = <<>> /\ frames = <<>>
    /\ \A c \in Callers : pc[c] # "idle" =>
          \/ requests = <<call[c]>> /\ frames = <<>>
          \/ requests = <<>> /\ frames = <<call[c]>>
          \/ requests = <<>> /\ frames = <<>>
    /\ \A c \in Callers : pc[c] = "idle" /\ result[c] = "Ok" => answer[c] = call[c]

Paired == OnlyGaps => AtMostOwn

LEMMA PairedStep ==
    ASSUME Inv, Paired, [Next]_vars
    PROVE  Paired'
<1> SUFFICES ASSUME OnlyGaps' PROVE AtMostOwn'
  BY DEF Paired
<1> USE DEF AtMostOwn
<1>1. /\ AtMostOwn /\ TypeOK
      /\ pc \in [Callers -> {"idle", "locking", "waiting"}]
      /\ call \in [Callers -> Messages \cup {Foreign}]
      /\ result \in [Callers -> Outcomes] /\ answer \in [Callers -> Messages \cup {Foreign}]
  BY MishapsStay DEF Paired, OnlyGaps, Inv, TypeOK
<1>2. ASSUME UNCHANGED <<requests, frames, call, result, answer>>,
             \A c \in Callers : pc'[c] = "idle" <=> pc[c] = "idle"
      PROVE  AtMostOwn'
  BY <1>1, <1>2
<1>3. ASSUME NEW c \in Callers, NEW error \in {"Timeout", "Other"}, Decline(c, error)
      PROVE  AtMostOwn'
  BY <1>1, <1>3 DEF Decline, wires
<1>4. ASSUME NEW c \in Callers, Take(c) PROVE AtMostOwn'
  <2>1. /\ pc[c] = "locking" /\ pc' = [pc EXCEPT ![c] = "idle"]
        /\ frames # <<>> /\ frames' = Tail(frames) /\ UNCHANGED <<requests, call>>
    BY <1>4 DEF Take, Leave
  <2>2. frames = <<call[c]>> /\ requests = <<>> /\ call[c] \in Messages
    BY <1>1, <2>1 DEF Inv, InProgress
  <2>3. Head(frames) = call[c] /\ frames' = <<>>
    BY <2>1, <2>2
  <2>4. Judge(call[c], Head(frames)) = "Ok"
    BY <2>2, <2>3, JudgeSound
  <2>5. result' = [result EXCEPT ![c] = "Ok"] /\ answer' = [answer EXCEPT ![c] = call[c]]
    BY <1>4, <2>3, <2>4, TakeEffect
  <2>6. \A d \in Callers : pc'[d] = "idle"
    BY <1>1, <2>1
  <2>7. \A d \in Callers : result'[d] = "Ok" => answer'[d] = call'[d]
    BY <1>1, <2>1, <2>5
  <2> QED BY <2>1, <2>2, <2>3, <2>6, <2>7
<1>5. ASSUME NEW c \in Callers, GiveUp(c) \/ ReceiveFails(c) PROVE FALSE
  BY <1>5 DEF GiveUp, ReceiveFails, OnlyGaps
<1>6. ASSUME NEW c \in Callers, Wait(c) PROVE AtMostOwn'
  BY <1>1, <1>2, <1>6 DEF Wait, wires
<1>7. ASSUME NEW c \in Callers, TimeUp(c) PROVE AtMostOwn'
  BY <1>1, <1>2, <1>7 DEF TimeUp, wires
<1>8. ASSUME NEW c \in Callers, NEW header \in Headers, Send(c, header) PROVE AtMostOwn'
  <2> DEFINE message == [header |-> header, num |-> calls + 1]
  <2>1. \A d \in Callers : pc[d] = "idle"
    BY <1>8 DEF Send, OnlyGaps
  <2>2. /\ requests' = Append(requests, message) /\ call' = [call EXCEPT ![c] = message]
        /\ pc' = [pc EXCEPT ![c] = "locking"] /\ frames' = frames
        /\ result' = [result EXCEPT ![c] = "none"] /\ answer' = [answer EXCEPT ![c] = Foreign]
    BY <1>8 DEF Send
  <2> HIDE DEF message
  <2>3. requests' = <<message>> /\ frames' = <<>>
    <3>1. requests = <<>> /\ frames = <<>>
      BY <1>1, <2>1
    <3>2. Append(<<>>, message) = <<message>>
      OBVIOUS
    <3> QED BY <2>2, <3>1, <3>2
  <2> QED BY <1>1, <2>1, <2>2, <2>3
<1>9. CASE Serve
  <2>1. /\ requests # <<>> /\ requests' = Tail(requests) /\ frames' = Append(frames, Head(requests))
        /\ UNCHANGED <<call, pc, result, answer>>
    BY <1>9 DEF Serve, Arrive
  <2>2. PICK c \in Callers : pc[c] # "idle"
    BY <1>1, <2>1
  <2>3. requests = <<call[c]>> /\ frames = <<>>
    BY <1>1, <2>1, <2>2
  <2>4. requests' = <<>> /\ frames' = <<call[c]>>
    BY <2>1, <2>3
  <2>5. \A d \in Callers : pc[d] # "idle" => d = c
    BY <1>1, <2>2
  <2> QED BY <1>1, <2>1, <2>2, <2>4, <2>5
<1>10. CASE Notify
  BY <1>1, <1>2, <1>10 DEF Notify
<1>11. ASSUME NEW kind \in Faults, Fault(kind) PROVE AtMostOwn'
  <2>1. kind \in {"lose", "reorder"} /\ UNCHANGED <<requests, call, pc, result, answer>>
    BY <1>11 DEF Fault, OnlyGaps
  <2>2. /\ Len(frames) \in {0, 1} /\ DOMAIN frames = 1 .. Len(frames)
        /\ frames \in Seq(Messages \cup {Foreign})
    <3>1. ASSUME \A c \in Callers : pc[c] = "idle"
          PROVE  Len(frames) \in {0, 1}
      <4>1. frames = <<>>
        BY <1>1, <3>1
      <4> QED BY <4>1
    <3>2. ASSUME NEW c \in Callers, pc[c] # "idle"
          PROVE  Len(frames) \in {0, 1}
      <4>1. frames = <<>> \/ frames = <<call[c]>>
        BY <1>1, <3>2
      <4> QED BY <4>1
    <3>3. frames \in Seq(Messages \cup {Foreign})
      BY <1>1 DEF TypeOK
    <3> QED BY <3>1, <3>2, <3>3
  <2>3. kind # "reorder"
    <3>1. 1 .. Len(frames) - 1 = {}
      BY <2>2
    <3> QED BY <1>11, <3>1 DEF Fault
  <2>4. frames' = <<>> /\ kind = "lose"
    <3>1. PICK i \in DOMAIN frames : frames' = Without(frames, i)
      BY <1>11, <2>1, <2>3 DEF Fault
    <3>2. Len(frames') = Len(frames) - 1 /\ frames' \in Seq(Messages \cup {Foreign})
      BY <1>1, <3>1, EditedFrames
    <3>3. Len(frames') = 0
      BY <2>2, <3>1, <3>2
    <3> QED BY <2>1, <2>3, <3>2, <3>3, EmptySeq
  <2>5. frames # <<>>
    BY <1>11, <2>4 DEF Fault
  <2> QED BY <1>1, <2>1, <2>4, <2>5
<1>12. CASE UNCHANGED vars
  BY <1>2, <1>12 DEF vars
<1> QED BY <1>3, <1>4, <1>5, <1>6, <1>7, <1>8, <1>9, <1>10, <1>11, <1>12 DEF Next, Continue

LEMMA InitPaired == Init => Paired
BY DEF Init, Paired, AtMostOwn

(* What the transaction number is for holds until a call gives up, two      *)
(* overlap, or a frame comes that nobody asked for; verify_echo_back does   *)
(* not compare it (acf.rs), so after one of those it need not hold.         *)
THEOREM TransactionsMatchUntilStrays == Spec => [](OnlyGaps => AnswerMatchesTransaction)
<1>1. Inv /\ Paired /\ [Next]_vars => Paired'
  BY PairedStep
<1>2. Paired => (OnlyGaps => AnswerMatchesTransaction)
  BY DEF Paired, AtMostOwn, AnswerMatchesTransaction
<1> QED BY <1>1, <1>2, Invariant, InitPaired, PTL DEF Spec
=============================================================================
