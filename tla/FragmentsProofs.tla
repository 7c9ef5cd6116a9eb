--------------------------- MODULE FragmentsProofs --------------------------
(***************************************************************************)
(* Theorems of Fragments: whatever trains are sent, whatever their number  *)
(* and lengths, and however often the network errs.                        *)
(***************************************************************************)
EXTENDS Fragments, SequenceTheorems, SetInduction

\* Frames a sender makes, as the network may have left them.
Resized(t, i, e) == [Frame(t, i) EXCEPT !.extra = e]
Sent == UNION {{Resized(t, i, e) : i \in DOMAIN Trains[t], e \in Int} :
                  t \in {u \in DOMAIN Trains : Encodable(u)}}

\* The lengths of a sequence of payloads.
Lens(s) == [i \in 1 .. Len(s) |-> s[i].len]

Inv ==
    /\ train \in 1 .. Len(Trains) + 1 /\ fragment \in Nat \ {0} /\ faults \in 0 .. MaxFaults
    /\ train <= Len(Trains) => /\ fragment \in DOMAIN Trains[train]
                               /\ fragment = 1 \/ Encodable(train)
    /\ wire \in Seq(Sent)
    /\ segments \in Seq(Payloads) /\ total_len \in 0 .. MaxRequestSize
    /\ next_expected_segment_num = Len(segments) /\ total_len = Total(Lens(segments))
    /\ \A i \in DOMAIN segments :
         segments[i].of[2] = i /\ segments[i] = Payload(segments[i].of[1], i)
    /\ \A r \in delivered : \E t \in DOMAIN Trains : r = Whole(t) /\ Fits(t)

USE FragmentsAssumption

LEMMA TrainTypes ==
    ASSUME NEW t \in DOMAIN Trains, NEW i \in DOMAIN Trains[t]
    PROVE  /\ Trains[t] \in Seq(Nat) /\ Len(Trains[t]) \in Nat \ {0}
           /\ DOMAIN Trains[t] = 1 .. Len(Trains[t]) /\ i \in Nat \ {0} /\ Trains[t][i] \in Nat
<1>1. Trains[t] \in Seq(Nat) /\ Trains[t] # <<>>
  OBVIOUS
<1> QED BY <1>1

-----------------------------------------------------------------------------
(* Sums. *)

\* Total is what any function that adds the numbers up ends with.
LEMMA TotalIs ==
    ASSUME NEW s \in Seq(Nat), NEW g, IsRunningTotal(g, s, Len(s))
    PROVE  Total(s) = g[Len(s)]
<1> DEFINE n == Len(s)
           body(h) == [i \in 0 .. n |-> IF i = 0 THEN 0 ELSE h[i - 1] + s[i]]
           chosen == CHOOSE h : h = body(h)
<1>1. n \in Nat
  OBVIOUS
<1>2. g = body(g)
  BY <1>1 DEF IsRunningTotal, AddsUp
<1>3. chosen = body(chosen)
  <2> HIDE DEF body
  <2> QED BY <1>2
<1>4. Total(s) = chosen[n]
  BY DEF Total
<1> HIDE DEF chosen
<1>5. AddsUp(chosen, s, n)
  <2>1. \A i \in 0 .. n : chosen[i] = IF i = 0 THEN 0 ELSE chosen[i - 1] + s[i]
    BY ONLY <1>3 DEF body
  <2>2. chosen[0] = 0
    BY ONLY <1>1, <2>1
  <2>3. \A i \in 1 .. n : i \in 0 .. n /\ i # 0
    BY ONLY <1>1
  <2> QED BY ONLY <2>1, <2>2, <2>3 DEF AddsUp
<1>6. chosen[n] = g[n]
  BY <1>1, <1>5, RunningTotalsAgree DEF IsRunningTotal, n
<1> QED BY <1>4, <1>6

LEMMA SeqTotal ==
    ASSUME NEW s \in Seq(Nat)
    PROVE  \E g : IsRunningTotal(g, s, Len(s))
<1>1. Len(s) \in Nat /\ \A i \in 1 .. Len(s) : s[i] \in Nat
  OBVIOUS
<1> QED BY <1>1, RunningTotalExists

LEMMA TotalType == ASSUME NEW s \in Seq(Nat) PROVE Total(s) \in Nat
<1>1. PICK g : IsRunningTotal(g, s, Len(s))
  BY SeqTotal
<1>2. Total(s) = g[Len(s)]
  BY <1>1, TotalIs
<1> QED BY <1>1, <1>2 DEF IsRunningTotal

LEMMA TotalEmpty == Total(<<>>) = 0
<1>1. <<>> \in Seq(Nat) /\ Len(<<>>) = 0
  OBVIOUS
<1>2. PICK g : IsRunningTotal(g, <<>>, Len(<<>>))
  BY <1>1, SeqTotal
<1>3. Total(<<>>) = g[Len(<<>>)]
  BY <1>1, <1>2, TotalIs
<1> QED BY <1>1, <1>2, <1>3 DEF IsRunningTotal, AddsUp

LEMMA TotalAppend ==
    ASSUME NEW s \in Seq(Nat), NEW x \in Nat
    PROVE  Total(Append(s, x)) = Total(s) + x
<1> DEFINE t == Append(s, x)
           n == Len(s)
<1>1. /\ t \in Seq(Nat) /\ n \in Nat /\ Len(t) = n + 1 /\ t[n + 1] = x
      /\ \A i \in 1 .. n : t[i] = s[i]
  OBVIOUS
<1> HIDE DEF t
<1>2. PICK g : IsRunningTotal(g, s, Len(s))
  BY SeqTotal
<1>3. PICK h : IsRunningTotal(h, t, Len(t))
  BY <1>1, SeqTotal
<1> HIDE DEF n
<1>4. h[n + 1] = h[(n + 1) - 1] + t[n + 1]
  <2>1. n + 1 \in 1 .. n + 1
    BY <1>1
  <2> QED BY <1>1, <1>3, <2>1 DEF IsRunningTotal, AddsUp
<1>5. h[n] = g[n]
  <2>1. AddsUp(h, t, n + 1) /\ AddsUp(g, s, n) /\ n + 1 \in Nat /\ n <= n + 1 /\ n <= n
    BY <1>1, <1>2, <1>3 DEF IsRunningTotal, n
  <2> QED BY ONLY <1>1, <2>1, RunningTotalsAgree
<1>6. Total(t) = h[n + 1] /\ Total(s) = g[n]
  BY <1>1, <1>2, <1>3, TotalIs DEF n
<1>7. (n + 1) - 1 = n
  BY <1>1
<1> QED BY <1>1, <1>4, <1>5, <1>6, <1>7 DEF t

\* What comes first adds up to no more than the whole.
LEMMA TotalOfPrefix ==
    ASSUME NEW s \in Seq(Nat), NEW p \in Seq(Nat), Len(p) <= Len(s),
           \A i \in 1 .. Len(p) : p[i] = s[i]
    PROVE  Total(p) <= Total(s)
<1>1. Len(s) \in Nat /\ Len(p) \in Nat /\ \A i \in 1 .. Len(s) : s[i] \in Nat
  OBVIOUS
<1>2. PICK g : IsRunningTotal(g, s, Len(s))
  BY SeqTotal
<1>3. PICK h : IsRunningTotal(h, p, Len(p))
  BY SeqTotal
<1>4. h[Len(p)] = g[Len(p)]
  <2> DEFINE k == Len(p)
             n == Len(s)
  <2>1. /\ k \in Nat /\ n \in Nat /\ k <= k /\ k <= n
        /\ AddsUp(h, p, k) /\ AddsUp(g, s, n) /\ \A i \in 1 .. k : s[i] = p[i]
    BY <1>1, <1>2, <1>3 DEF IsRunningTotal
  <2> HIDE DEF k, n
  <2>2. g[k] = h[k]
    BY ONLY <2>1, RunningTotalsAgree, Z3
  <2> QED BY <2>2 DEF k
<1>5. g[Len(p)] <= g[Len(s)]
  <2>1. Len(p) \in 0 .. Len(s)
    BY <1>1
  <2> QED BY ONLY <1>1, <1>2, <2>1, RunningTotalGrows
<1> QED BY <1>2, <1>3, <1>4, <1>5, TotalIs

-----------------------------------------------------------------------------
(* The payload a header describes is the one the length and the pad were    *)
(* computed from (acf.rs quadlets_and_pad_for_message, described_payload).  *)
LEMMA PadFits ==
    ASSUME NEW n \in Nat
    PROVE  LET lengths == quadlets_and_pad_for_message(n)
           IN  /\ lengths.acf_msg_length \in Nat /\ lengths.pad \in 0 .. 3
               /\ lengths.acf_msg_length * QUADLET_LEN - ACF_ABB_HEADER_LEN - lengths.pad = n
<1> DEFINE total == 8 + n
<1> DEFINE pad == (-total) % 4
<1>1. total \in Nat /\ -total \in Int
  OBVIOUS
<1>2. pad \in 0 .. 3 /\ (total + pad) % 4 = 0
  BY <1>1, Z3
<1> HIDE DEF pad
<1>3. (total + pad) \div 4 \in Nat /\ ((total + pad) \div 4) * 4 = total + pad
  BY <1>1, <1>2, Z3
<1>4. quadlets_and_pad_for_message(n) = [acf_msg_length |-> (total + pad) \div 4, pad |-> pad]
  BY DEF quadlets_and_pad_for_message, ACF_ABB_HEADER_LEN, QUADLET_LEN, pad
<1> QED BY <1>1, <1>2, <1>3, <1>4 DEF ACF_ABB_HEADER_LEN, QUADLET_LEN

\* What can be read off a frame of the sender's.
FrameOf(f, t, i, e) ==
    LET lengths == quadlets_and_pad_for_message(Trains[t][i])
    IN  /\ f.of = <<t, i>> /\ f.segment_num = i - 1 /\ f.ms = (i < Len(Trains[t]))
        /\ f.pad = lengths.pad /\ f.extra = e
        /\ f.acf_msg_length = IF f.ms THEN lengths.acf_msg_length
                                      ELSE lengths.acf_msg_length + 1
        /\ ~f.ms => /\ f.crc # <<>>
                    /\ \A crc : f.crc = <<crc>> => crc.covered = Whole(t)
        /\ DOMAIN f = {"of", "segment_num", "ms", "acf_msg_length", "pad", "crc", "extra"}

LEMMA FrameFields ==
    ASSUME NEW t \in DOMAIN Trains, NEW i \in DOMAIN Trains[t], NEW e \in Int
    PROVE  FrameOf(Resized(t, i, e), t, i, e)
<1> DEFINE lengths == quadlets_and_pad_for_message(Trains[t][i])
<1> DEFINE plain == [of |-> <<t, i>>, segment_num |-> i - 1, ms |-> i < Len(Trains[t]),
                  acf_msg_length |-> lengths.acf_msg_length, pad |-> lengths.pad,
                  crc |-> <<>>, extra |-> 0]
<1> DEFINE crc0 == crc32_tc18_for_fragment_train(plain, Whole(t))
<1>1. Frame(t, i) = IF plain.ms THEN plain ELSE finalize_crc_trailer([plain EXCEPT !.crc = <<crc0>>])
  BY DEF Frame
<1>2. crc0.covered = Whole(t)
  BY DEF crc32_tc18_for_fragment_train
<1> HIDE DEF lengths, crc0
<1>3. CASE plain.ms
  BY <1>1, <1>3 DEF FrameOf, Resized, lengths
<1>4. CASE ~plain.ms
  BY <1>1, <1>2, <1>4 DEF FrameOf, Resized, finalize_crc_trailer, lengths
<1> QED BY <1>3, <1>4

LEMMA UndisturbedFrame ==
    ASSUME NEW t, NEW i
    PROVE  Frame(t, i).extra = 0 /\ Frame(t, i) = Resized(t, i, 0)
<1> DEFINE f == Frame(t, i)
<1>1. f = [x \in DOMAIN f |-> f[x]] /\ f.extra = 0
  BY DEF Frame, finalize_crc_trailer
<1>2. ASSUME NEW g, g = [x \in DOMAIN g |-> g[x]], g.extra = 0 PROVE g = [g EXCEPT !.extra = 0]
  BY <1>2
<1> QED BY <1>1, <1>2 DEF Resized

LEMMA SentFrame ==
    ASSUME NEW f \in Sent
    PROVE  \E t \in DOMAIN Trains : Encodable(t) /\ \E i \in DOMAIN Trains[t], e \in Int :
              f = Resized(t, i, e)
  BY DEF Sent

LEMMA MadeFrame ==
    ASSUME NEW t \in DOMAIN Trains, Encodable(t), NEW i \in DOMAIN Trains[t], NEW e \in Int
    PROVE  Resized(t, i, e) \in Sent
  BY DEF Sent

LEMMA ResizedFrame ==
    ASSUME NEW f \in Sent, NEW e \in Int
    PROVE  [f EXCEPT !.extra = e] \in Sent
<1>1. PICK t \in DOMAIN Trains : Encodable(t) /\ \E i \in DOMAIN Trains[t], e0 \in Int :
           f = Resized(t, i, e0)
  BY SentFrame
<1>2. PICK i \in DOMAIN Trains[t], e0 \in Int : f = Resized(t, i, e0)
  BY <1>1
<1>3. ASSUME NEW g PROVE [[g EXCEPT !.extra = e0] EXCEPT !.extra = e] = [g EXCEPT !.extra = e]
  OBVIOUS
<1>4. [f EXCEPT !.extra = e] = Resized(t, i, e)
  BY <1>2, <1>3 DEF Resized
<1> QED BY <1>1, <1>4, MadeFrame

(* A frame that is decoded gives back the payload it was made of, if enough *)
(* of it has arrived (fragment.rs, e2e.rs split_crc_trailer).               *)
LEMMA DecodedPayload ==
    ASSUME NEW t \in DOMAIN Trains, NEW i \in DOMAIN Trains[t], NEW e \in Int,
           NEW f, f = Resized(t, i, e)
    PROVE  Decoded(f).payload = Payload(t, i)
<1> DEFINE lengths == quadlets_and_pad_for_message(Trains[t][i])
<1>1. /\ f.of = <<t, i>> /\ f.pad = lengths.pad
      /\ f.acf_msg_length = IF f.ms THEN lengths.acf_msg_length ELSE lengths.acf_msg_length + 1
      /\ DOMAIN f = {"of", "segment_num", "ms", "acf_msg_length", "pad", "crc", "extra"}
  <2>1. FrameOf(f, t, i, e)
    BY FrameFields
  <2> QED BY <2>1 DEF FrameOf
<1>2. /\ lengths.acf_msg_length \in Nat /\ lengths.pad \in 0 .. 3
      /\ lengths.acf_msg_length * QUADLET_LEN - ACF_ABB_HEADER_LEN - lengths.pad = Trains[t][i]
  BY PadFits, TrainTypes
<1> HIDE DEF lengths
<1> DEFINE plain == IF f.ms THEN f ELSE split_crc_trailer(f)
<1>3. plain.acf_msg_length = lengths.acf_msg_length /\ plain.pad = lengths.pad
  BY <1>1, <1>2 DEF split_crc_trailer
<1>4. Decoded(f).payload = [of |-> f.of, len |-> described_payload(plain)]
  BY DEF Decoded
<1>5. described_payload(plain) = Trains[t][i]
  BY <1>2, <1>3 DEF described_payload
<1> QED BY <1>1, <1>4, <1>5 DEF Payload

LEMMA LensAppend ==
    ASSUME NEW s \in Seq(Payloads), NEW p \in Payloads
    PROVE  Lens(s) \in Seq(Nat) /\ Lens(Append(s, p)) = Append(Lens(s), p.len)
<1>1. \A q \in Payloads : q.len \in Nat
  BY DEF Payloads
<1>2. Lens(s) \in Seq(Nat) /\ Len(Lens(s)) = Len(s) /\ Len(s) \in Nat
  BY <1>1 DEF Lens
<1>3. /\ Append(s, p) \in Seq(Payloads) /\ Len(Append(s, p)) = Len(s) + 1
      /\ Append(s, p)[Len(s) + 1] = p
      /\ \A i \in 1 .. Len(s) : Append(s, p)[i] = s[i]
  OBVIOUS
<1> DEFINE l == Lens(Append(s, p))
           r == Append(Lens(s), p.len)
<1>4. /\ l \in Seq(Nat) /\ Len(l) = Len(s) + 1
      /\ \A i \in 1 .. Len(s) + 1 : l[i] = Append(s, p)[i].len
  BY <1>1, <1>3 DEF Lens
<1>5. /\ r \in Seq(Nat) /\ Len(r) = Len(s) + 1 /\ r[Len(s) + 1] = p.len
      /\ \A i \in 1 .. Len(s) : r[i] = Lens(s)[i]
  BY <1>1, <1>2
<1>6. \A i \in 1 .. Len(s) : Lens(s)[i] = s[i].len
  BY DEF Lens
<1> HIDE DEF l, r
<1>7. \A i \in 1 .. Len(s) + 1 : l[i] = r[i]
  <2> TAKE i \in 1 .. Len(s) + 1
  <2>1. l[i] = Append(s, p)[i].len
    BY ONLY <1>4, i \in 1 .. Len(s) + 1
  <2>2. CASE i \in 1 .. Len(s)
    BY ONLY <1>3, <1>5, <1>6, <2>1, <2>2
  <2>3. CASE i = Len(s) + 1
    BY ONLY <1>3, <1>5, <2>1, <2>3
  <2> QED BY ONLY <1>2, <2>2, <2>3, i \in 1 .. Len(s) + 1
<1>8. l = r
  BY <1>4, <1>5, <1>7
<1> QED BY <1>2, <1>8 DEF l, r

LEMMA LensWhole ==
    ASSUME NEW t \in DOMAIN Trains
    PROVE  Lens(Whole(t)) = Trains[t]
<1>1. Trains[t] \in Seq(Nat) /\ DOMAIN Trains[t] = 1 .. Len(Trains[t]) /\ Len(Trains[t]) \in Nat
  OBVIOUS
<1>2. Len(Whole(t)) = Len(Trains[t]) /\ \A i \in 1 .. Len(Trains[t]) : Whole(t)[i].len = Trains[t][i]
  BY <1>1 DEF Whole, Payload
<1>3. Lens(Whole(t)) = [i \in 1 .. Len(Trains[t]) |-> Trains[t][i]]
  BY <1>2 DEF Lens
<1> QED BY <1>1, <1>3

LEMMA InitInv == Init => Inv
<1> SUFFICES ASSUME Init PROVE Inv OBVIOUS
<1>1. Len(Trains) \in Nat
  OBVIOUS
<1>2. 1 <= Len(Trains) => 1 \in DOMAIN Trains[1]
  <2>1. 1 <= Len(Trains) => 1 \in DOMAIN Trains
    BY <1>1
  <2>2. \A t \in DOMAIN Trains : Trains[t] \in Seq(Nat) /\ Trains[t] # <<>>
    OBVIOUS
  <2> QED BY <2>1, <2>2
<1>3. Lens(<<>>) = <<>>
  BY DEF Lens
<1> QED BY <1>1, <1>2, <1>3, TotalEmpty DEF Init, Inv

\* The sender.
LEMMA SendStep ==
    ASSUME Inv, Send
    PROVE  Inv'
<1>1. /\ Len(Trains) \in Nat /\ train \in DOMAIN Trains /\ fragment \in DOMAIN Trains[train]
      /\ wire \in Seq(Sent)
  BY DEF Inv, Send
<1>2. /\ Len(Trains[train]) \in Nat \ {0} /\ DOMAIN Trains[train] = 1 .. Len(Trains[train])
  BY <1>1, TrainTypes
<1>3. UNCHANGED <<buffer, delivered, faults>>
  BY DEF Send
<1>4. \A t \in DOMAIN Trains : 1 \in DOMAIN Trains[t]
  <2>1. \A t \in DOMAIN Trains : Trains[t] \in Seq(Nat) /\ Trains[t] # <<>>
    OBVIOUS
  <2> QED BY <2>1
<1>5. wire' \in Seq(Sent)
  <2> DEFINE f == Frame(train, fragment)
  <2>3. ASSUME Encodable(train) PROVE Frame(train, fragment) \in Sent
    <3>1. Resized(train, fragment, 0) \in Sent
      BY <1>1, <2>3, MadeFrame
    <3> QED BY <3>1, UndisturbedFrame
  <2> HIDE DEF f
  <2>4. CASE Encodable(train)
    <3>1. wire' = Append(wire, f)
      BY <2>4 DEF Send, f
    <3> QED BY <1>1, <2>3, <2>4, <3>1 DEF f
  <2>5. CASE ~Encodable(train)
    BY <1>1, <2>5 DEF Send
  <2> QED BY <2>4, <2>5
<1>6. /\ train' \in 1 .. Len(Trains) + 1 /\ fragment' \in Nat \ {0}
      /\ train' <= Len(Trains) => /\ fragment' \in DOMAIN Trains[train']
                                  /\ fragment' = 1 \/ Encodable(train')
  <2>1. CASE ~Encodable(train)
    <3>1. train' = train + 1 /\ fragment' = fragment /\ fragment = 1
      BY <1>1, <2>1 DEF Send, Inv
    <3> QED BY <1>1, <1>4, <3>1
  <2>2. CASE Encodable(train) /\ fragment = Len(Trains[train])
    <3>1. train' = train + 1 /\ fragment' = 1
      BY <2>2 DEF Send
    <3> QED BY <1>1, <1>4, <3>1
  <2>3. CASE Encodable(train) /\ fragment # Len(Trains[train])
    <3>1. train' = train /\ fragment' = fragment + 1
      BY <2>3 DEF Send
    <3> QED BY <1>1, <1>2, <2>3, <3>1
  <2> QED BY <2>1, <2>2, <2>3
<1> QED BY <1>3, <1>5, <1>6 DEF Inv, buffer

\* The network.
LEMMA FaultStep ==
    ASSUME Inv, Fault
    PROVE  Inv'
<1>1. wire \in Seq(Sent) /\ Len(wire) \in Nat /\ DOMAIN wire = 1 .. Len(wire)
  BY DEF Inv
<1>2. \A i \in DOMAIN wire : /\ SubSeq(wire, 1, i - 1) \in Seq(Sent)
                             /\ SubSeq(wire, i, Len(wire)) \in Seq(Sent)
                             /\ SubSeq(wire, i + 1, Len(wire)) \in Seq(Sent)
  <2> TAKE i \in DOMAIN wire
  <2>1. \A j \in DOMAIN wire : wire[j] \in Sent
    BY <1>1
  <2>2. /\ i \in Int /\ i - 1 \in Int /\ i + 1 \in Int /\ Len(wire) \in Int
        /\ \A j \in 1 .. i - 1 : wire[j] \in Sent
        /\ \A j \in i .. Len(wire) : wire[j] \in Sent
        /\ \A j \in i + 1 .. Len(wire) : wire[j] \in Sent
    BY <1>1, <2>1
  <2> HIDE DEF Inv, Fault
  <2>3. SubSeq(wire, 1, i - 1) \in Seq(Sent)
    BY ONLY <2>2, SubSeqProperties
  <2>4. SubSeq(wire, i, Len(wire)) \in Seq(Sent)
    BY ONLY <2>2, SubSeqProperties
  <2>5. SubSeq(wire, i + 1, Len(wire)) \in Seq(Sent)
    BY ONLY <2>2, SubSeqProperties
  <2> QED BY <2>3, <2>4, <2>5
<1>3. ASSUME NEW i \in DOMAIN wire, wire' = RemoveAt(wire, i) PROVE wire' \in Seq(Sent)
  <2>1. /\ SubSeq(wire, 1, i - 1) \in Seq(Sent) /\ SubSeq(wire, i + 1, Len(wire)) \in Seq(Sent)
        /\ wire' = SubSeq(wire, 1, i - 1) \o SubSeq(wire, i + 1, Len(wire))
    BY <1>2, <1>3 DEF RemoveAt
  <2> QED BY ONLY <2>1, ConcatProperties
<1>4. ASSUME NEW i \in DOMAIN wire, wire' = InsertAt(wire, i, wire[i]) PROVE wire' \in Seq(Sent)
  <2> DEFINE front == SubSeq(wire, 1, i - 1)
  <2> DEFINE back == SubSeq(wire, i, Len(wire))
  <2>1. /\ front \in Seq(Sent) /\ back \in Seq(Sent) /\ <<wire[i]>> \in Seq(Sent)
        /\ wire' = front \o <<wire[i]>> \o back
    BY <1>1, <1>2, <1>4 DEF InsertAt
  <2> HIDE DEF front, back
  <2>2. front \o <<wire[i]>> \in Seq(Sent)
    BY ONLY <2>1, ConcatProperties
  <2> QED BY ONLY <2>1, <2>2, ConcatProperties
<1>5. ASSUME NEW i \in 1 .. Len(wire) - 1,
             wire' = [wire EXCEPT ![i] = wire[i + 1], ![i + 1] = wire[i]]
      PROVE  wire' \in Seq(Sent)
  <2>1. i \in DOMAIN wire /\ i + 1 \in DOMAIN wire
    BY <1>1
  <2>2. wire[i] \in Sent /\ wire[i + 1] \in Sent
    BY <1>1, <2>1
  <2> QED BY <1>1, <1>5, <2>1, <2>2
<1>6. ASSUME NEW i \in DOMAIN wire, NEW e \in {-1, QUADLET_LEN}, wire' = [wire EXCEPT ![i].extra = e]
      PROVE  wire' \in Seq(Sent)
  <2>1. e \in Int /\ wire[i] \in Sent
    BY <1>1 DEF QUADLET_LEN
  <2> DEFINE f == [wire[i] EXCEPT !.extra = e]
  <2>2. f \in Sent
    BY <2>1, ResizedFrame
  <2>3. wire' = [wire EXCEPT ![i] = f]
    BY <1>6
  <2> HIDE DEF f
  <2> QED BY <1>1, <2>2, <2>3
<1>7. wire' \in Seq(Sent)
  BY <1>3, <1>4, <1>5, <1>6 DEF Fault
<1>8. UNCHANGED <<train, fragment, buffer, delivered>> /\ faults' \in 0 .. MaxFaults
  BY DEF Fault, Inv
<1> QED BY <1>7, <1>8 DEF Inv, buffer

(* The receiver: what accept_fragment takes is the next fragment, whole,    *)
(* and what the CRC lets through is a request that was sent.                *)
LEMMA ReceiveStep ==
    ASSUME Inv, Receive
    PROVE  Inv'
<1> DEFINE frame == Head(wire)
<1> DEFINE payload == Decoded(frame).payload
<1> DEFINE verdict == IF ~take_message_bytes(Decoded(frame).header) THEN "ShortFrame"
                      ELSE accept_fragment(frame.segment_num, payload.len)
<1>1. /\ wire \in Seq(Sent) /\ wire # <<>> /\ wire' = Tail(wire)
      /\ UNCHANGED <<train, fragment, faults>>
      /\ \/ Refuse(verdict)
         \/ verdict = "Ok" /\ frame.ms /\ Store(payload)
         \/ verdict = "Ok" /\ ~frame.ms /\ Complete(frame, payload)
  BY DEF Receive, Inv
<1>2. frame \in Sent /\ wire' \in Seq(Sent)
  BY <1>1
<1>3. PICK t \in DOMAIN Trains : Encodable(t) /\ \E i \in DOMAIN Trains[t], e \in Int :
          frame = Resized(t, i, e)
  BY <1>2, SentFrame
<1>4. PICK i \in DOMAIN Trains[t], e \in Int : frame = Resized(t, i, e)
  BY <1>3
<1> HIDE DEF frame
<1>5. /\ frame.segment_num = i - 1 /\ frame.extra = e
      /\ ~frame.ms => frame.crc # <<>> /\ \A crc : frame.crc = <<crc>> => crc.covered = Whole(t)
  <2>1. FrameOf(frame, t, i, e)
    BY <1>4, FrameFields
  <2> QED BY <2>1 DEF FrameOf
<1>6. payload = Payload(t, i)
  BY <1>4, DecodedPayload
<1>7. /\ Trains[t][i] \in Nat /\ i \in Nat \ {0}
      /\ payload \in Payloads /\ payload.len = Trains[t][i] /\ payload.of = <<t, i>>
  BY <1>6, TrainTypes DEF Payload, Payloads
<1> HIDE DEF payload
<1>8. segments \in Seq(Payloads) /\ next_expected_segment_num = Len(segments) /\ Len(segments) \in Nat
      /\ total_len \in 0 .. MaxRequestSize
  BY DEF Inv
<1>9. verdict = "Ok" => /\ i - 1 = next_expected_segment_num
                        /\ total_len + payload.len <= MaxRequestSize
                        /\ fragmentation_supported
  BY <1>5, <1>7, <1>8 DEF accept_fragment
<1> HIDE DEF verdict
<1>r. reset => total_len' = Total(Lens(segments'))
  <2>1. reset => segments' = <<>> /\ total_len' = 0
    BY DEF reset
  <2>2. Lens(<<>>) = <<>>
    BY DEF Lens
  <2> QED BY <2>1, <2>2, TotalEmpty
<1>10. CASE reset /\ UNCHANGED delivered
  <2>1. /\ segments' \in Seq(Payloads) /\ next_expected_segment_num' = Len(segments')
        /\ total_len' \in 0 .. MaxRequestSize /\ DOMAIN segments' = {}
    BY <1>10 DEF reset
  <2> QED BY <1>1, <1>2, <1>r, <1>10, <2>1 DEF Inv
<1>11. CASE UNCHANGED <<buffer, delivered>>
  BY <1>1, <1>2, <1>11 DEF Inv, buffer
<1>12. CASE verdict = "Ok" /\ frame.ms /\ Store(payload)
  <2>1. /\ segments' = Append(segments, payload) /\ total_len' = total_len + payload.len
        /\ next_expected_segment_num' = next_expected_segment_num + 1 /\ UNCHANGED delivered
    BY <1>12 DEF Store
  <2>2. /\ segments' \in Seq(Payloads) /\ Len(segments') = Len(segments) + 1
        /\ \A k \in 1 .. Len(segments) : segments'[k] = segments[k]
        /\ segments'[Len(segments) + 1] = payload
    BY <1>7, <1>8, <2>1, AppendProperties
  <2>3. DOMAIN segments = 1 .. Len(segments) /\ DOMAIN segments' = 1 .. Len(segments) + 1
    BY <1>8, <2>2
  <2>4. i = Len(segments) + 1 /\ total_len' \in 0 .. MaxRequestSize
    BY <1>7, <1>9, <1>8, <1>12, <2>1
  <2>5. payload = Payload(payload.of[1], i) /\ payload.of[2] = i
    BY <1>6, <1>7
  <2>6. \A k \in DOMAIN segments' :
           segments'[k].of[2] = k /\ segments'[k] = Payload(segments'[k].of[1], k)
    <3> TAKE k \in DOMAIN segments'
    <3>1. CASE k \in DOMAIN segments
      BY <2>2, <2>3, <3>1 DEF Inv
    <3>2. CASE k = Len(segments) + 1
      BY <2>2, <2>4, <2>5, <3>2
    <3> QED BY <1>8, <2>3, <3>1, <3>2
  <2>7. total_len' = Total(Lens(segments'))
    BY <1>7, <1>8, <2>1, LensAppend, TotalAppend DEF Inv
  <2> QED BY <1>1, <1>2, <1>8, <2>1, <2>2, <2>4, <2>6, <2>7 DEF Inv
<1>13. CASE verdict = "Ok" /\ ~frame.ms /\ Complete(frame, payload)
  <2> DEFINE request == Append(segments, payload)
  <2>1. reset /\ delivered' = IF verify_reassembled_train_crc(frame, request)
                              THEN delivered \cup {request} ELSE delivered
    BY <1>13 DEF Complete
  <2>2. ASSUME verify_reassembled_train_crc(frame, request) PROVE request = Whole(t)
    <3> DEFINE crc == crc32_tc18_for_fragment_train(Decoded(frame).header, request)
    <3>1. Decoded(frame).crc = <<crc>> /\ crc.covered = request
      BY <2>2 DEF verify_reassembled_train_crc, crc32_tc18_for_fragment_train
    <3>2. Decoded(frame).crc = IF frame.extra = 0 THEN frame.crc ELSE << >>
      BY DEF Decoded
    <3> HIDE DEF crc
    <3>3. frame.crc = <<crc>>
      <4>1. <<crc>> # << >>
        OBVIOUS
      <4>2. frame.extra = 0
        BY <3>1, <3>2, <4>1
      <4> QED BY <3>1, <3>2, <4>2
    <3>4. crc.covered = Whole(t)
      BY <1>5, <1>13, <3>3
    <3> QED BY <3>1, <3>4
  <2>3. ASSUME request = Whole(t) PROVE Fits(t)
    <3>1. total_len + payload.len = Total(Lens(request))
      BY <1>7, <1>8, LensAppend, TotalAppend DEF Inv
    <3>2. Lens(request) = Trains[t]
      BY <2>3, LensWhole
    <3> HIDE DEF request
    <3> QED BY <1>3, <1>9, <1>13, <3>1, <3>2 DEF Fits
  <2> HIDE DEF request
  <2>4. \A r \in delivered' : \E u \in DOMAIN Trains : r = Whole(u) /\ Fits(u)
    BY <2>1, <2>2, <2>3 DEF Inv
  <2>5. /\ segments' \in Seq(Payloads) /\ next_expected_segment_num' = Len(segments')
        /\ total_len' \in 0 .. MaxRequestSize /\ DOMAIN segments' = {}
    BY <2>1 DEF reset
  <2> QED BY <1>1, <1>2, <1>r, <2>1, <2>4, <2>5 DEF Inv
<1> QED BY <1>1, <1>10, <1>11, <1>12, <1>13 DEF Refuse

-----------------------------------------------------------------------------
(* Inv holds of every state of the reassembly.                              *)
THEOREM Invariant == Spec => []Inv
<1>1. Inv /\ UNCHANGED vars => Inv'
  BY DEF Inv, vars, buffer
<1>2. Inv /\ [Next]_vars => Inv'
  BY <1>1, SendStep, FaultStep, ReceiveStep DEF Next, Done
<1> QED BY InitInv, <1>2, PTL DEF Spec

LEMMA WholeType == \A t \in DOMAIN Trains : Whole(t) \in Seq(Payloads)
<1> SUFFICES ASSUME NEW t \in DOMAIN Trains PROVE Whole(t) \in Seq(Payloads)
  OBVIOUS
<1>1. Trains[t] \in Seq(Nat)
  OBVIOUS
<1>2. DOMAIN Trains[t] = 1 .. Len(Trains[t]) /\ Len(Trains[t]) \in Nat
  BY <1>1
<1>3. \A i \in DOMAIN Trains[t] : Payload(t, i) \in Payloads
  BY <1>1, <1>2 DEF Payload, Payloads
<1> QED BY <1>2, <1>3 DEF Whole

(* Types of the buffer and of what it hands out (fragment.rs).              *)
THEOREM TypeCorrect == Spec => []TypeOK
<1>1. Inv => TypeOK
  BY WholeType DEF Inv, TypeOK
<1> QED BY <1>1, Invariant, PTL

(* accept_fragment stores fragments 0, 1, 2 ..., whole, and never more      *)
(* than the stream's bound.                                                 *)
THEOREM BufferAlwaysInOrder == Spec => []BufferedInOrder
<1>1. Inv => BufferedInOrder
  BY DEF Inv, BufferedInOrder
<1> QED BY <1>1, Invariant, PTL

(* A request that passes verify_reassembled_train_crc was sent as it is.    *)
THEOREM RequestsDeliveredWhole == Spec => []DeliveredWhole
<1>1. Inv => DeliveredWhole
  BY DEF Inv, DeliveredWhole
<1> QED BY <1>1, Invariant, PTL

-----------------------------------------------------------------------------
(* An undisturbed network.  A place is a train and a fragment of it, in the *)
(* order sent; what is under way are the fragments from the one the buffer  *)
(* waits for up to the one the sender comes to next, each once, in order.   *)

Places == Nat \X Nat
Before(p, q) == p[1] < q[1] \/ (p[1] = q[1] /\ p[2] < q[2])
FragmentIds == {p \in Places : p[1] \in DOMAIN Trains /\ p[2] \in DOMAIN Trains[p[1]]}

FrameAt(p) == Frame(p[1], p[2])
Due(p, next, pos) == p \in FragmentIds /\ Encodable(p[1]) /\ Before(p, pos) /\ ~Before(p, next)

Carries(w, next, pos) ==
    /\ \A j \in DOMAIN w : Due(w[j].of, next, pos) /\ w[j] = FrameAt(w[j].of)
    /\ \A j, k \in DOMAIN w : j < k => Before(w[j].of, w[k].of)
    /\ \A p \in FragmentIds : Due(p, next, pos) => \E j \in DOMAIN w : w[j].of = p
    /\ ~Before(pos, next)

\* From p to q is one step in the order of the fragments.
Follows(q, p, Ids) == \A r \in Ids : Before(r, q) <=> Before(r, p) \/ r = p

\* The first t trains are there and none is too large.
Good(t) == \A u \in 1 .. t : u \in DOMAIN Trains /\ Fits(u)

\* The buffer is in train rt, and gets what it waits for.
OnRails(rt) ==
    /\ Len(segments) + 1 \in DOMAIN Trains[rt]
    /\ \A i \in DOMAIN segments : segments[i] = Payload(rt, i)
    /\ Carries(wire, <<rt, Len(segments) + 1>>, <<train, fragment>>)

Undisturbed ==
    faults = 0 => \E rt \in 1 .. Len(Trains) + 1 :
                    /\ \A t \in 1 .. rt - 1 : Good(t) => Whole(t) \in delivered
                    /\ Good(rt) => OnRails(rt)

LEMMA PlacesOrdered ==
    /\ \A p \in Places : ~Before(p, p)
    /\ \A p, q \in Places : p = q \/ Before(p, q) \/ Before(q, p)
    /\ \A p, q, r \in Places : Before(p, q) /\ Before(q, r) => Before(p, r)
<1>1. \A p \in Places : p[1] \in Nat /\ p[2] \in Nat /\ p = <<p[1], p[2]>>
  BY DEF Places
<1> QED BY <1>1 DEF Before

LEMMA FrameAtOf == \A p \in FragmentIds : FrameAt(p).of = p
<1> SUFFICES ASSUME NEW p \in FragmentIds PROVE FrameAt(p).of = p
  OBVIOUS
<1>1. p = <<p[1], p[2]>>
  BY DEF FragmentIds, Places
<1> QED BY <1>1 DEF FrameAt, Frame, finalize_crc_trailer

\* The sender puts the next fragment behind the others.
LEMMA CarriesOneMore ==
    ASSUME NEW w \in Seq(Sent), NEW next \in Places, NEW pos \in FragmentIds, NEW pos2 \in Places,
           Carries(w, next, pos), Encodable(pos[1]), Follows(pos2, pos, FragmentIds)
    PROVE  Carries(Append(w, FrameAt(pos)), next, pos2)
<1> DEFINE v == Append(w, FrameAt(pos))
           n == Len(w)
<1>1. /\ n \in Nat /\ DOMAIN w = 1 .. n /\ DOMAIN v = 1 .. n + 1
      /\ v[n + 1] = FrameAt(pos) /\ \A j \in 1 .. n : v[j] = w[j]
  OBVIOUS
<1>2. pos \in Places /\ FragmentIds \subseteq Places
  BY DEF FragmentIds
<1>3. /\ ~Before(pos, next) /\ Before(pos, pos2)
      /\ \A r \in FragmentIds : Before(r, pos2) <=> Before(r, pos) \/ r = pos
  BY DEF Follows, Carries
<1>4. v[n + 1].of = pos
  BY <1>1, FrameAtOf
<1> HIDE DEF v, n
<1>5. \A j \in DOMAIN v : Due(v[j].of, next, pos2) /\ v[j] = FrameAt(v[j].of)
  <2> TAKE j \in DOMAIN v
  <2>1. CASE j \in 1 .. n
    BY <1>1, <1>3, <2>1 DEF Carries, Due
  <2>2. CASE j = n + 1
    BY <1>1, <1>3, <1>4, <2>2 DEF Due
  <2> QED BY <1>1, <2>1, <2>2
<1>6. \A j, k \in DOMAIN v : j < k => Before(v[j].of, v[k].of)
  <2> TAKE j, k \in DOMAIN v
  <2> HAVE j < k
  <2>1. CASE k \in 1 .. n
    BY <1>1, <2>1 DEF Carries
  <2>2. CASE k = n + 1
    <3>1. j \in 1 .. n
      BY <1>1, <2>2
    <3> QED BY <1>1, <1>4, <2>2, <3>1 DEF Carries, Due
  <2> QED BY <1>1, <2>1, <2>2
<1>7. \A p \in FragmentIds : Due(p, next, pos2) => \E j \in DOMAIN v : v[j].of = p
  <2> TAKE p \in FragmentIds
  <2> HAVE Due(p, next, pos2)
  <2>1. CASE p = pos
    <3>1. n + 1 \in DOMAIN v
      BY <1>1
    <3> QED BY <1>4, <2>1, <3>1
  <2>2. CASE p # pos
    <3>1. Due(p, next, pos)
      BY <1>3, <2>2 DEF Due
    <3>2. PICK j \in DOMAIN w : w[j].of = p
      BY <3>1 DEF Carries
    <3>3. j \in DOMAIN v /\ v[j].of = p
      BY <1>1, <3>2
    <3> QED BY <3>3
  <2> QED BY <2>1, <2>2
<1>8. ~Before(pos2, next)
  BY <1>2, <1>3, PlacesOrdered
<1> QED BY <1>5, <1>6, <1>7, <1>8 DEF Carries, v

\* The sender passes over a train that does not encode.
LEMMA CarriesTheSame ==
    ASSUME NEW w, NEW next \in Places, NEW pos \in Places, NEW pos2 \in Places,
           Carries(w, next, pos), Before(pos, pos2),
           \A r \in FragmentIds : Encodable(r[1]) => (Before(r, pos2) <=> Before(r, pos))
    PROVE  Carries(w, next, pos2)
<1>1. ~Before(pos2, next)
  BY PlacesOrdered DEF Carries
<1>2. \A p : Due(p, next, pos2) <=> Due(p, next, pos)
  BY DEF Due
<1> QED BY <1>1, <1>2 DEF Carries

\* What arrives is what is waited for; what is left starts behind it.
LEMMA CarriesNext ==
    ASSUME NEW w \in Seq(Sent), w # <<>>, NEW next \in FragmentIds, NEW pos \in Places,
           Carries(w, next, pos), Encodable(next[1])
    PROVE  /\ Head(w) = FrameAt(next) /\ Before(next, pos)
           /\ \A next2 \in Places :
                Follows(next2, next, FragmentIds \cup {pos}) => Carries(Tail(w), next2, pos)
<1> DEFINE n == Len(w)
           v == Tail(w)
<1>1. /\ n \in Nat \ {0} /\ DOMAIN w = 1 .. n /\ DOMAIN v = 1 .. n - 1 /\ Head(w) = w[1]
      /\ \A j \in 1 .. n - 1 : v[j] = w[j + 1]
  OBVIOUS
<1> HIDE DEF n, v
<1>2. 1 \in DOMAIN w /\ FragmentIds \subseteq Places
  BY <1>1 DEF FragmentIds
<1>3. Due(w[1].of, next, pos) /\ w[1] = FrameAt(w[1].of)
  BY <1>2 DEF Carries
<1>4. Before(next, pos)
  BY <1>2, <1>3, PlacesOrdered DEF Due
<1>5. w[1].of = next
  <2>1. Due(next, next, pos)
    BY <1>2, <1>4, PlacesOrdered DEF Due
  <2>2. PICK j \in DOMAIN w : w[j].of = next
    BY <2>1 DEF Carries
  <2>3. CASE j = 1
    BY <2>2, <2>3
  <2>4. CASE j # 1
    <3>1. 1 < j
      BY <1>1, <2>4
    <3> QED BY <1>2, <1>3, <2>2, <3>1 DEF Carries, Due
  <2> QED BY <2>3, <2>4
<1>6. ASSUME NEW next2 \in Places, Follows(next2, next, FragmentIds \cup {pos})
      PROVE  Carries(v, next2, pos)
  <2>1. /\ \A r \in FragmentIds : Before(r, next2) <=> Before(r, next) \/ r = next
        /\ Before(pos, next2) <=> Before(pos, next) \/ pos = next
    BY <1>6 DEF Follows
  <2>2. \A j \in DOMAIN v : j + 1 \in DOMAIN w /\ v[j] = w[j + 1] /\ 1 < j + 1
    BY <1>1
  <2>3. \A j \in DOMAIN v : Due(v[j].of, next2, pos) /\ v[j] = FrameAt(v[j].of)
    <3> TAKE j \in DOMAIN v
    <3>1. Due(w[j + 1].of, next, pos) /\ w[j + 1] = FrameAt(w[j + 1].of) /\ Before(next, w[j + 1].of)
      BY <1>2, <1>5, <2>2 DEF Carries
    <3>2. w[j + 1].of # next
      BY <1>2, <3>1, PlacesOrdered
    <3> QED BY <2>1, <2>2, <3>1, <3>2 DEF Due
  <2>4. \A j, k \in DOMAIN v : j < k => Before(v[j].of, v[k].of)
    <3> TAKE j, k \in DOMAIN v
    <3> HAVE j < k
    <3>1. j + 1 < k + 1
      BY <1>1
    <3> QED BY <2>2, <3>1 DEF Carries
  <2>5. \A p \in FragmentIds : Due(p, next2, pos) => \E j \in DOMAIN v : v[j].of = p
    <3> TAKE p \in FragmentIds
    <3> HAVE Due(p, next2, pos)
    <3>1. Due(p, next, pos) /\ p # next
      BY <2>1 DEF Due
    <3>2. PICK j \in DOMAIN w : w[j].of = p
      BY <3>1 DEF Carries
    <3>3. j # 1
      BY <1>5, <3>1, <3>2
    <3>4. j - 1 \in DOMAIN v /\ v[j - 1] = w[j]
      BY <1>1, <3>3
    <3> QED BY <3>2, <3>4
  <2>6. ~Before(pos, next2)
    BY <1>2, <1>4, <2>1, PlacesOrdered
  <2> QED BY <2>3, <2>4, <2>5, <2>6 DEF Carries
<1> QED BY <1>1, <1>3, <1>4, <1>5, <1>6 DEF v

-----------------------------------------------------------------------------
\* Of a train that is not too large, every fragment is a place to wait for.
LEMMA GoodTrain ==
    ASSUME NEW rt \in 1 .. Len(Trains) + 1, Good(rt), NEW k \in DOMAIN Trains[rt]
    PROVE  rt \in DOMAIN Trains /\ Fits(rt) /\ Encodable(rt) /\ <<rt, k>> \in FragmentIds
<1>1. rt \in 1 .. rt /\ Len(Trains) \in Nat
  OBVIOUS
<1>2. rt \in DOMAIN Trains /\ Fits(rt)
  BY <1>1 DEF Good
<1>3. k \in Nat
  BY <1>2, TrainTypes
<1> QED BY <1>2, <1>3 DEF Fits, FragmentIds, Places

LEMMA SenderPlace ==
    ASSUME Inv
    PROVE  /\ <<train, fragment>> \in Places
           /\ train <= Len(Trains) => <<train, fragment>> \in FragmentIds
<1>1. Len(Trains) \in Nat /\ train \in 1 .. Len(Trains) + 1 /\ fragment \in Nat
  BY DEF Inv
<1> QED BY <1>1 DEF Inv, FragmentIds, Places

LEMMA InitUndisturbed == Init => Undisturbed
<1> SUFFICES ASSUME Init PROVE Undisturbed
  OBVIOUS
<1>1. Len(Trains) \in Nat /\ 1 \in 1 .. Len(Trains) + 1
  OBVIOUS
<1>2. train = 1 /\ fragment = 1 /\ wire = <<>> /\ segments = <<>> /\ Len(segments) = 0
  BY DEF Init
<1>3. ASSUME Good(1) PROVE OnRails(1)
  <2>1. 1 \in DOMAIN Trains
    BY <1>1, <1>3 DEF Good
  <2>2. Trains[1] \in Seq(Nat) /\ Trains[1] # <<>>
    BY <2>1
  <2>3. Len(segments) + 1 = 1 /\ 1 \in DOMAIN Trains[1]
    BY <1>2, <2>2
  <2>4. \A p \in FragmentIds : p[1] \in Nat \ {0} /\ p[2] \in Nat \ {0}
    BY TrainTypes DEF FragmentIds
  <2>5. ~Before(<<1, 1>>, <<1, 1>>) /\ \A p \in FragmentIds : ~Before(p, <<1, 1>>)
    BY ONLY <2>4 DEF Before
  <2>6. Carries(<<>>, <<1, 1>>, <<1, 1>>)
    BY <2>5 DEF Carries, Due
  <2> QED BY <1>2, <2>3, <2>6 DEF OnRails
<1>4. \A t \in 1 .. 1 - 1 : Good(t) => Whole(t) \in delivered
  OBVIOUS
<1> QED BY <1>1, <1>3, <1>4 DEF Undisturbed

LEMMA SendUndisturbed ==
    ASSUME Inv, Inv', Undisturbed, Send
    PROVE  Undisturbed'
<1>1. UNCHANGED <<segments, delivered, faults>>
  BY DEF Send, buffer
<1>2. ASSUME NEW rt \in 1 .. Len(Trains) + 1, Good(rt), OnRails(rt) PROVE OnRails(rt)'
  <2> DEFINE next == <<rt, Len(segments) + 1>>
             pos == <<train, fragment>>
             pos2 == <<train', fragment'>>
  <2>1. train <= Len(Trains) /\ train \in Nat /\ fragment \in Nat /\ wire \in Seq(Sent)
    BY DEF Send, Inv
  <2>2. pos \in FragmentIds /\ pos \in Places
    BY <2>1, SenderPlace
  <2>3. pos2 \in Places
    BY DEF Inv, Places
  <2>4. next \in FragmentIds /\ next \in Places
    BY <1>2, GoodTrain DEF OnRails, FragmentIds
  <2>5. Carries(wire, next, pos) /\ pos[1] = train
    BY <1>2 DEF OnRails
  <2>6. \A r \in FragmentIds : /\ r[1] \in Nat \ {0} /\ r[2] \in 1 .. Len(Trains[r[1]]) /\ r = <<r[1], r[2]>>
                               /\ Len(Trains[r[1]]) \in Nat
    BY TrainTypes DEF FragmentIds, Places
  <2>7. CASE Encodable(train)
    <3>1. wire' = Append(wire, FrameAt(pos))
      BY <2>7 DEF Send, FrameAt
    <3>2. Follows(pos2, pos, FragmentIds)
      <4>1. CASE fragment = Len(Trains[train])
        <5>1. pos2 = <<train + 1, 1>>
          BY <2>7, <4>1 DEF Send
        <5> QED BY <2>1, <2>6, <4>1, <5>1 DEF Follows, Before
      <4>2. CASE fragment # Len(Trains[train])
        <5>1. pos2 = <<train, fragment + 1>>
          BY <2>7, <4>2 DEF Send
        <5> QED BY <2>1, <2>6, <5>1 DEF Follows, Before
      <4> QED BY <4>1, <4>2
    <3> HIDE DEF next, pos, pos2
    <3>3. Carries(wire', next, pos2)
      BY <2>1, <2>2, <2>3, <2>4, <2>5, <2>7, <3>1, <3>2, CarriesOneMore
    <3> QED BY <1>1, <1>2, <3>3 DEF OnRails, next, pos2
  <2>8. CASE ~Encodable(train)
    <3>1. wire' = wire /\ train' = train + 1 /\ fragment' = fragment /\ fragment = 1
      BY <2>1, <2>8 DEF Send, Inv
    <3>2. Before(pos, pos2)
      BY <2>1, <3>1 DEF Before
    <3>3. ASSUME NEW r \in FragmentIds, Encodable(r[1]) PROVE Before(r, pos2) <=> Before(r, pos)
      <4>1. r[1] # train
        BY <2>8, <3>3
      <4> QED BY <2>1, <2>6, <3>1, <4>1 DEF Before
    <3> HIDE DEF next, pos, pos2
    <3>4. Carries(wire', next, pos2)
      BY <2>2, <2>3, <2>4, <2>5, <3>1, <3>2, <3>3, CarriesTheSame
    <3> QED BY <1>1, <1>2, <3>4 DEF OnRails, next, pos2
  <2> QED BY <2>7, <2>8
<1> QED BY <1>1, <1>2 DEF Undisturbed

\* The CRC of the final fragment is the one the receiver works out.
LEMMA LastFrame ==
    ASSUME NEW t \in DOMAIN Trains, NEW i \in DOMAIN Trains[t], ~Frame(t, i).ms
    PROVE  verify_reassembled_train_crc(Frame(t, i), Whole(t))
<1> DEFINE f == Frame(t, i)
           lengths == quadlets_and_pad_for_message(Trains[t][i])
           plain == [of |-> <<t, i>>, segment_num |-> i - 1, ms |-> i < Len(Trains[t]),
                     acf_msg_length |-> lengths.acf_msg_length, pad |-> lengths.pad,
                     crc |-> <<>>, extra |-> 0]
           crc == crc32_tc18_for_fragment_train(plain, Whole(t))
<1>0. lengths.acf_msg_length \in Nat
  BY PadFits, TrainTypes
<1>1. f = IF plain.ms THEN plain ELSE finalize_crc_trailer([plain EXCEPT !.crc = <<crc>>])
  BY DEF Frame
<1> HIDE DEF lengths
<1>2. /\ f.crc = <<crc>> /\ f.extra = 0 /\ ~f.ms /\ f.pad = plain.pad
      /\ f.segment_num = plain.segment_num /\ f.acf_msg_length = plain.acf_msg_length + 1
      /\ DOMAIN f = {"of", "segment_num", "ms", "acf_msg_length", "pad", "crc", "extra"}
  <2> HIDE DEF crc
  <2>1. ~plain.ms
    BY <1>1
  <2> QED BY <1>1, <2>1 DEF finalize_crc_trailer
<1>3. plain.acf_msg_length \in Nat
  BY <1>0
<1> HIDE DEF f, plain
<1>4. Decoded(f).header = split_crc_trailer(f) /\ Decoded(f).crc = f.crc
  BY <1>2 DEF Decoded
<1>5. /\ split_crc_trailer(f).acf_msg_length = plain.acf_msg_length
      /\ split_crc_trailer(f).pad = plain.pad /\ split_crc_trailer(f).segment_num = plain.segment_num
  BY <1>2, <1>3 DEF split_crc_trailer
<1>6. crc32_tc18_for_fragment_train(split_crc_trailer(f), Whole(t)) = crc
  BY <1>5 DEF crc32_tc18_for_fragment_train
<1> HIDE DEF crc
<1>7. f.crc # <<>>
  BY <1>2
<1> QED BY <1>2, <1>4, <1>6, <1>7
        DEF verify_reassembled_train_crc, check_fragment_crc_placement, f

\* The fragment the buffer waits for, of a train that fits, is taken.
LEMMA FittingFragmentTaken ==
    ASSUME Inv, NEW rt \in DOMAIN Trains, Fits(rt), NEW k \in DOMAIN Trains[rt],
           k = Len(segments) + 1, \A i \in DOMAIN segments : segments[i] = Payload(rt, i)
    PROVE  LET frame == Frame(rt, k)
               payload == Decoded(frame).payload
           IN  /\ payload = Payload(rt, k) /\ frame.ms = (k < Len(Trains[rt]))
               /\ take_message_bytes(Decoded(frame).header)
               /\ accept_fragment(frame.segment_num, payload.len) = "Ok"
               /\ ~frame.ms => Append(segments, payload) = Whole(rt)
<1> DEFINE frame == Frame(rt, k)
           payload == Decoded(frame).payload
           lengths == quadlets_and_pad_for_message(Trains[rt][k])
<1>1. /\ Trains[rt] \in Seq(Nat) /\ Len(Trains[rt]) \in Nat /\ DOMAIN Trains[rt] = 1 .. Len(Trains[rt])
      /\ k \in Nat /\ Trains[rt][k] \in Nat
  BY TrainTypes
<1>u. frame = Resized(rt, k, 0) /\ 0 \in Int
  BY UndisturbedFrame
<1>2. payload = Payload(rt, k)
  BY <1>u, DecodedPayload
<1>3. /\ frame.ms = (k < Len(Trains[rt])) /\ frame.segment_num = k - 1 /\ frame.extra = 0
      /\ frame.acf_msg_length = IF frame.ms THEN lengths.acf_msg_length ELSE lengths.acf_msg_length + 1
      /\ DOMAIN frame = {"of", "segment_num", "ms", "acf_msg_length", "pad", "crc", "extra"}
  <2>1. FrameOf(frame, rt, k, 0)
    <3>1. FrameOf(Resized(rt, k, 0), rt, k, 0)
      BY FrameFields
    <3> HIDE DEF frame
    <3> QED BY <1>u, <3>1
  <2> QED BY <2>1 DEF FrameOf
<1>4. lengths.acf_msg_length \in Nat
  BY PadFits, <1>1
<1> HIDE DEF frame, payload, lengths
<1>5. take_message_bytes(Decoded(frame).header)
  <2>1. Decoded(frame).header = IF frame.ms THEN frame ELSE split_crc_trailer(frame)
    BY DEF Decoded
  <2>2. Decoded(frame).header.acf_msg_length \in Int /\ Decoded(frame).header.extra = 0
    BY <1>3, <1>4, <2>1 DEF split_crc_trailer
  <2> QED BY <2>2 DEF take_message_bytes, decode_ntscf_frame, QUADLET_LEN
<1>6. /\ payload \in Payloads /\ payload.len = Trains[rt][k]
      /\ segments \in Seq(Payloads) /\ Len(segments) \in Nat /\ DOMAIN segments = 1 .. Len(segments)
      /\ next_expected_segment_num = Len(segments) /\ total_len = Total(Lens(segments))
  BY <1>1, <1>2 DEF Payload, Payloads, Inv
<1> DEFINE request == Append(segments, payload)
<1>7. /\ request \in Seq(Payloads) /\ Len(request) = k /\ DOMAIN request = 1 .. k
      /\ \A i \in 1 .. k : request[i] = Payload(rt, i)
  BY <1>2, <1>6
<1>8. Lens(request) \in Seq(Nat) /\ Total(Lens(request)) = total_len + payload.len
  <2>1. Lens(segments) \in Seq(Nat) /\ Lens(request) = Append(Lens(segments), payload.len)
    BY <1>6, LensAppend
  <2>2. payload.len \in Nat
    BY <1>1, <1>6
  <2> HIDE DEF request
  <2> QED BY <1>6, <2>1, <2>2, TotalAppend
<1> HIDE DEF request
<1>9. Total(Lens(request)) <= Total(Trains[rt])
  <2>1. Len(Lens(request)) = k /\ \A i \in 1 .. k : Lens(request)[i] = Trains[rt][i]
    BY <1>1, <1>7 DEF Lens, Payload
  <2>2. Len(Lens(request)) <= Len(Trains[rt])
    BY <1>1, <2>1
  <2> QED BY <1>1, <1>8, <2>1, <2>2, TotalOfPrefix
<1>10. accept_fragment(frame.segment_num, payload.len) = "Ok"
  <2>1. frame.segment_num = next_expected_segment_num
    BY <1>1, <1>3, <1>6
  <2>2. total_len \in Nat /\ Total(Trains[rt]) \in Nat /\ payload.len \in Nat
    BY <1>1, <1>6, TotalType DEF Inv
  <2>3. ~(total_len + payload.len > MaxRequestSize) /\ fragmentation_supported
    BY <1>8, <1>9, <2>2 DEF Fits
  <2> QED BY <2>1, <2>3 DEF accept_fragment
<1>11. ASSUME ~frame.ms PROVE request = Whole(rt)
  <2>1. k = Len(Trains[rt])
    <3>1. ~(k < Len(Trains[rt]))
      BY ONLY <1>3, <1>11, Zenon
    <3>2. k \in 1 .. Len(Trains[rt])
      BY <1>1
    <3>3. Len(Trains[rt]) \in Nat
      BY <1>1
    <3> QED BY ONLY <3>1, <3>2, <3>3
  <2>2. DOMAIN Whole(rt) = 1 .. k /\ \A i \in 1 .. k : Whole(rt)[i] = Payload(rt, i)
    BY <1>1, <2>1 DEF Whole
  <2>3. Whole(rt) = [i \in 1 .. k |-> Payload(rt, i)]
    BY <1>1, <2>1 DEF Whole
  <2>4. request = [i \in 1 .. k |-> request[i]]
    <3>1. request \in [1 .. k -> Payloads]
      BY ONLY <1>7
    <3> QED BY ONLY <3>1
  <2> QED BY <1>7, <2>3, <2>4
<1> QED BY <1>2, <1>3, <1>5, <1>10, <1>11 DEF frame, payload, request

LEMMA ReceiveUndisturbed ==
    ASSUME Inv, Inv', Undisturbed, Receive
    PROVE  Undisturbed'
<1> SUFFICES ASSUME faults = 0
             PROVE  \E rt \in 1 .. Len(Trains) + 1 :
                      /\ \A t \in 1 .. rt - 1 : Good(t) => Whole(t) \in delivered'
                      /\ Good(rt) => OnRails(rt)'
  BY DEF Receive, Undisturbed
<1>1. PICK rt \in 1 .. Len(Trains) + 1 :
         /\ \A t \in 1 .. rt - 1 : Good(t) => Whole(t) \in delivered
         /\ Good(rt) => OnRails(rt)
  BY DEF Undisturbed
<1>2. /\ wire \in Seq(Sent) /\ wire # <<>> /\ wire' = Tail(wire) /\ UNCHANGED <<train, fragment>>
      /\ delivered \subseteq delivered' /\ Len(Trains) \in Nat
  BY DEF Receive, Refuse, Store, Complete, Inv
<1>3. CASE ~Good(rt)
  BY <1>1, <1>2, <1>3
<1>4. CASE Good(rt)
  <2> DEFINE k == Len(segments) + 1
             next == <<rt, k>>
             pos == <<train, fragment>>
             frame == Head(wire)
             payload == Decoded(frame).payload
  <2>1. /\ k \in DOMAIN Trains[rt] /\ Carries(wire, next, pos)
        /\ \A i \in DOMAIN segments : segments[i] = Payload(rt, i)
    BY <1>1, <1>4 DEF OnRails
  <2>2. /\ rt \in DOMAIN Trains /\ Fits(rt) /\ Encodable(rt) /\ next \in FragmentIds /\ next[1] = rt
        /\ next[2] = k
    BY <1>4, <2>1, GoodTrain
  <2>3. /\ Len(Trains[rt]) \in Nat /\ DOMAIN Trains[rt] = 1 .. Len(Trains[rt]) /\ k \in Nat \ {0}
        /\ rt \in Nat \ {0}
    BY <2>1, <2>2, TrainTypes
  <2>4. pos \in Places /\ train \in Nat /\ fragment \in Nat \ {0} /\ (train <= Len(Trains) => pos \in FragmentIds)
    BY SenderPlace DEF Inv
  <2>5. /\ frame = Frame(rt, k) /\ Before(next, pos)
        /\ \A next2 \in Places :
             Follows(next2, next, FragmentIds \cup {pos}) => Carries(wire', next2, pos)
    <3> HIDE DEF next, pos, frame
    <3>1. Head(wire) = FrameAt(next) /\ Before(next, pos)
          /\ \A next2 \in Places :
               Follows(next2, next, FragmentIds \cup {pos}) => Carries(Tail(wire), next2, pos)
      BY <1>2, <2>1, <2>2, <2>4, CarriesNext
    <3> QED BY <1>2, <2>2, <3>1 DEF FrameAt, frame
  <2>6. /\ payload = Payload(rt, k) /\ frame.ms = (k < Len(Trains[rt]))
        /\ take_message_bytes(Decoded(frame).header)
        /\ accept_fragment(frame.segment_num, payload.len) = "Ok"
        /\ ~frame.ms => Append(segments, payload) = Whole(rt)
    <3> HIDE DEF frame
    <3> QED BY <2>1, <2>2, <2>5, FittingFragmentTaken
  <2>7. \/ frame.ms /\ Store(payload)
        \/ ~frame.ms /\ Complete(frame, payload)
    BY <2>6 DEF Receive, Refuse
  <2>8. \A r \in FragmentIds : /\ r[1] \in Nat /\ r[2] \in 1 .. Len(Trains[r[1]])
                               /\ r = <<r[1], r[2]>> /\ Len(Trains[r[1]]) \in Nat
    BY TrainTypes DEF FragmentIds, Places
  <2> HIDE DEF frame, payload
  <2>9. CASE frame.ms /\ Store(payload)
    <3>1. segments' = Append(segments, payload) /\ delivered' = delivered
      BY <2>9 DEF Store
    <3>2. segments \in Seq(Payloads) /\ Payload(rt, k) \in Payloads
      BY <2>1, <2>2, TrainTypes DEF Inv, Payload, Payloads
    <3>3. /\ Len(segments') + 1 = k + 1 /\ DOMAIN segments' = 1 .. k
          /\ \A i \in DOMAIN segments' : segments'[i] = Payload(rt, i)
      BY <2>1, <2>6, <3>1, <3>2
    <3> DEFINE next2 == <<rt, k + 1>>
    <3>4. k + 1 \in DOMAIN Trains[rt] /\ next2 \in Places
      <4>1. k < Len(Trains[rt])
        BY ONLY <2>6, <2>9, Zenon
      <4> QED BY <2>3, <4>1 DEF Places
    <3> HIDE DEF k
    <3>5. Follows(next2, next, FragmentIds \cup {pos})
      BY <2>3, <2>4, <2>8 DEF Follows, Before
    <3>6. Carries(wire', next2, pos)
      BY <2>5, <3>4, <3>5
    <3>7. OnRails(rt)'
      BY <1>2, <3>3, <3>4, <3>6 DEF OnRails
    <3> QED BY <1>1, <3>1, <3>7
  <2>10. CASE ~frame.ms /\ Complete(frame, payload)
    <3>1. verify_reassembled_train_crc(frame, Whole(rt))
      BY <2>1, <2>2, <2>5, <2>10, LastFrame
    <3>2. Whole(rt) \in delivered' /\ segments' = <<>> /\ Len(segments') = 0
      BY <2>6, <2>10, <3>1 DEF Complete, reset
    <3>3. \A t \in 1 .. (rt + 1) - 1 : Good(t) => Whole(t) \in delivered'
      BY <1>1, <1>2, <2>3, <3>2
    <3>4. rt + 1 \in 1 .. Len(Trains) + 1
      BY <1>2, <2>2
    <3>5. ASSUME Good(rt + 1) PROVE OnRails(rt + 1)'
      <4>1. rt + 1 \in DOMAIN Trains
        BY <2>3, <3>5 DEF Good
      <4>2. Trains[rt + 1] \in Seq(Nat) /\ Trains[rt + 1] # <<>>
        BY <4>1
      <4> DEFINE next2 == <<rt + 1, 1>>
      <4>3. 1 \in DOMAIN Trains[rt + 1] /\ next2 \in Places
        BY <2>3, <4>2 DEF Places
      <4>4. k = Len(Trains[rt])
        <5>1. ~(k < Len(Trains[rt]))
          BY ONLY <2>6, <2>10, Zenon
        <5> QED BY <2>1, <2>3, <5>1
      <4> HIDE DEF k
      <4>5. Follows(next2, next, FragmentIds \cup {pos})
        <5>1. \A r \in FragmentIds : Before(r, next2) <=> Before(r, next) \/ r = next
          BY <2>3, <2>8, <4>4 DEF Before
        <5>2. CASE train <= Len(Trains)
          BY <2>4, <5>1, <5>2 DEF Follows
        <5>3. CASE train > Len(Trains)
          <6>1. rt < train
            BY <1>2, <2>2, <2>4, <5>3
          <6>2. ~Before(pos, next2) /\ ~Before(pos, next) /\ pos # next
            BY <2>3, <2>4, <6>1 DEF Before
          <6> QED BY <5>1, <6>2 DEF Follows
        <5> QED BY <1>2, <2>4, <5>2, <5>3
      <4>6. Carries(wire', next2, pos)
        BY <2>5, <4>3, <4>5
      <4> QED BY <1>2, <3>2, <4>3, <4>6 DEF OnRails
    <3> QED BY <3>3, <3>4, <3>5
  <2> QED BY <2>7, <2>9, <2>10
<1> QED BY <1>3, <1>4

(* On a network that has not erred, what is under way is what the buffer    *)
(* waits for, up to the first train that is too large.                      *)
THEOREM NetworkUndisturbed == Spec => []Undisturbed
<1>1. Inv /\ Inv' /\ Undisturbed /\ [Next]_vars => Undisturbed'
  <2> SUFFICES ASSUME Inv, Inv', Undisturbed, [Next]_vars PROVE Undisturbed'
    OBVIOUS
  <2>1. CASE Fault
    <3>1. faults' # 0
      BY <2>1 DEF Fault, Inv
    <3> QED BY <3>1 DEF Undisturbed
  <2>2. CASE UNCHANGED vars
    BY <2>2 DEF vars, buffer, Undisturbed, OnRails
  <2> QED BY <2>1, <2>2, SendUndisturbed, ReceiveUndisturbed DEF Next, Done
<1> QED BY <1>1, InitUndisturbed, Invariant, PTL DEF Spec

LEMMA WholeDistinct ==
    ASSUME NEW t \in DOMAIN Trains, NEW u \in DOMAIN Trains, Whole(t) = Whole(u)
    PROVE  t = u
<1>1. 1 \in DOMAIN Trains[t] /\ 1 \in DOMAIN Trains[u]
  <2>1. /\ Trains[t] \in Seq(Nat) /\ Trains[t] # <<>>
        /\ Trains[u] \in Seq(Nat) /\ Trains[u] # <<>>
    OBVIOUS
  <2> QED BY <2>1
<1>2. Whole(t)[1] = Payload(t, 1) /\ Whole(u)[1] = Payload(u, 1)
  BY <1>1 DEF Whole
<1> QED BY <1>2 DEF Payload

(* Every request that fits the stream, sent before any that does not, is    *)
(* handed out if the network did not err, and never one that does not fit.  *)
THEOREM FittingRequestsAlwaysArrive == Spec => []FittingRequestsArrive
<1>1. ASSUME Inv, Undisturbed, faults = 0, wire = <<>>, NEW t \in 1 .. train - 1,
             \A u \in 1 .. t : Fits(u)
      PROVE  Whole(t) \in delivered
  <2>1. Len(Trains) \in Nat /\ train \in 1 .. Len(Trains) + 1 /\ fragment \in Nat
    BY <1>1 DEF Inv
  <2>2. \A u \in 1 .. t : u \in DOMAIN Trains /\ Fits(u)
    BY <1>1, <2>1
  <2>3. PICK rt \in 1 .. Len(Trains) + 1 :
           /\ \A u \in 1 .. rt - 1 : Good(u) => Whole(u) \in delivered
           /\ Good(rt) => OnRails(rt)
    BY <1>1 DEF Undisturbed
  <2>4. CASE t < rt
    <3>1. t \in 1 .. rt - 1 /\ Good(t)
      BY <2>1, <2>2, <2>4 DEF Good
    <3> QED BY <2>3, <3>1
  <2>5. CASE rt <= t
    <3>1. Good(rt)
      <4>1. \A u \in 1 .. rt : u \in 1 .. t
        BY <2>1, <2>5
      <4> QED BY <2>2, <4>1 DEF Good
    <3> DEFINE next == <<rt, Len(segments) + 1>>
               pos == <<train, fragment>>
    <3>2. Carries(<<>>, next, pos) /\ Len(segments) + 1 \in DOMAIN Trains[rt]
      BY <1>1, <2>3, <3>1 DEF OnRails
    <3>3. next \in FragmentIds /\ next \in Places /\ Encodable(next[1])
      BY <3>1, <3>2, GoodTrain DEF FragmentIds
    <3>4. Before(next, pos)
      BY <2>1, <2>5 DEF Before
    <3> HIDE DEF next, pos
    <3>5. Due(next, next, pos)
      BY <3>3, <3>4, PlacesOrdered DEF Due
    <3>6. \E j \in DOMAIN <<>> : <<>>[j].of = next
      BY <3>2, <3>3, <3>5 DEF Carries
    <3> QED BY <3>6
  <2> QED BY <2>1, <2>4, <2>5
<1>2. ASSUME Inv, NEW t \in DOMAIN Trains, Whole(t) \in delivered PROVE Fits(t)
  <2>1. PICK u \in DOMAIN Trains : Whole(t) = Whole(u) /\ Fits(u)
    BY <1>2 DEF Inv
  <2> QED BY <2>1, WholeDistinct
<1>3. Inv /\ Undisturbed => FittingRequestsArrive
  BY <1>1, <1>2 DEF FittingRequestsArrive
<1> QED BY <1>3, Invariant, NetworkUndisturbed, PTL
=============================================================================
