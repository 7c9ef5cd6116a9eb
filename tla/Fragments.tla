----------------------------- MODULE Fragments ------------------------------
(***************************************************************************)
(* Requests split over several AVTPDUs: FragmentReassemblyBuffer and       *)
(* verify_reassembled_train_crc (src/src/fragment.rs) over the CRC rules   *)
(* of src/src/e2e.rs and the length rules of src/src/acf.rs.  Nothing in   *)
(* src/ splits requests or drives the buffer: the sender that numbers      *)
(* fragments from 0, and the caller that feeds the buffer, are external,   *)
(* and the caller resets it after an error or not, as it likes.            *)
(***************************************************************************)
EXTENDS Integers, Sequences, FiniteSets, SequencesExt

CONSTANTS Trains,           \* per request, in the order sent, the lengths of its payloads
          MaxRequestSize,   \* rx_stream_max_request_size
          LengthMax,        \* ACF_MSG_LENGTH_9BIT_MAX
          Faults,           \* what the network does, out of Mishaps
          MaxFaults         \* how often

Mishaps == {"lose", "repeat", "reorder", "resize"}

ASSUME FragmentsAssumption ==
    /\ Trains \in Seq(Seq(Nat)) /\ \A t \in DOMAIN Trains : Trains[t] # <<>>
    /\ MaxRequestSize \in Nat /\ LengthMax \in Nat /\ MaxFaults \in Nat
    /\ Faults \subseteq Mishaps

VARIABLES
    train, fragment,  \* the fragment the sender sends next
    wire,             \* frames under way
    segments, total_len, next_expected_segment_num,  \* the buffer
    delivered,        \* the requests the caller got out of it
    faults            \* faults so far

buffer == <<segments, total_len, next_expected_segment_num>>
vars == <<train, fragment, wire, buffer, delivered, faults>>

Init ==
    /\ train = 1 /\ fragment = 1 /\ wire = <<>>
    /\ segments = <<>> /\ total_len = 0 /\ next_expected_segment_num = 0
    /\ delivered = {} /\ faults = 0

-----------------------------------------------------------------------------
(* Lengths, in octets and quadlets. *)

ACF_ABB_HEADER_LEN == 8
QUADLET_LEN == 4

\* The pair (acf_msg_length, pad) of a message with that much payload.
quadlets_and_pad_for_message(payload_len) ==
    LET total == ACF_ABB_HEADER_LEN + payload_len
        pad == (-total) % QUADLET_LEN
    IN  [acf_msg_length |-> (total + pad) \div QUADLET_LEN, pad |-> pad]

\* Broken variant: leaves the length of the message as it was on the wire.
split_crc_trailer_unadjusted(frame) == frame

\* The frame without its CRC quadlet.
split_crc_trailer(frame) == [frame EXCEPT !.acf_msg_length = @ - 1]

\* The frame with one more quadlet, for the CRC.
finalize_crc_trailer(frame) == [frame EXCEPT !.acf_msg_length = @ + 1]

\* The octets behind the NTSCF header: all that arrived, whatever
\* ntscf_data_length says; extra is what the network cut off or filled up.
decode_ntscf_frame(frame) == frame.acf_msg_length * QUADLET_LEN + frame.extra

\* The length of the payload a decoded header describes, and whether the
\* octets that are there reach that far.
described_payload(frame) == frame.acf_msg_length * QUADLET_LEN - ACF_ABB_HEADER_LEN - frame.pad
take_message_bytes(frame) == frame.acf_msg_length * QUADLET_LEN <= decode_ntscf_frame(frame)

-----------------------------------------------------------------------------
(* The safe-point CRC, taken to be one-to-one: two frames have the same CRC *)
(* when the header of the final fragment and the covered payload agree.     *)

crc32_tc18_for_fragment_train(final, payloads) ==
    [length |-> final.acf_msg_length + 1, pad |-> final.pad,
     segment_num |-> final.segment_num, covered |-> payloads]

\* What the sender puts on the wire for fragment i of train t.
Payload(t, i) == [of |-> <<t, i>>, len |-> Trains[t][i]]
Whole(t)      == [i \in DOMAIN Trains[t] |-> Payload(t, i)]

Frame(t, i) ==
    LET lengths == quadlets_and_pad_for_message(Trains[t][i])
        plain == [of |-> <<t, i>>, segment_num |-> i - 1, ms |-> i < Len(Trains[t]),
                  acf_msg_length |-> lengths.acf_msg_length, pad |-> lengths.pad,
                  crc |-> <<>>, extra |-> 0]
    IN  IF plain.ms THEN plain
        ELSE finalize_crc_trailer(
               [plain EXCEPT !.crc = <<crc32_tc18_for_fragment_train(plain, Whole(t))>>])

\* A message whose length does not fit its field does not encode (InvalidSize).
Encodable(t) == \A i \in DOMAIN Trains[t] : Frame(t, i).acf_msg_length <= LengthMax

Send ==
    /\ train <= Len(Trains)
    /\ IF Encodable(train)
       THEN /\ wire' = Append(wire, Frame(train, fragment))
            /\ LET last == fragment = Len(Trains[train])
               IN  /\ train' = IF last THEN train + 1 ELSE train
                   /\ fragment' = IF last THEN 1 ELSE fragment + 1
       ELSE train' = train + 1 /\ UNCHANGED <<wire, fragment>>
    /\ UNCHANGED <<buffer, delivered, faults>>

\* The network loses, repeats, overtakes, cuts off or fills up a frame.
Fault ==
    /\ faults < MaxFaults /\ faults' = faults + 1
    /\ \/ /\ "lose" \in Faults
          /\ \E i \in DOMAIN wire : wire' = RemoveAt(wire, i)
       \/ /\ "repeat" \in Faults
          /\ \E i \in DOMAIN wire : wire' = InsertAt(wire, i, wire[i])
       \/ /\ "reorder" \in Faults
          /\ \E i \in 1 .. Len(wire) - 1 :
               wire' = [wire EXCEPT ![i] = wire[i + 1], ![i + 1] = wire[i]]
       \/ /\ "resize" \in Faults
          /\ \E i \in DOMAIN wire, extra \in {-1, QUADLET_LEN} :
               wire' = [wire EXCEPT ![i].extra = extra]
    /\ UNCHANGED <<train, fragment, buffer, delivered>>

-----------------------------------------------------------------------------
(* The receiver. *)

fragmentation_supported == MaxRequestSize # 0

\* Broken variant: bounds the fragment where the code bounds the request.
accept_fragment_each(segment_num, len) ==
    IF ~fragmentation_supported THEN "UnsupportedCmd"
    ELSE IF segment_num # next_expected_segment_num THEN "InvalidParameter"
    ELSE IF len > MaxRequestSize THEN "PayloadTooLarge"
    ELSE "Ok"

\* What accept_fragment says; only "Ok" changes the buffer.
accept_fragment(segment_num, len) ==
    IF ~fragmentation_supported THEN "UnsupportedCmd"
    ELSE IF segment_num # next_expected_segment_num THEN "InvalidParameter"
    ELSE IF total_len + len > MaxRequestSize THEN "PayloadTooLarge"
    ELSE "Ok"

reset ==
    /\ segments' = <<>> /\ total_len' = 0 /\ next_expected_segment_num' = 0

\* A final fragment is split first.  The CRC is the last quadlet that arrived.
Decoded(frame) ==
    LET plain == IF frame.ms THEN frame ELSE split_crc_trailer(frame)
    IN  [header |-> plain, crc |-> IF frame.extra = 0 THEN frame.crc ELSE << >>,
         payload |-> [of |-> frame.of, len |-> described_payload(plain)]]

\* check_fragment_crc_placement: a CRC on the final fragment and only there.
check_fragment_crc_placement(ms, crc_present) == ms # crc_present

\* Broken variant: covers the final fragment's own payload only.
verify_reassembled_train_crc_final(frame, payloads) ==
    LET whole == crc32_tc18_for_fragment_train(Decoded(frame).header, payloads)
    IN  \E crc \in ToSet(Decoded(frame).crc) :
          [crc EXCEPT !.covered = Last(@)] = [whole EXCEPT !.covered = Last(@)]

\* The CRC over what the buffer holds is the one the final fragment carried.
verify_reassembled_train_crc(frame, payloads) ==
    /\ check_fragment_crc_placement(FALSE, frame.crc # <<>>)
    /\ Decoded(frame).crc = <<crc32_tc18_for_fragment_train(Decoded(frame).header, payloads)>>

\* The caller takes the next frame and feeds it; an error may make it reset.
Refuse(answer) ==
    /\ answer # "Ok"
    /\ reset \/ UNCHANGED buffer
    /\ UNCHANGED delivered

Store(payload) ==
    /\ segments' = Append(segments, payload)
    /\ total_len' = total_len + payload.len
    /\ next_expected_segment_num' = next_expected_segment_num + 1
    /\ UNCHANGED delivered

\* Complete: the caller verifies, takes the request if it may, and resets.
Complete(frame, payload) ==
    /\ delivered' = IF verify_reassembled_train_crc(frame, Append(segments, payload))
                    THEN delivered \cup {Append(segments, payload)} ELSE delivered
    /\ reset

Receive ==
    /\ wire # <<>> /\ wire' = Tail(wire)
    /\ LET frame == Head(wire)
           payload == Decoded(frame).payload
           answer == IF ~take_message_bytes(Decoded(frame).header) THEN "ShortFrame"
                     ELSE accept_fragment(frame.segment_num, payload.len)
       IN  \/ Refuse(answer)
           \/ answer = "Ok" /\ frame.ms /\ Store(payload)
           \/ answer = "Ok" /\ ~frame.ms /\ Complete(frame, payload)
    /\ UNCHANGED <<train, fragment, faults>>

\* Everything is sent and received.
Done == train > Len(Trains) /\ wire = <<>> /\ UNCHANGED vars

Next == Send \/ Fault \/ Receive \/ Done

Spec == Init /\ [][Next]_vars

-----------------------------------------------------------------------------
Payloads == [of : (DOMAIN Trains) \X Nat, len : Nat]

TypeOK ==
    /\ train \in 1 .. Len(Trains) + 1 /\ fragment \in Nat \ {0} /\ faults \in 0 .. MaxFaults
    /\ segments \in Seq(Payloads) /\ \A r \in delivered : r \in Seq(Payloads)
    /\ total_len \in 0 .. MaxRequestSize /\ next_expected_segment_num \in Nat

(* What the buffer holds is fragments 0, 1, 2 ... of trains, each as long   *)
(* as it was sent, none twice and none left out, and no more than the       *)
(* stream allows, whatever was lost, repeated, overtaken, cut or filled up  *)
(* and whenever the caller resets; but not always of one train.             *)
BufferedInOrder ==
    /\ Len(segments) = next_expected_segment_num
    /\ total_len <= MaxRequestSize
    /\ \A i \in DOMAIN segments :
         segments[i].of[2] = i /\ segments[i] = Payload(segments[i].of[1], i)

(* A request that passes the CRC is one request that was sent, whole: a     *)
(* prefix of one train closed by the end of the next is found out.          *)
DeliveredWhole == \A r \in delivered : \E t \in DOMAIN Trains : r = Whole(t)

Total(lengths) ==
    LET sum[i \in 0 .. Len(lengths)] == IF i = 0 THEN 0 ELSE sum[i - 1] + lengths[i]
    IN  sum[Len(lengths)]

Fits(t) == fragmentation_supported /\ Encodable(t) /\ Total(Trains[t]) <= MaxRequestSize

(* On an undisturbed network every request arrives, up to the first that    *)
(* is too large for the stream or for a frame; and none that is too large   *)
(* ever does, in one piece or pieced together.                              *)
FittingRequestsArrive ==
    /\ faults = 0 /\ wire = <<>> =>
         \A t \in 1 .. train - 1 : (\A u \in 1 .. t : Fits(u)) => Whole(t) \in delivered
    /\ \A t \in DOMAIN Trains : Whole(t) \in delivered => Fits(t)
=============================================================================
