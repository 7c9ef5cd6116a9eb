---------------------------- MODULE MCFragments -----------------------------
(* A small instance of Fragments for TLC. *)
EXTENDS Fragments

\* Two requests of the same shape, so that one can complete the other; an
\* empty fragment; one request over the stream's bound; one that is too long
\* for its length field once the CRC is counted in.
SentTrains == << <<1, 4, 3>>, <<2, 0, 3>>, <<5, 4, 1>>, <<25>>, <<6>> >>
=============================================================================
