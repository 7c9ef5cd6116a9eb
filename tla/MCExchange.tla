----------------------------- MODULE MCExchange -----------------------------
(* Small instances of Exchange for TLC. *)
EXTENDS Exchange

Abb(b) == [bus |-> b, format |-> "ACF_ABB"]
Gbb(b) == [bus |-> b, format |-> "ACF_GBB"]

\* Two buses, and one of them in either format.
MixedHeaders == {Abb(1), Abb(2), Gbb(1)}
OneHeader    == {Abb(1)}
=============================================================================
