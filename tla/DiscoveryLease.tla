--------------------------- MODULE DiscoveryLease ---------------------------
(***************************************************************************)
(* What the discovery claim of an RC Server promises: a lease with at most *)
(* one holder.  Whoever is granted it names the instant the grant counts   *)
(* from, an instant that has passed; nobody else is granted it before the  *)
(* timeout has run from that instant.                                      *)
(***************************************************************************)
EXTENDS Integers

CONSTANTS Streams, NoStream, Timeout

VARIABLES holder, since, clock

Elapsed(at) == IF at >= since THEN at - since ELSE 0

Free(who, at) == holder \in {NoStream, who} \/ Elapsed(at) >= Timeout

Init ==
    /\ holder = NoStream
    /\ since = 0
    /\ clock = 0

Grant(who) ==
    \E at \in 0..clock :
        /\ Free(who, at)
        /\ holder' = who
        /\ since' = at
        /\ UNCHANGED clock

Pass ==
    /\ clock' = clock + 1
    /\ UNCHANGED <<holder, since>>

Next == Pass \/ \E who \in Streams : Grant(who)

Spec == Init /\ [][Next]_<<holder, since, clock>>
=============================================================================
