----------------------------- MODULE MCRcServer -----------------------------
(* Small instances of RcServer for TLC. *)
EXTENDS RcServer, TLC

CONSTANTS w, w2, r, r2, a, a2, g0, g1

Read(bus, n) == [bus |-> bus, write |-> FALSE, txn |-> n, payload |-> Short]
Write(bus, n, value) == [bus |-> bus, write |-> TRUE, txn |-> n, payload |-> value]

\* Device traffic from two threads while a third registers endpoints, on a bus
\* past the 11-bit field among others.
RoutingMay == (w :> {"frame"}) @@ (w2 :> {"frame"}) @@ (r :> {"register"})
RoutingFrames == {<<Write(1, 1, g0), Read(2, 2)>>, <<Read(1, 1)>>}

\* A client of EP0 while one thread renames the root client and two move the
\* lifecycle.
Ep0May == (w :> {"frame"}) @@ (a :> {"transition", "root"}) @@ (a2 :> {"transition"})
Ep0Frames == {<<Write(0, 1, g1), Read(0, 2)>>, <<Write(0, 1, g0)>>,
              <<Read(0, 1), Write(0, 2, Short)>>}

\* Two registrations at once.
RaceMay == (r :> {"register"}) @@ (r2 :> {"register"})

\* Two clients write EP0 while the root client changes.
RevokeMay == (w :> {"frame"}) @@ (w2 :> {"frame"}) @@ (a :> {"root"})
RevokeFrames == {<<Write(0, 1, g0)>>, <<Write(0, 1, g1)>>}
=============================================================================
