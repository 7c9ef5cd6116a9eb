----------------------------- MODULE Lifecycle -----------------------------
(***************************************************************************)
(* The lifecycle of an RC Server (src/src/lifecycle.rs) and the access     *)
(* rules of its pseudo-endpoint EP0 (src/src/ep0.rs): pure decisions, no   *)
(* state.  RcServer and UdpRcServer keep the state and ask these.          *)
(***************************************************************************)
EXTENDS Integers

RcServerStates == {"HwUnconfigured", "HwConfigured", "RcpConfigured"}
INITIAL == "HwUnconfigured"

RegisterCategories == {"General", "HwConfig", "RcpConfig"}

\* General and HwConfig registers are visible in every state, RcpConfig
\* registers once the hardware is configured.
is_register_reachable(s, category) ==
    category = "RcpConfig" => s # "HwUnconfigured"

\* Broken variant: every category locked for good.
lock_policy_uniform(category) == "WStar"

lock_policy(category) == IF category = "HwConfig" THEN "WStar" ELSE "W"

\* A W* category is locked for good in RcpConfigured.
is_register_writable(s, category) ==
    /\ is_register_reachable(s, category)
    /\ lock_policy(category) = "WStar" => s # "RcpConfigured"

check_register_reachable(s, category) ==
    IF is_register_reachable(s, category) THEN "Ok" ELSE "UnauthorizedAccess"

check_register_writable(s, category) ==
    CASE ~is_register_reachable(s, category) -> "UnauthorizedAccess"
      [] is_register_writable(s, category)   -> "Ok"
      [] OTHER                               -> "LockedMemAccess"

\* Broken variant: a way back out of RcpConfigured.
is_transition_defined_back(from, to) ==
    <<from, to>> \in {<<"HwUnconfigured", "HwConfigured">>,
                      <<"HwConfigured", "RcpConfigured">>,
                      <<"HwConfigured", "HwUnconfigured">>,
                      <<"RcpConfigured", "HwConfigured">>}

is_transition_defined(from, to) ==
    <<from, to>> \in {<<"HwUnconfigured", "HwConfigured">>,
                      <<"HwConfigured", "RcpConfigured">>,
                      <<"HwConfigured", "HwUnconfigured">>}

\* The two moves up ask the caller's consistency closure; the demotion does not.
is_guarded(from, to) ==
    is_transition_defined(from, to) /\ to # "HwUnconfigured"

\* What RcServerState::try_transition answers, consistent being the verdict
\* of the closure.
try_transition(from, to, consistent) ==
    CASE ~is_transition_defined(from, to)      -> "RequestRejected"
      [] is_guarded(from, to) /\ ~consistent   -> "InvalidParameter"
      [] OTHER                                 -> "Ok"

-----------------------------------------------------------------------------
EP0_BYTE_BUS_ID == 0

is_root_client(root, stream) == root = stream

check_ep0_access(s, category, write) ==
    IF write THEN check_register_writable(s, category)
             ELSE check_register_reachable(s, category)

\* Broken variant: the root client is not asked for.
check_ep0_access_any_stream(s, category, write, stream, root) ==
    check_ep0_access(s, category, write)

\* Reads are open to every stream, writes to the root client alone.
check_ep0_access_for_stream(s, category, write, stream, root) ==
    IF write /\ ~is_root_client(root, stream)
    THEN "UnauthorizedAccess"
    ELSE check_ep0_access(s, category, write)

-----------------------------------------------------------------------------
(* The errors of RcpError these components meet; WireErrors are those with a
   Table 27 code, i.e. tc18_wire_code() is Some (src/src/lib.rs). *)
WireErrors == {"UnauthorizedAccess", "LockedMemAccess", "EpError", "EpNotFound",
               "RequestRejected", "InvalidParameter"}
LocalErrors == {"ShortFrame", "InvalidSize", "Timeout", "Busy", "Closed"}
=============================================================================
