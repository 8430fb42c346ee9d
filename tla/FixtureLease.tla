---------------------------- MODULE FixtureLease ----------------------------
(***************************************************************************)
(* What the fixtures of a gate promise, whatever they are made of: the     *)
(* gate runs on all resources of what it asked for, they are its own until *)
(* it returns, and whoever closes the lease is told, when nothing is       *)
(* removed any more, all that is left of it; the report may name what is   *)
(* gone (internal/services Manager.Start and Lease.Close,                  *)
(* gates.withModuleServices).  ServiceLease implements it with programs of *)
(* docker calls and removals in an order.                                  *)
(***************************************************************************)
CONSTANTS
    Services,
    Resources,
    Needs,          \* Needs[s]: the resources of a service that runs
    Callers, Main,  \* who closes the lease, and who runs the gate
    None            \* not told yet

VARIABLES
    asked,          \* the services asked for
    stage,          \* of the lease
    held,           \* the lease's own resources that exist
    report,         \* what was not seen to be removed
    told            \* told[c]: the report as caller c got it, or None

leaseVars == <<asked, stage, held, report, told>>

Init ==
    /\ asked \in (SUBSET Services) \ {{}}
    /\ stage = "acquiring"
    /\ held = {} /\ report = {}
    /\ told = [c \in Callers |-> None]

\* Nothing is taken away while the services start.
Grows == held \subseteq held' /\ held' \subseteq Resources

Acquire ==
    /\ stage = "acquiring" /\ Grows
    /\ UNCHANGED <<asked, stage, report, told>>

\* The call that fails may have had an effect.
GiveUp ==
    /\ stage = "acquiring" /\ stage' = "closing" /\ Grows
    /\ UNCHANGED <<asked, report, told>>

Grant ==
    /\ stage = "acquiring" /\ stage' = "granted"
    /\ \A s \in asked : Needs[s] \subseteq held
    /\ UNCHANGED <<asked, held, report, told>>

\* The gate has returned: until now it had all it was granted.
Release ==
    /\ stage = "granted" /\ stage' = "closing"
    /\ UNCHANGED <<asked, held, report, told>>

Remove ==
    /\ stage = "closing" /\ held' \subseteq held
    /\ UNCHANGED <<asked, stage, report, told>>

\* The one cleanup is over: what is left is in its report.
Settle ==
    /\ stage = "closing" /\ stage' = "closed"
    /\ held \subseteq report' /\ report' \subseteq Resources
    /\ UNCHANGED <<asked, held, told>>

\* Every caller is told once, however many there are and whenever they ask.
Tell(c) ==
    /\ stage \in {"closed", "returned"} /\ told[c] = None
    /\ told' = [told EXCEPT ![c] = report]
    /\ UNCHANGED <<asked, stage, held, report>>

Return ==
    /\ stage = "closed" /\ stage' = "returned"
    /\ told[Main] # None
    /\ UNCHANGED <<asked, held, report, told>>

Next ==
    \/ Acquire \/ GiveUp \/ Grant \/ Release
    \/ Remove \/ Settle \/ (\E c \in Callers : Tell(c)) \/ Return

Spec == Init /\ [][Next]_leaseVars
=============================================================================
