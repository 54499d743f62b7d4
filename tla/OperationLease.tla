-------------------------- MODULE OperationLease --------------------------
(***************************************************************************)
(* What operation-lease.ts promises of the global operation lease: one     *)
(* process at a time works under it, and nobody takes it from a live one.  *)
(***************************************************************************)
CONSTANTS Pid, Nobody

VARIABLES
    holder,         \* the process that holds the lease, or Nobody
    alive,          \* the processes that run
    inside          \* those that work under the lease

vars == <<holder, alive, inside>>

TypeOK == holder \in Pid \cup {Nobody} /\ alive \subseteq Pid /\ inside \subseteq alive

Init == holder = Nobody /\ alive = {} /\ inside = {}

Boot(p) == p \notin alive /\ alive' = alive \cup {p} /\ UNCHANGED <<holder, inside>>

\* A process that stops leaves the lease behind.
Stop(p) ==
    /\ p \in alive
    /\ alive' = alive \ {p}
    /\ inside' = inside \ {p}
    /\ UNCHANGED holder

Acquire(p) ==
    /\ p \in alive
    /\ holder = Nobody /\ inside = {}
    /\ holder' = p /\ inside' = {p}
    /\ UNCHANGED alive

\* By its holder, at the end of its work; it may stop with this very step.
Release(p) ==
    /\ holder = p /\ inside = {p}
    /\ holder' = Nobody /\ inside' = {}
    /\ alive' \in {alive, alive \ {p}}

\* An error in the release: the work is over and the lease stays.
Leave(p) ==
    /\ holder = p /\ inside = {p}
    /\ inside' = {}
    /\ UNCHANGED <<holder, alive>>

\* By a live process, from a dead one.
Reclaim(p) ==
    /\ p \in alive
    /\ holder # Nobody /\ holder \notin alive
    /\ holder' = Nobody
    /\ UNCHANGED <<alive, inside>>

Next == \E p \in Pid :
    Boot(p) \/ Stop(p) \/ Acquire(p) \/ Release(p) \/ Leave(p) \/ Reclaim(p)

Spec == Init /\ [][Next]_vars
=============================================================================
