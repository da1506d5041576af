---------------------------- MODULE SessionLeases ----------------------------
(***************************************************************************)
(* What the server promises about the connections MCP sessions register:   *)
(* each is a lease out of a process-wide budget, leases come and go, and a *)
(* session that is gone holds none and never gets another one.             *)
(***************************************************************************)
EXTENDS Naturals, FiniteSets

CONSTANTS Holders, Names, Limit

VARIABLES
    leases,   \* the leases held, as <<holder, name>>
    gone      \* the holders that have ended and been cleaned up

leaseVars == <<leases, gone>>

LeaseInit == leases = {} /\ gone = {}

Acquire(h, n) ==
    /\ h \notin gone
    /\ <<h, n>> \notin leases
    /\ Cardinality(leases) < Limit
    /\ leases' = leases \cup {<<h, n>>}
    /\ UNCHANGED gone

\* Leases are given back; process exit gives back all.
GiveBack ==
    /\ leases' \in SUBSET leases
    /\ UNCHANGED gone

\* A holder is gone for good once it holds nothing.
Leave(h) ==
    /\ \A n \in Names : <<h, n>> \notin leases
    /\ gone' = gone \cup {h}
    /\ UNCHANGED leases

\* A holder gives back its last lease and is gone in one step.
GiveBackAndLeave(h) ==
    /\ leases' = {l \in leases : l[1] # h}
    /\ gone' = gone \cup {h}

LeaseNext ==
    \/ \E h \in Holders, n \in Names : Acquire(h, n)
    \/ GiveBack
    \/ \E h \in Holders : Leave(h) \/ GiveBackAndLeave(h)

LeaseSpec == LeaseInit /\ [][LeaseNext]_leaseVars

=============================================================================
