------------------------------ MODULE LeasePool ------------------------------
(***************************************************************************)
(* What a bounded pool of exclusively leased resources promises, whatever  *)
(* it does inside: a resource is leased to one client at a time, at most   *)
(* MaxConnections resources belong to the pool, and a leased resource      *)
(* leaves the pool only when the whole pool is shut down.                  *)
(* OLTConnectionPool implements this specification.                        *)
(***************************************************************************)
EXTENDS Naturals, FiniteSets

CONSTANTS Clients,        \* the threads that call the pool
          Adapters,       \* the resources
          MaxConnections, \* how many resources may belong to the pool
          NoAdapter       \* "holds nothing"

VARIABLES lease,  \* lease[c]: the resource client c holds, or NoAdapter
          slots   \* the resources that belong to the pool

leaseVars == <<lease, slots>>

Leased == {lease[c] : c \in Clients} \ {NoAdapter}

LeaseInit ==
    /\ lease = [c \in Clients |-> NoAdapter]
    /\ slots = {}

\* The pool may replace, add and drop resources nobody holds, up to its limit.
\* A resource that is leased but left the pool at a shutdown never comes back.
Turnover ==
    /\ slots' \subseteq Adapters
    /\ Cardinality(slots') <= MaxConnections
    /\ slots \cap Leased \subseteq slots'
    /\ slots' \cap Leased \subseteq slots

Grant(c, a) ==
    /\ lease[c] = NoAdapter
    /\ a \notin Leased
    /\ Turnover
    /\ a \in slots'
    /\ lease' = [lease EXCEPT ![c] = a]

Return(c) ==
    /\ lease' = [lease EXCEPT ![c] = NoAdapter]
    /\ UNCHANGED slots

Maintain ==
    /\ Turnover
    /\ UNCHANGED lease

Shutdown ==
    /\ slots' = {}
    /\ UNCHANGED lease

LeaseNext ==
    \/ \E c \in Clients : Return(c) \/ \E a \in Adapters : Grant(c, a)
    \/ Maintain
    \/ Shutdown

LeaseSpec == LeaseInit /\ [][LeaseNext]_leaseVars

==============================================================================
