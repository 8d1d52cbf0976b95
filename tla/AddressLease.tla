------------------------------ MODULE AddressLease ------------------------------
(***************************************************************************)
(* What the two scripts promise together, without their commands: each     *)
(* address is a lease.  A host takes one when nobody answers at it, gives  *)
(* leases up when it likes, may be silent while it holds some, and answers *)
(* only at an address it holds.  A lease is exclusive, except that nobody  *)
(* knows of the leases of a silent host: raced records that one of them    *)
(* has been taken by another host.                                         *)
(***************************************************************************)
EXTENDS Segment

VARIABLES
    held,       \* the addresses a host may answer at without asking again
    live,       \* the address it answers at
    linked,     \* the hosts reach each other
    raced       \* history: a lease has been taken that was held silently

leaseVars == <<held, live, linked, raced>>

LeaseInit ==
    /\ held \in [Host -> {{a} : a \in Address \ OtherMachines}]
    /\ \A g, h \in Host : g # h => held[g] \cap held[h] = {}
    /\ live \in [Host -> Address]
    /\ \A h \in Host : live[h] \in held[h]
    /\ linked = TRUE
    /\ raced = FALSE

\* A free address is leased, as far as h can see.  It does so with one lease at
\* most, does not answer at the new address yet, and another machine's is
\* never taken by a host that is on the network.
Lease(h, a) ==
    /\ \A b, c \in held[h] : b = c
    /\ live[h] # NoAddress => a \notin OtherMachines
    /\ live[h] # NoAddress /\ linked => \A g \in Host : live[g] # a
    /\ held' = [held EXCEPT ![h] = @ \cup {a}]
    /\ raced' = (raced \/ \E g \in Host \ {h} : a \in held[g])
    /\ UNCHANGED <<live, linked>>

\* h keeps some leases, and answers at one of them or at none.
Keep(h, kept) ==
    /\ kept \subseteq held[h]
    /\ held' = [held EXCEPT ![h] = kept]
    /\ \E a \in kept \cup {NoAddress} : live' = [live EXCEPT ![h] = a]
    /\ UNCHANGED <<linked, raced>>

SegmentChanges ==
    /\ linked' = ~linked
    /\ UNCHANGED <<held, live, raced>>

LeaseNext ==
    \/ \E h \in Host, a \in Address : Lease(h, a)
    \/ \E h \in Host : \E kept \in SUBSET held[h] : Keep(h, kept)
    \/ SegmentChanges

LeaseSpec == LeaseInit /\ [][LeaseNext]_leaseVars

\* What the leases are for: until one has been taken that was held silently, no
\* two hosts hold the same address, or answer at it.
LeasesExclusive ==
    ~raced => \A g, h \in Host :
                  g # h => held[g] \cap held[h] = {}
                           /\ (live[g] # NoAddress => live[g] # live[h])

=============================================================================
