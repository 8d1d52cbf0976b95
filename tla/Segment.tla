-------------------------------- MODULE Segment --------------------------------
(***************************************************************************)
(* The network segment the two machines are in.  An address stands for its *)
(* last number, as switch_ip.sh takes the rest from the local address.     *)
(***************************************************************************)
EXTENDS Integers

CONSTANTS
    Host,           \* the machines the daemon is installed on
    LAST,           \* the highest address of the segment (254)
    ServiceIp,      \* server_ip: the address the two hosts pass on
    OtherMachines   \* addresses of machines that do not take part

ASSUME LastAssumption == LAST \in Nat /\ LAST >= 2

Address == 1 .. LAST

\* What a host has while its eth0 is down.  GetCurrentIp then returns the
\* loopback address, which no other host can reach either.
NoAddress == 0

Configured == Address \cup {NoAddress}

ASSUME ServiceIpAssumption == ServiceIp \in Address
ASSUME OtherMachinesAssumption == OtherMachines \subseteq Address \ {ServiceIp}

=============================================================================
