--------------------------- MODULE AddressLeaseProofs ---------------------------
(***************************************************************************)
(* The two scripts, killed and restarted at any point, implement the       *)
(* leases of AddressLease, for any number of hosts on any segment.         *)
(*                                                                         *)
(* The argument: by ClaimsDoNotGrow a command other than a ping keeps a    *)
(* part of the host's claims; it leaves the other hosts alone              *)
(* (OthersKeep), and the host answers at an address it claims or at none.  *)
(* A ping adds one address to the claims of a host that is not within a    *)
(* restart and so, by BootsWithSameAddress, has at most one.  What the     *)
(* leases promise is proved of AddressLease alone.                         *)
(***************************************************************************)
EXTENDS SwitchScriptsProofs

\* The two modules share the segment.
LEMMA SameSegment == Leases!Address = Address /\ Leases!NoAddress = NoAddress
  BY DEF Leases!Address, Address, Leases!NoAddress, NoAddress

\* The steps of host h change nothing another host answers at or will.
LEMMA OthersKeep ==
  ASSUME ScriptTypeOK, NEW h \in Host, NEW g \in Host \ {h},
         ScriptStep(h) \/ ScriptEnvironment(h)
  PROVE  Claims(g)' = Claims(g) /\ eth0'[g] = eth0[g]
<1> USE DEF ScriptTypeOK, Claims, run, shellVars, ShellEnds
<1>1. CASE ScriptEnvironment(h)
  BY <1>1 DEF ScriptEnvironment, auto_switch_ip, StartSwitchServer,
     KillScript, HostDown, HostUp, NetworkStarted, ServicesChange
<1>2. CASE ScanAnswered(h) \/ ScanFree(h) \/ ScanExhausted(h) \/ AutoNetStop(h)
  BY <1>2 DEF ScanAnswered, ScanFree, TakesForFree, ScanExhausted, AutoNetStop
<1>3. CASE stop_mysql(h) \/ PingAnswered(h) \/ PingFree(h) \/ NetStop(h)
  BY <1>3 DEF stop_mysql, PingAnswered, PingFree, TakesForFree, NetStop
<1>4. ASSUME NEW ok \in BOOLEAN,
             AutoNetStart(h, ok) \/ NetStart(h, ok) \/ Recover(h, ok)
                 \/ fix_services_ip(h, ok)
      PROVE  Claims(g)' = Claims(g) /\ eth0'[g] = eth0[g]
  BY <1>4 DEF AutoNetStart, NetStart, Recover, fix_services_ip
<1>5. ASSUME NEW started \in CemsStarts, StartCems(h, started)
      PROVE  Claims(g)' = Claims(g) /\ eth0'[g] = eth0[g]
  BY <1>5 DEF StartCems
<1>6. CASE ScriptReturns(h)
  BY <1>6 DEF ScriptReturns
<1> QED
  BY <1>1, <1>2, <1>3, <1>4, <1>5, <1>6 DEF ScriptStep

\* A command that is not a ping gives leases up, and takes none.
LEMMA CommandKeeps ==
  ASSUME ScriptInv, ScriptInv', NEW h \in Host,
         ScriptStep(h) \/ ScriptEnvironment(h), ~ScanFree(h), ~PingFree(h)
  PROVE  Leases!Keep(h, Claims(h)')
<1>1. Claims(h)' \subseteq Claims(h)
  BY ClaimsDoNotGrow DEF ScriptStep, ScriptInv
<1>2. [k \in Host |-> Claims(k)'] =
          [[k \in Host |-> Claims(k)] EXCEPT ![h] = Claims(h)']
  BY OthersKeep DEF ScriptInv
<1>3. eth0' = [eth0 EXCEPT ![h] = eth0'[h]]
  <2>1. eth0 \in [Host -> Configured] /\ eth0' \in [Host -> Configured]
    BY DEF ScriptInv, ScriptTypeOK
  <2>2. \A g \in Host \ {h} : eth0'[g] = eth0[g]
    BY OthersKeep DEF ScriptInv
  <2> QED
    BY <2>1, <2>2
<1>4. eth0'[h] \in Claims(h)' \cup {NoAddress}
  BY DEF Claims
<1>5. UNCHANGED <<linked, raced>>
  BY DEF ScriptStep, ScanAnswered, ScanExhausted, AutoNetStop, stop_mysql,
     PingAnswered, NetStop, AutoNetStart, NetStart, Recover, fix_services_ip,
     StartCems, ScriptReturns, ScriptEnvironment, auto_switch_ip,
     StartSwitchServer, KillScript, HostDown, HostUp, NetworkStarted,
     ServicesChange
<1> QED
  BY <1>1, <1>2, <1>3, <1>4, <1>5, SameSegment DEF Leases!Keep

\* A ping that is not answered takes the lease of the address it asked for.
LEMMA PingLeases ==
  ASSUME ScriptInv, NEW h \in Host, NEW a \in Address,
         \/ ScanFree(h) /\ a = tmp[h]
         \/ PingFree(h) /\ a = ServiceIp
  PROVE  Leases!Lease(h, a)
<1>1. TakesForFree(h, a) /\ UNCHANGED <<eth0, linked>>
  BY DEF ScanFree, PingFree
<1>2. \A b, c \in Claims(h) : b = c
  BY DEF ScanFree, PingFree, run, Claims, ScriptInv, ScriptTypeOK,
     BootsWithSameAddress
<1>3. [k \in Host |-> Claims(k)'] =
          [[k \in Host |-> Claims(k)] EXCEPT ![h] = Claims(h) \cup {a}]
  <2>1. Claims(h)' = Claims(h) \cup {a}
    BY LastAssumption, a # NoAddress
    DEF ScanFree, PingFree, run, shellVars, Claims, ScriptInv, ScriptTypeOK,
        Address, NoAddress
  <2>2. \A k \in Host \ {h} : Claims(k)' = Claims(k)
    BY PingClaims DEF ScriptInv
  <2> QED
    BY <2>1, <2>2
<1>4. /\ eth0[h] # NoAddress => a \notin OtherMachines
      /\ eth0[h] # NoAddress /\ linked => \A g \in Host : eth0[g] # a
  BY <1>1 DEF TakesForFree, Answered
<1>5. raced' = (raced \/ \E g \in Host \ {h} :
                             a \in [k \in Host |-> Claims(k)][g])
  BY <1>1 DEF TakesForFree
<1> QED
  BY <1>1, <1>2, <1>3, <1>4, <1>5, SameSegment DEF Leases!Lease

\* The hosts start with a lease each.
LEMMA LeasesInit ==
  ASSUME NEW home \in HomeAddresses, ScriptInit(home)
  PROVE  Leases!LeaseInit
<1>1. home \in [Host -> Address \ OtherMachines] /\ Distinct(home)
  BY DEF HomeAddresses
<1>2. \A h \in Host : home[h] # NoAddress
  BY <1>1, LastAssumption DEF Address, NoAddress
<1>3. \A h \in Host : Claims(h) = {home[h]}
  BY <1>2 DEF ScriptInit, Claims
<1>4. \A g, h \in Host : g # h => Claims(g) \cap Claims(h) = {}
  BY <1>1, <1>3 DEF Distinct
<1> QED
  BY <1>1, <1>3, <1>4, SameSegment DEF ScriptInit, Leases!LeaseInit

LEMMA LeasesStep ==
  ASSUME ScriptInv, ScriptInv', [ScriptNext]_scriptVars
  PROVE  [Leases!LeaseNext]_(Leases!leaseVars)
<1>1. ASSUME NEW h \in Host, ScriptStep(h) \/ ScriptEnvironment(h)
      PROVE  Leases!LeaseNext
  <2>1. CASE ScanFree(h)
    <3>1. tmp[h] \in Address
      BY <2>1, LastAssumption DEF ScanFree, ScriptInv, ScriptTypeOK, Address
    <3> QED
      BY <2>1, <3>1, PingLeases, SameSegment DEF Leases!LeaseNext
  <2>2. CASE PingFree(h)
    BY <2>2, ServiceIpAssumption, PingLeases, SameSegment DEF Leases!LeaseNext
  <2>3. CASE ~ScanFree(h) /\ ~PingFree(h)
    <3>1. Leases!Keep(h, Claims(h)')
      BY <1>1, <2>3, CommandKeeps
    <3>2. Claims(h)' \in SUBSET [k \in Host |-> Claims(k)][h]
      BY <3>1 DEF Leases!Keep
    <3> QED
      BY <3>1, <3>2 DEF Leases!LeaseNext
  <2> QED
    BY <2>1, <2>2, <2>3
<1>2. CASE LinkChanges
  <2>1. \A k \in Host : Claims(k)' = Claims(k)
    BY <1>2 DEF LinkChanges, Claims, shellVars
  <2>2. Leases!SegmentChanges
    BY <1>2, <2>1 DEF LinkChanges, Leases!SegmentChanges
  <2> QED
    BY <2>2 DEF Leases!LeaseNext
<1>3. CASE UNCHANGED scriptVars
  BY <1>3 DEF scriptVars, shellVars, Claims, Leases!leaseVars
<1> QED
  BY <1>1, <1>2, <1>3 DEF ScriptNext

\* switch_ip.sh and switch_server.sh, with kills, crashes, boots and repairs
\* between any two of their commands, hand addresses out as leases.
THEOREM ScriptsImplementLeases == ScriptSpec => ImplementsLeases
<1>1. (\E home \in HomeAddresses : ScriptInit(home)) => Leases!LeaseInit
  BY LeasesInit
<1>2. ScriptInv /\ ScriptInv' /\ [ScriptNext]_scriptVars
          => [Leases!LeaseNext]_(Leases!leaseVars)
  BY LeasesStep
<1> QED
  BY <1>1, <1>2, ScriptInvariant, PTL
  DEF ScriptSpec, ImplementsLeases, Leases!LeaseSpec

-----------------------------------------------------------------------------
(* What the leases promise in their turn *)

LeaseInv ==
    /\ eth0 \in [Host -> Configured]
    /\ \A h \in Host : /\ Claims(h) \subseteq Address
                       /\ eth0[h] \in Claims(h) \cup {NoAddress}
    /\ DisjointClaims

LEMMA LeaseInvInit == Leases!LeaseInit => LeaseInv
  BY SameSegment
  DEF Leases!LeaseInit, LeaseInv, DisjointClaims, Configured, Address, NoAddress

LEMMA LeaseInvStep ==
  ASSUME LeaseInv, [Leases!LeaseNext]_(Leases!leaseVars)
  PROVE  LeaseInv'
<1> USE DEF LeaseInv, DisjointClaims
<1>1. ASSUME NEW h \in Host, NEW a \in Address, Leases!Lease(h, a)
      PROVE  LeaseInv'
  <2>1. [k \in Host |-> Claims(k)'] =
            [[k \in Host |-> Claims(k)] EXCEPT ![h] = @ \cup {a}]
    BY <1>1 DEF Leases!Lease
  <2>2. /\ \A g \in Host \ {h} : Claims(g)' = Claims(g)
        /\ Claims(h)' = Claims(h) \cup {a}
    BY <2>1
  <2>3. eth0' = eth0
    BY <1>1 DEF Leases!Lease
  <2>4. ~raced' => ~raced /\ \A g \in Host \ {h} : a \notin Claims(g)
    <3>1. raced' = (raced \/ \E g \in Host \ {h} :
                                 a \in [k \in Host |-> Claims(k)][g])
      BY <1>1 DEF Leases!Lease
    <3>2. \A g \in Host : [k \in Host |-> Claims(k)][g] = Claims(g)
      OBVIOUS
    <3> HIDE DEF LeaseInv, DisjointClaims
    <3> QED
      BY <3>1, <3>2, Zenon
  <2>5. DisjointClaims'
    BY <2>2, <2>4
  <2> QED
    BY <2>2, <2>3, <2>5
<1>2. ASSUME NEW h \in Host, NEW kept, Leases!Keep(h, kept)
      PROVE  LeaseInv'
  <2>1. /\ [k \in Host |-> Claims(k)'] =
               [[k \in Host |-> Claims(k)] EXCEPT ![h] = kept]
        /\ kept \subseteq Claims(h)
    BY <1>2 DEF Leases!Keep
  <2>2. /\ \A g \in Host \ {h} : Claims(g)' = Claims(g)
        /\ Claims(h)' = kept
    BY <2>1
  <2>3. PICK a \in kept \cup {NoAddress} : eth0' = [eth0 EXCEPT ![h] = a]
    BY <1>2, SameSegment DEF Leases!Keep
  <2>4. raced' = raced
    BY <1>2 DEF Leases!Keep
  <2>5. a \in Configured
    BY <2>1, <2>3 DEF Configured
  <2> QED
    BY <2>1, <2>2, <2>3, <2>4, <2>5
<1>3. CASE Leases!SegmentChanges \/ UNCHANGED Leases!leaseVars
  <2>1. /\ [k \in Host |-> Claims(k)'] = [k \in Host |-> Claims(k)]
        /\ eth0' = eth0 /\ raced' = raced
    BY <1>3 DEF Leases!SegmentChanges, Leases!leaseVars
  <2> QED
    BY <2>1
<1> QED
  BY <1>1, <1>2, <1>3, SameSegment DEF Leases!LeaseNext

\* Whoever keeps to the leases, with whatever commands: until one has been taken
\* that was held silently, each address is held, and answered at, by one host.
THEOREM LeasesAreExclusive == Leases!LeaseSpec => []Leases!LeasesExclusive
<1>1. LeaseInv => Leases!LeasesExclusive
  BY SameSegment DEF LeaseInv, DisjointClaims, Leases!LeasesExclusive
<1> QED
  BY <1>1, LeaseInvInit, LeaseInvStep, PTL DEF Leases!LeaseSpec

=============================================================================
