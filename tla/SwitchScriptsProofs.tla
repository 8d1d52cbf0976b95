-------------------------- MODULE SwitchScriptsProofs --------------------------
(***************************************************************************)
(* The scripts' invariants for any number of hosts on any segment.         *)
(*                                                                         *)
(* The argument: Claims(h) collects every address h answers at or can come *)
(* back to unasked.  A step other than a ping never adds to it, so claims  *)
(* that are disjoint stay disjoint until a ping takes an address out of    *)
(* another host's claims, which is what raced records.                     *)
(***************************************************************************)
EXTENDS SwitchScripts, TLAPS

DisjointClaims ==
    ~raced => \A g, h \in Host : g # h => Claims(g) \cap Claims(h) = {}

\* Inside the restart the host is silent; local_ip and tmp are set.
Consistent ==
    \A h \in Host :
        /\ scriptPc[h] \in {"autoNetStart", "netStart", "recover"}
               => eth0[h] = NoAddress
        /\ scriptPc[h] \in {"netStart", "recover"} => IPADDR[h] = ServiceIp
        /\ scriptPc[h] \in {"scan", "autoNetStop"} => tmp[h] \in Nat
        /\ scriptPc[h] = "autoNetStop" => tmp[h] <= LAST
        /\ scriptPc[h] = "ping" => pings[h] < PING_MAX
        /\ scriptPc[h] \in {"idle", "stopServices"} => pings[h] = 0

ScriptInv ==
    /\ ScriptTypeOK
    /\ Consistent
    /\ BootsWithSameAddress
    /\ DisjointClaims

-----------------------------------------------------------------------------

\* No step but the two pings gives a host a claim it did not have.
LEMMA ClaimsDoNotGrow ==
  ASSUME NEW h \in Host, NEW g \in Host, ScriptTypeOK, Consistent,
         BootsWithSameAddress,
         \/ ScanAnswered(h) \/ ScanExhausted(h) \/ AutoNetStop(h)
         \/ stop_mysql(h) \/ PingAnswered(h) \/ NetStop(h)
         \/ ScriptReturns(h)
         \/ \E ok \in BOOLEAN : \/ AutoNetStart(h, ok) \/ NetStart(h, ok)
                                \/ Recover(h, ok) \/ fix_services_ip(h, ok)
         \/ \E started \in CemsStarts : StartCems(h, started)
         \/ ScriptEnvironment(h)
         \/ LinkChanges
  PROVE  Claims(g)' \subseteq Claims(g)
<1> USE DEF Claims, ScriptTypeOK, Consistent, BootsWithSameAddress,
        ScriptPc, run, shellVars, ShellEnds
<1>1. CASE ScanAnswered(h) \/ ScanExhausted(h) \/ AutoNetStop(h)
  BY <1>1 DEF ScanAnswered, ScanExhausted, AutoNetStop
<1>2. CASE stop_mysql(h) \/ PingAnswered(h)
  BY <1>2 DEF stop_mysql, PingAnswered
<1>3. CASE NetStop(h)
  BY <1>3 DEF NetStop
<1>4. CASE ScriptReturns(h)
  BY <1>4 DEF ScriptReturns
<1>5. ASSUME NEW ok \in BOOLEAN, AutoNetStart(h, ok) \/ NetStart(h, ok)
      PROVE  Claims(g)' \subseteq Claims(g)
  BY <1>5 DEF AutoNetStart, NetStart
<1>6. ASSUME NEW ok \in BOOLEAN, Recover(h, ok) \/ fix_services_ip(h, ok)
      PROVE  Claims(g)' \subseteq Claims(g)
  BY <1>6 DEF Recover, fix_services_ip
<1>7. ASSUME NEW started \in CemsStarts, StartCems(h, started)
      PROVE  Claims(g)' \subseteq Claims(g)
  BY <1>7 DEF StartCems
<1>8. CASE ScriptEnvironment(h)
  BY <1>8 DEF ScriptEnvironment, auto_switch_ip, StartSwitchServer,
     KillScript, HostDown, HostUp, NetworkStarted, ServicesChange
<1>9. CASE LinkChanges
  BY <1>9 DEF LinkChanges
<1> QED
  BY <1>1, <1>2, <1>3, <1>4, <1>5, <1>6, <1>7, <1>8, <1>9

\* A ping adds the address that did not answer, and to the host's own only.
LEMMA PingClaims ==
  ASSUME NEW h \in Host, NEW g \in Host, ScriptTypeOK,
         ScanFree(h) \/ PingFree(h)
  PROVE  /\ g # h => Claims(g)' = Claims(g)
         /\ ScanFree(h) => Claims(h)' \subseteq Claims(h) \cup {tmp[h]}
         /\ PingFree(h) => Claims(h)' \subseteq Claims(h) \cup {ServiceIp}
  BY DEF ScanFree, PingFree, TakesForFree, Claims, ScriptTypeOK, run, shellVars

LEMMA ScriptInvInit ==
  ASSUME NEW home \in HomeAddresses, ScriptInit(home)
  PROVE  ScriptInv
<1>0. home \in [Host -> Configured]
  BY DEF HomeAddresses, Configured
<1>1. ScriptTypeOK
  <2>1. /\ [h \in Host |-> 2] \in [Host -> 2 .. LAST + 1]
        /\ [h \in Host |-> 0] \in [Host -> 0 .. PING_MAX]
    BY LastAssumption, PingMaxAssumption
  <2>2. [h \in Host |-> NoAddress] \in [Host -> Configured]
    BY DEF Configured
  <2> QED
    BY <1>0, <2>1, <2>2 DEF ScriptInit, ScriptTypeOK, ScriptPc
<1>2. Consistent /\ BootsWithSameAddress
  BY PingMaxAssumption DEF ScriptInit, Consistent, BootsWithSameAddress
<1>3. DisjointClaims
  BY DEF HomeAddresses, Distinct, ScriptInit, DisjointClaims, Claims
<1> QED
  BY <1>1, <1>2, <1>3 DEF ScriptInv

\* The type invariant and what the program counters imply are kept.
LEMMA ConsistentStep ==
  ASSUME ScriptTypeOK, Consistent, BootsWithSameAddress, ScriptNext
  PROVE  (ScriptTypeOK /\ Consistent /\ BootsWithSameAddress)'
<1> USE LastAssumption, PingMaxAssumption, ServiceIpAssumption,
        CemsStartsAssumption, ServiceStatesAssumption
    DEF ScriptTypeOK, Consistent, BootsWithSameAddress, ScriptPc, Configured,
        Address, NoAddress, run, shellVars, ShellEnds
<1>1. CASE LinkChanges
  BY <1>1 DEF LinkChanges
<1>2. ASSUME NEW h \in Host, ScriptStep(h)
      PROVE  (ScriptTypeOK /\ Consistent /\ BootsWithSameAddress)'
  <2>1. CASE ScanAnswered(h)
    BY <2>1 DEF ScanAnswered
  <2>2. CASE ScanFree(h)
    BY <2>2 DEF ScanFree, TakesForFree
  <2>3. CASE ScanExhausted(h)
    BY <2>3 DEF ScanExhausted
  <2>4. CASE AutoNetStop(h)
    BY <2>4 DEF AutoNetStop
  <2>5. CASE stop_mysql(h)
    BY <2>5 DEF stop_mysql
  <2>6. CASE PingAnswered(h)
    BY <2>6 DEF PingAnswered
  <2>7. CASE PingFree(h)
    BY <2>7 DEF PingFree, TakesForFree
  <2>8. CASE NetStop(h)
    BY <2>8 DEF NetStop
  <2>9. ASSUME NEW ok \in BOOLEAN, AutoNetStart(h, ok)
        PROVE  (ScriptTypeOK /\ Consistent /\ BootsWithSameAddress)'
    BY <2>9 DEF AutoNetStart
  <2>10. ASSUME NEW ok \in BOOLEAN, NetStart(h, ok)
         PROVE  (ScriptTypeOK /\ Consistent /\ BootsWithSameAddress)'
    BY <2>10 DEF NetStart
  <2>11. ASSUME NEW ok \in BOOLEAN, Recover(h, ok)
         PROVE  (ScriptTypeOK /\ Consistent /\ BootsWithSameAddress)'
    BY <2>11 DEF Recover
  <2>12. ASSUME NEW ok \in BOOLEAN, fix_services_ip(h, ok)
         PROVE  (ScriptTypeOK /\ Consistent /\ BootsWithSameAddress)'
    BY <2>12 DEF fix_services_ip
  <2>13. ASSUME NEW started \in CemsStarts, StartCems(h, started)
         PROVE  (ScriptTypeOK /\ Consistent /\ BootsWithSameAddress)'
    BY <2>13 DEF StartCems
  <2>14. CASE ScriptReturns(h)
    BY <2>14 DEF ScriptReturns
  <2> QED
    BY <1>2, <2>1, <2>2, <2>3, <2>4, <2>5, <2>6, <2>7, <2>8, <2>9, <2>10,
       <2>11, <2>12, <2>13, <2>14
    DEF ScriptStep
<1>3. ASSUME NEW h \in Host, ScriptEnvironment(h)
      PROVE  (ScriptTypeOK /\ Consistent /\ BootsWithSameAddress)'
  <2>1. CASE \E gateway \in BOOLEAN : auto_switch_ip(h, gateway)
    BY <2>1 DEF auto_switch_ip
  <2>2. CASE StartSwitchServer(h)
    BY <2>2 DEF StartSwitchServer
  <2>3. CASE KillScript(h)
    BY <2>3 DEF KillScript
  <2>4. CASE HostDown(h)
    BY <2>4 DEF HostDown
  <2>5. CASE HostUp(h)
    BY <2>5 DEF HostUp, Service
  <2>6. CASE NetworkStarted(h)
    BY <2>6 DEF NetworkStarted
  <2>7. ASSUME NEW running \in ServiceStates, ServicesChange(h, running)
        PROVE  (ScriptTypeOK /\ Consistent /\ BootsWithSameAddress)'
    BY <2>7 DEF ServicesChange
  <2> QED
    BY <1>3, <2>1, <2>2, <2>3, <2>4, <2>5, <2>6, <2>7 DEF ScriptEnvironment
<1> QED
  BY <1>1, <1>2, <1>3 DEF ScriptNext

\* Claims that are disjoint stay so, or raced says why not.
LEMMA DisjointStep ==
  ASSUME ScriptInv, ScriptNext
  PROVE  DisjointClaims'
<1> SUFFICES ASSUME ~raced', NEW g \in Host, NEW k \in Host, g # k
             PROVE  Claims(g)' \cap Claims(k)' = {}
  BY DEF DisjointClaims
<1>1. ASSUME NEW h \in Host, ScanFree(h) \/ PingFree(h)
      PROVE  Claims(g)' \cap Claims(k)' = {}
  <2>1. ~raced /\ Claims(g) \cap Claims(k) = {}
    BY <1>1 DEF ScanFree, PingFree, TakesForFree, ScriptInv, DisjointClaims
  <2>2. CASE ScanFree(h)
    <3>1. \A f \in Host \ {h} : tmp[h] \notin Claims(f)
      BY <2>2 DEF ScanFree, TakesForFree
    <3> QED
      BY <2>1, <2>2, <3>1, PingClaims DEF ScriptInv
  <2>3. CASE PingFree(h)
    <3>1. \A f \in Host \ {h} : ServiceIp \notin Claims(f)
      BY <2>3 DEF PingFree, TakesForFree
    <3> QED
      BY <2>1, <2>3, <3>1, PingClaims DEF ScriptInv
  <2> QED
    BY <1>1, <2>2, <2>3
<1>2. CASE \E h \in Host : ScriptStep(h) /\ ~ScanFree(h) /\ ~PingFree(h)
  <2>1. PICK h \in Host : ScriptStep(h) /\ ~ScanFree(h) /\ ~PingFree(h)
    BY <1>2
  <2>2. Claims(g)' \subseteq Claims(g) /\ Claims(k)' \subseteq Claims(k)
    BY <2>1, ClaimsDoNotGrow DEF ScriptStep, ScriptInv
  <2>3. raced' = raced
    BY <2>1 DEF ScriptStep, ScanAnswered, ScanExhausted, AutoNetStop,
       stop_mysql, PingAnswered, NetStop, AutoNetStart, NetStart, Recover,
       fix_services_ip, StartCems, ScriptReturns
  <2> QED
    BY <2>2, <2>3 DEF ScriptInv, DisjointClaims
<1>3. CASE \E h \in Host : ScriptEnvironment(h)
  <2>1. PICK h \in Host : ScriptEnvironment(h)
    BY <1>3
  <2>2. Claims(g)' \subseteq Claims(g) /\ Claims(k)' \subseteq Claims(k)
    BY <2>1, ClaimsDoNotGrow DEF ScriptInv
  <2>3. raced' = raced
    BY <2>1 DEF ScriptEnvironment, auto_switch_ip, StartSwitchServer,
       KillScript, HostDown, HostUp, NetworkStarted, ServicesChange
  <2> QED
    BY <2>2, <2>3 DEF ScriptInv, DisjointClaims
<1>4. CASE LinkChanges
  <2>1. Claims(g)' \subseteq Claims(g) /\ Claims(k)' \subseteq Claims(k)
    BY <1>4, ClaimsDoNotGrow DEF ScriptInv
  <2> QED
    BY <1>4, <2>1 DEF LinkChanges, ScriptInv, DisjointClaims
<1> QED
  BY <1>1, <1>2, <1>3, <1>4 DEF ScriptNext

LEMMA ScriptInvStep == ScriptInv /\ [ScriptNext]_scriptVars => ScriptInv'
<1>1. ASSUME ScriptInv, ScriptNext
      PROVE  ScriptInv'
  BY <1>1, ConsistentStep, DisjointStep DEF ScriptInv
<1>2. ASSUME ScriptInv, UNCHANGED scriptVars
      PROVE  ScriptInv'
  <2>1. ScriptTypeOK'
    BY <1>2 DEF scriptVars, shellVars, ScriptInv, ScriptTypeOK
  <2>2. Consistent' /\ BootsWithSameAddress'
    BY <1>2 DEF scriptVars, shellVars, ScriptInv, Consistent,
       BootsWithSameAddress
  <2>3. DisjointClaims'
    BY <1>2 DEF scriptVars, shellVars, ScriptInv, DisjointClaims, Claims
  <2> QED
    BY <2>1, <2>2, <2>3 DEF ScriptInv
<1> QED
  BY <1>1, <1>2

\* The inductive invariant holds throughout.
THEOREM ScriptInvariant == ScriptSpec => []ScriptInv
<1>1. (\E home \in HomeAddresses : ScriptInit(home)) => ScriptInv
  BY ScriptInvInit
<1> QED
  BY <1>1, ScriptInvStep, PTL DEF ScriptSpec

\* The scripts' variables keep their types: the scan does not pass 255, the
\* answered pings not their limit.
THEOREM ScriptTypeCorrect == ScriptSpec => []ScriptTypeOK
<1>1. ScriptInv => ScriptTypeOK
  BY DEF ScriptInv
<1> QED
  BY <1>1, ScriptInvariant, PTL

\* On any number of hosts an address is only doubled by a ping that missed a
\* host on its way back to it.
THEOREM AddressesUniqueUnlessRaced == ScriptSpec => []UniqueUnlessRaced
<1>1. ScriptInv => UniqueUnlessRaced
  BY DEF ScriptInv, ScriptTypeOK, DisjointClaims, Claims, UniqueUnlessRaced
<1> QED
  BY <1>1, ScriptInvariant, PTL

\* The live address is the one the next boot brings back.
THEOREM BootKeepsAddress == ScriptSpec => []BootsWithSameAddress
<1>1. ScriptInv => BootsWithSameAddress
  BY DEF ScriptInv
<1> QED
  BY <1>1, ScriptInvariant, PTL

=============================================================================
