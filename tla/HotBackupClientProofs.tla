-------------------------- MODULE HotBackupClientProofs --------------------------
(***************************************************************************)
(* The client's invariants for every set of hosts and every TIMEOUT_MAX.   *)
(*                                                                         *)
(* The argument: timeout_count_ and the history it stands for change in    *)
(* the same steps by the same amounts (CountIsSilence), and the script is  *)
(* reached in two steps only, which leave their cause in received and in   *)
(* the counter; nothing else runs before the script has returned.          *)
(***************************************************************************)
EXTENDS HotBackupClient, TLAPS

CountIsSilence == \A h \in Host : timeout_count_[h] = silence[h]

\* Only the take-over is reached with the limit passed.
WithinLimit ==
    \A h \in Host :
        clientPc[h] \in {"open", "send", "sendFailed", "recv", "sleep"}
            => timeout_count_[h] <= TIMEOUT_MAX

ClientInv ==
    /\ ClientTypeOK
    /\ CountIsSilence
    /\ WithinLimit
    /\ TakesOverForCause

-----------------------------------------------------------------------------

\* The first objects satisfy the inductive invariant, whichever hosts have one.
LEMMA ClientInvInit ==
  ASSUME NEW S \in SUBSET Host, ClientInit(S)
  PROVE  ClientInv
  BY TimeoutMaxAssumption, ServiceIpAssumption
  DEF ClientInit, ClientInv, ClientTypeOK, CountIsSilence, WithinLimit,
      TakesOverForCause, ClientPc, Package

\* Every step of Start keeps it.
LEMMA ClientThreadKeepsInv ==
  ASSUME NEW h \in Host, ClientInv, ClientThread(h) \/ ClientReceive(h)
  PROVE  ClientInv'
<1> USE TimeoutMaxAssumption, ServiceIpAssumption
    DEF ClientInv, ClientTypeOK, CountIsSilence, WithinLimit,
        TakesOverForCause, ClientPc, Package, advance, OneMore
<1>1. ASSUME NEW ok \in BOOLEAN, OpenClient(h, ok)
      PROVE  ClientInv'
  BY <1>1 DEF OpenClient
<1>2. ASSUME NEW ok \in BOOLEAN, SendClientHeartBeat(h, ok)
      PROVE  ClientInv'
  BY <1>2 DEF SendClientHeartBeat
<1>3. CASE SendAgain(h)
  BY <1>3 DEF SendAgain
<1>4. CASE RecvError(h)
  BY <1>4 DEF RecvError
<1>5. CASE ClientSleep(h)
  BY <1>5 DEF ClientSleep
<1>6. CASE ChangeServer(h)
  BY <1>6 DEF ChangeServer
<1>7. CASE ChangeServerReturns(h)
  BY <1>7 DEF ChangeServerReturns
<1>8. CASE RunClient(h)
  BY <1>8 DEF RunClient, NewClient
<1>9. CASE LeaveClient(h)
  BY <1>9 DEF LeaveClient, NewClient
<1>10. ASSUME NEW msg \in Package, NEW from \in Address,
              RecvPackage(h, msg, from)
       PROVE  ClientInv'
  BY <1>10 DEF RecvPackage, ParsePackage
<1> QED
  BY <1>1, <1>2, <1>3, <1>4, <1>5, <1>6, <1>7, <1>8, <1>9, <1>10
  DEF ClientThread, ClientStart, ClientReceive

\* The end of the process and the start of another keep it.
LEMMA ClientProcessKeepsInv ==
  ASSUME NEW h \in Host, ClientInv, ClientProcess(h)
  PROVE  ClientInv'
<1> USE TimeoutMaxAssumption, ServiceIpAssumption
    DEF ClientInv, ClientTypeOK, CountIsSilence, WithinLimit,
        TakesOverForCause, ClientPc, Package
<1>1. CASE ClientCrash(h)
  BY <1>1 DEF ClientCrash, NewClient
<1>2. CASE RunClient(h)
  BY <1>2 DEF RunClient, NewClient
<1>3. CASE LeaveClient(h)
  BY <1>3 DEF LeaveClient, NewClient
<1> QED
  BY <1>1, <1>2, <1>3 DEF ClientProcess

LEMMA ClientInvStep == ClientInv /\ [ClientNext]_clientVars => ClientInv'
<1> SUFFICES ASSUME ClientInv, [ClientNext]_clientVars
             PROVE  ClientInv'
  OBVIOUS
<1>1. CASE ClientNext
  BY <1>1, ClientThreadKeepsInv, ClientProcessKeepsInv DEF ClientNext
<1>2. CASE UNCHANGED clientVars
  BY <1>2 DEF clientVars, ClientInv, ClientTypeOK, CountIsSilence,
     WithinLimit, TakesOverForCause
<1> QED
  BY <1>1, <1>2

\* The inductive invariant holds throughout.
THEOREM ClientInvariant == ClientSpec => []ClientInv
<1>1. ClientInit(Host) => ClientInv
  BY ClientInvInit
<1> QED
  BY <1>1, ClientInvStep, PTL DEF ClientSpec

\* All of the client's variables keep their types; the counter of failed
\* receives never passes TIMEOUT_MAX + 1.
THEOREM ClientTypeCorrect == ClientSpec => []ClientTypeOK
<1>1. ClientInv => ClientTypeOK
  BY DEF ClientInv
<1> QED
  BY <1>1, ClientInvariant, PTL

\* switch_server.sh is only run on an order, or after TIMEOUT_MAX + 1 failed
\* receives in a row.
THEOREM TakeOversHaveCause == ClientSpec => []TakesOverForCause
<1>1. ClientInv => TakesOverForCause
  BY DEF ClientInv
<1> QED
  BY <1>1, ClientInvariant, PTL

=============================================================================
