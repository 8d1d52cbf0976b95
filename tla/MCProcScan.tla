------------------------------- MODULE MCProcScan -------------------------------
(* The monitor, a thread of it, and another process with a thread.         *)
EXTENDS ProcScan, TLC

CONSTANTS m, mt, p, pt

MCTask == {m, mt, p, pt}
MCLeader == (m :> m) @@ (mt :> m) @@ (p :> p) @@ (pt :> p)
MCMonitor == {m}
MCDotDot == BOOLEAN

=============================================================================
