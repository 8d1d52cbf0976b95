------------------------------ MODULE MCHotBackup ------------------------------
(* The deployment of the README: two machines, installed one as the server *)
(* with address 1, one as the client with address 2; address 3 is free.    *)
EXTENDS HotBackup, TLC

CONSTANTS master, slave

MCHost == {master, slave}
MCHomeIp == (master :> 1) @@ (slave :> 2)
MCCreateResults == {0}
MCCreateErrors == {0, 11}
MCCemsStarts == {Service}
MCServiceStates == SUBSET Service

=============================================================================
