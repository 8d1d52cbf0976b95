--------------------------- MODULE MCHotBackupServer ---------------------------
(* One host: the hosts of HotBackupServer share nothing.                   *)
EXTENDS HotBackupServer

CONSTANT h1

MCHost == {h1}

\* Success and EAGAIN.
MCCreateResults == {0, 11}

=============================================================================
