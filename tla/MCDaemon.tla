-------------------------------- MODULE MCDaemon --------------------------------
(* One host, with the limits of the code: daemons on several hosts share   *)
(* nothing here.                                                           *)
EXTENDS Daemon

CONSTANT h1

MCHost == {h1}

\* Success and EAGAIN.
MCCreateResults == {0, 11}

=============================================================================
