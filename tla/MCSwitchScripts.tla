---------------------------- MODULE MCSwitchScripts ----------------------------
(* Two hosts on a segment of four addresses, one of them another machine's. *)
EXTENDS SwitchScripts

CONSTANTS h1, h2

MCHost == {h1, h2}
MCCemsStarts == {Service}
MCServiceStates == {{}, Service}

=============================================================================
