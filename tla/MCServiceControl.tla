-------------------------- MODULE MCServiceControl --------------------------
(* Small instance of ServiceControl.                                       *)
EXTENDS ServiceControl, MCAppProcess
=============================================================================
