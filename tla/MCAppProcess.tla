---------------------------- MODULE MCAppProcess ----------------------------
(* Small instance of AppProcess.                                           *)
EXTENDS AppProcess

\* In the order of their groups.
MCStarters == << [name |-> Root, priority |-> Latest], [name |-> "jobs", priority |-> 0] >>
MCStoppers == << [name |-> "jobs", priority |-> 0], [name |-> Web, priority |-> 0] >>

\* Past lc: before its hooks those of a module, behind them those of the MQTT broker.
MCEarlier == << [kind |-> "OnStart", name |-> "module"] >>
MCLater == << [kind |-> "both", name |-> "mqtt"] >>
=============================================================================
