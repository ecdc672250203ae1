---------------------------- MODULE MCSupervisor ----------------------------
(* Instances of Supervisor for TLC.                                        *)
EXTENDS Supervisor

CONSTANTS a, b
TwoNames == {a, b}
OneName == {a}
None == {}
BusA == <<a>>
TrueFalse == {TRUE, FALSE}
FirstPath == {0}
=============================================================================
