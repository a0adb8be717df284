------------------------------- MODULE MCFlows -------------------------------
(* Small instances of Flows for TLC.                                        *)
EXTENDS Flows, TLC

CONSTANTS p1, p2

TwoProcesses == {p1, p2}
=============================================================================
