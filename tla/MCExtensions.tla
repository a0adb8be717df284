---------------------------- MODULE MCExtensions ----------------------------
(* Small instances of Extensions for TLC.                                  *)
EXTENDS Extensions, TLC

CONSTANTS p1, p2

TwoProcesses == {p1, p2}
=============================================================================
