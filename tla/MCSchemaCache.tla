---------------------------- MODULE MCSchemaCache ----------------------------
(* Small instances of SchemaCache for TLC.                                 *)
EXTENDS SchemaCache, TLC

CONSTANTS p1, p2, p3, p4, c1, c2, c3, c4

\* Two processes, two calls in the first.
TwoProcs == {p1, p2}
ThreeCalls == {c1, c2, c3}
HomeTwo == c1 :> p1 @@ c2 :> p1 @@ c3 :> p2

\* As many processes as calls: a cold start of a cluster of four.
FourProcs == {p1, p2, p3, p4}
FourCalls == {c1, c2, c3, c4}
HomeFour == c1 :> p1 @@ c2 :> p2 @@ c3 :> p3 @@ c4 :> p4

\* Which faults happen.
NoFaults == [k \in Faults |-> 0]
OneFailure == [NoFaults EXCEPT !["failure"] = 1]
OneOfEach == [k \in Faults |-> 1]
=============================================================================
