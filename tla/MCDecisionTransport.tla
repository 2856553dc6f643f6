-------------------------- MODULE MCDecisionTransport --------------------------
(* Small instances of DecisionTransport.                                    *)
EXTENDS DecisionTransport

CONSTANTS c1, c2

OneCall == {c1}
TwoCalls == {c1, c2}
CallSymmetry == Permutations(TwoCalls)

Accepted == {"ok"}
Overload == {"ok", "overload"}
SomeEvents == {"note", "final", "completed", "request"}
NoEvents == {}
NoFaults == {}
SlowExit == {"slow", "exit"}
=============================================================================
