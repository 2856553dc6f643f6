--------------------------- MODULE MCDispatchRun ---------------------------
(* Small instances of DispatchRun: who takes part, what agents hand in and   *)
(* what fails.                                                              *)
EXTENDS DispatchRun, TLC

CONSTANTS r1, r2, s1, s2, w1, w2, noThread

OneResolver == {r1}
TwoResolvers == {r1, r2}
OneSupervisor == {s1}
TwoSupervisors == {s1, s2}
NoSubmitter == {}
OneSubmitter == {w1}
TwoSubmitters == {w1, w2}

Good == [status |-> "success", checks |-> TRUE, risks |-> FALSE]
Unproven == [status |-> "success", checks |-> FALSE, risks |-> FALSE]
Risky == [status |-> "partial", checks |-> TRUE, risks |-> TRUE]
Vague == [status |-> "partial", checks |-> TRUE, risks |-> FALSE]
Hopeless == [status |-> "failed", checks |-> FALSE, risks |-> FALSE]
NeedsUser == [status |-> "needs_user", checks |-> FALSE, risks |-> FALSE]

SuccessClaims == {Good, Unproven}
\* Good, which the evaluator takes the way of Risky, and Unproven are in the casts.
SupervisedCandidates == {Risky, Vague, Hopeless, NeedsUser}

NoFaults == {}
\* Everything but the death of a process.
FaultsInPlace == {"prepare", "runtime", "evaluation", "silence"}
=============================================================================
