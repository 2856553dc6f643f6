--------------------------- MODULE MCGithubComments ---------------------------
(* Small instances of GithubComments.                                       *)
EXTENDS GithubComments

CONSTANTS o1, o2

OneOperator == {o1}
TwoOperators == {o1, o2}

Tracking == [NoInput EXCEPT !.body = TRUE]
Silent == NoInput
Earned == [NoInput EXCEPT !.phase = "final", !.reply = TRUE, !.outcome = "success"]
Unvalidated == [Earned EXCEPT !.validation = "failed"]
Dictated == [Unvalidated EXCEPT !.body = TRUE]
Clarify == [NoInput EXCEPT !.phase = "final", !.gap = TRUE, !.reply = TRUE]

OneKind == {Tracking}
EveryKind == {Tracking, Silent, Earned, Unvalidated, Dictated, Clarify}

NoFaults == {}
ReadFaults == {"refused", "io"}
=============================================================================
