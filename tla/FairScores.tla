------------------------------- MODULE FairScores -------------------------------
(* What the feedback of the user and the value of an issue have in common:    *)
(* each is a number the feed adds up, and it may move one way only.           *)
EXTENDS IssueFeedback, ValueModel

\* Action.  Scores move the right way: looking at an issue and the tool's own comments gain it
\* nothing, and one more competitor never raises it.
ScoresMoveTheRightWay == FeedbackNeverPromotes /\ OwnCommentsChangeNothing /\ CompetitionNeverPays
=============================================================================
