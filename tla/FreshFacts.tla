------------------------------- MODULE FreshFacts -------------------------------
(* What the feed and the screening have in common: both act on facts that    *)
(* were read before, while newer ones arrive.                                *)
EXTENDS ScreeningPolicy, ScoutRound

\* Action.  The fresh facts win: a check that was made again, and a dismissal made meanwhile,
\* replace what a scout had read before.
FreshFactsWin == ClearedByFreshFactsOnly /\ DismissedMeanwhileIsHidden
=============================================================================
