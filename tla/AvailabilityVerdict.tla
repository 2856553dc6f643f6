------------------------- MODULE AvailabilityVerdict -------------------------
(* What is concluded from a snapshot of an issue's availability               *)
(* (availability.rs).  A fact the requests did not give is "unknown".          *)
EXTENDS FiniteSets

KnownUnavailable(s) == s.state = "closed" \/ "yes" \in {s.archived, s.locked, s.held}
OpenResolution(p) == p.verified /\ p.relation = "resolves" /\ p.state = "open" /\ p.merged = "no"
StrongOpenCompetition(s) == \E p \in s.pulls : OpenResolution(p)
MergedResolution(s) ==
  \E p \in s.pulls : p.verified /\ p.relation = "resolves" /\ p.merged = "yes" /\ p.base = "main"
ChecksComplete(s) ==
  /\ "unknown" \notin {s.state, s.held, s.archived, s.locked}
  /\ s.linked.status = "complete"
  /\ \A p \in s.pulls : p.verified /\ ~p.errors
  /\ s.depth = "initial" \/ s.searched.status = "complete"
FreshFixAvailable(s) ==
  /\ ChecksComplete(s) /\ ~KnownUnavailable(s) /\ ~StrongOpenCompetition(s) /\ ~MergedResolution(s)
  /\ \A p \in s.pulls : p.state # "open" /\ p.merged # "yes"
=============================================================================
