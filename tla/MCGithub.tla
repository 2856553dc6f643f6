------------------------------- MODULE MCGithub -------------------------------
(* What is read from GitHub, one component at a time: the lanes issues are   *)
(* found in, the pages of a search, the enrichment of an issue and its       *)
(* availability.                                                            *)
EXTENDS DiscoveryLanes, SearchPages, Enrichment, Availability, TLC

CONSTANTS t1, t2

TwoTasks == {t1, t2}

TwoIssues == {1, 2}
Repositories == <<"a", "b">>
RepositoryA == <<"a">>
RepositoryB == <<"b">>
LimitOf == [overlay |-> 2, profile |-> 2, gfi |-> 1]
BeginnerLabels == <<"gfi", "easy">>
OneWord == <<"x">>

TwoSizes == {2, 3}
-----------------------------------------------------------------------------
(* Worlds: an issue, the events of its timeline and two pull requests.       *)

Quiet == [pr |-> 0, closes |-> FALSE]
Link(pr, closes) == [pr |-> pr, closes |-> closes]
Timelines ==
  { <<>>, <<Quiet>>, <<Quiet, Quiet, Link(1, TRUE)>>, <<Link(1, FALSE), Link(2, FALSE)>>,
    <<Link(1, FALSE), Link(1, TRUE), Link(2, FALSE)>> }
    \cup {<<Link(1, c)>> : c \in BOOLEAN} \cup {<<Quiet, Link(1, c)>> : c \in BOOLEAN}

Pull(state, base, resolves) == [state |-> state, base |-> base, resolves |-> resolves]
Open(resolves) == Pull("open", "main", resolves)
Merged(base) == Pull("merged", base, TRUE)
Unrelated == Pull("closed", "main", FALSE)

World(state, held, locked, archived, timeline, pulls) ==
  [state |-> state, held |-> held, locked |-> locked, archived |-> archived,
   timeline |-> timeline, pulls |-> pulls]
SomeWorlds ==
  {World("open", FALSE, FALSE, FALSE, t, <<p, q>>) :
     t \in Timelines,
     p \in {Open(TRUE), Open(FALSE), Merged("main"), Merged("old"), Unrelated},
     q \in {Open(TRUE), Open(FALSE), Merged("main")}}
    \cup {World(s, h, l, a, <<>>, <<Unrelated, Unrelated>>) :
            s \in {"open", "closed"}, h \in BOOLEAN, l \in BOOLEAN, a \in BOOLEAN}
AWorld == World("open", FALSE, FALSE, FALSE, <<>>, <<Unrelated, Unrelated>>)
PerDepth == [initial |-> 1, final |-> 2]
-----------------------------------------------------------------------------
VARIABLE part
githubVars == <<part, lanesVars, searchVars, enrichmentVars, availabilityVars>>

GithubInit ==
  /\ part \in {"lanes", "pages", "enrichment", "availability"}
  /\ LanesInit /\ SearchInit /\ EnrichmentInit
  /\ AvailabilityInit
  /\ part = "availability" \/ (world = AWorld /\ snap = NewSnapshot("initial"))

GithubNext ==
  /\ UNCHANGED part
  /\ \/ part = "lanes" /\ LanesNext /\ UNCHANGED <<searchVars, enrichmentVars, availabilityVars>>
     \/ part = "pages" /\ SearchNext /\ UNCHANGED <<lanesVars, enrichmentVars, availabilityVars>>
     \/ part = "enrichment" /\ EnrichmentNext /\ UNCHANGED <<lanesVars, searchVars, availabilityVars>>
     \/ part = "availability" /\ AvailabilityNext /\ UNCHANGED <<lanesVars, searchVars, enrichmentVars>>

GithubSpec == GithubInit /\ [][GithubNext]_githubVars
GithubSymmetry == Permutations(TwoTasks)
=============================================================================
