------------------------------- MODULE MCBoard -------------------------------
(* What becomes of an issue that was found, one component at a time: the     *)
(* feedback of the user and the value of the issue.                          *)
EXTENDS FairScores

-----------------------------------------------------------------------------
(* Issues on the board.                                                      *)
Task(status, package) == [status |-> status, package |-> package]
Run(status, outcome) == [status |-> status, outcome |-> outcome]
Listed ==
  [category |-> "ready", filtered |-> FALSE, quality |-> "visible", cap |-> 28, penalty |-> 75,
   rank |-> 60, decided |-> FALSE, created |-> 0, repoActive |-> TRUE, inbox |-> "ready",
   task |-> Task("in_progress", TRUE), reviews |-> "none", runs |-> <<>>]
Filtered ==
  [Listed EXCEPT !.category = "filtered", !.filtered = TRUE, !.quality = "hidden_done",
     !.decided = TRUE, !.created = -400, !.task = Task("discovered", FALSE), !.reviews = "pending"]
Unprepared ==
  [Listed EXCEPT !.inbox = "prepare_failed", !.runs = <<Run("failed", "none"), Run("running", "none")>>]
Concluding ==
  [Listed EXCEPT !.decided = TRUE,
     !.runs = <<Run("succeeded", "outcome_positive"), Run("proposed", "none")>>]
BoardItems == {Filtered, Unprepared, Concluding}
Sign(type, enriched) == [type |-> type, enriched |-> enriched]
BoardSigns ==
  {Sign("shown", TRUE), Sign("prepared", TRUE)}
    \cup {Sign(t, FALSE) : t \in {"read", "done", "dismissed", "restored"}}
AnchorOf == [ready |-> 500, triage |-> 300, filtered |-> 0]
HalfAMonth == {15}
-----------------------------------------------------------------------------
(* A profile and prospects for it.                                           *)
RustCli == [stack |-> {"rust"}, keywords |-> {"cli"}]
OtherWords == [cli |-> {"command line"}, rust |-> {"cargo"}]
DomainWords == [rust |-> {"path"}, cli |-> {"command"}]
FocusWords ==
  [k \in {"ai", "devops", "backend", "frontend", "component", "component context", "data cli",
          "python", "python tools"} |-> {k}]
    @@ [tools |-> {"cli", "sdk"}, crypto |-> {"solidity", "audit"}]
GoodWords == {"rust", "cli", "path", "repro", "expected", "validation"}
AProspect ==
  [words |-> GoodWords, labels |-> {}, repo |-> {"cli"}, language |-> "rust", stars |-> 2000,
   forks |-> 60, watchers |-> 12, open |-> 40, archived |-> FALSE, young |-> FALSE, length |-> 300,
   path |-> TRUE, author |-> "user", old |-> FALSE, older |-> 0]
SomeProspects ==
  { [AProspect EXCEPT !.labels = {"good first issue"}],
    [AProspect EXCEPT !.stars = 300],
    [AProspect EXCEPT !.stars = 300, !.words = @ \ {"expected"}],
    [AProspect EXCEPT !.words = @ \cup {"light"}],
    [AProspect EXCEPT !.words = @ \cup {"question"}],
    [AProspect EXCEPT !.words = @ \cup {"audit"}, !.stars = 700, !.older = 18] }
SomeRemarks == {{}, {"claim", "scope"}, {"fix"}, {"answer"}}
-----------------------------------------------------------------------------
VARIABLE part
boardVars == <<part, feedbackVars, valueVars>>

NoProspect == [AProspect EXCEPT !.words = {}, !.repo = {}, !.language = "none", !.path = FALSE]
NoThread ==
  [comments |-> <<>>, pulls |-> [open |-> 0, closed |-> 0], timeline |-> TRUE, answered |-> FALSE, age |-> 0]
\* The components whose turn it is not stand where nothing has happened.
BoardInit ==
  /\ part \in {"feedback", "value"}
  /\ IF part = "feedback" THEN item \in BoardItems ELSE item = Filtered
  /\ FeedbackInit
  /\ IF part = "value" THEN ValueInit ELSE prospect = NoProspect /\ thread = NoThread

BoardNext ==
  /\ UNCHANGED part
  /\ \/ part = "feedback" /\ FeedbackNext /\ UNCHANGED valueVars
     \/ part = "value" /\ ValueNext /\ UNCHANGED feedbackVars

BoardSpec == BoardInit /\ [][BoardNext]_boardVars
=============================================================================
