------------------------------ MODULE Enrichment ------------------------------
(***************************************************************************)
(* How an issue is enriched (src/github_enrichment.rs): facts of its           *)
(* repository, its details, its comments, its timeline and the growth of the    *)
(* repository, each from a cached source or asked (one or two requests, taken    *)
(* as one), and the whole cached again.  What fails becomes a warning.  Issues     *)
(* of one process are enriched concurrently and share its budget of requests.   *)
(***************************************************************************)
EXTENDS Integers, FiniteSets

CONSTANTS
  Tasks,       \* concurrent enrichments, of an issue each
  SpendLimit,  \* requests the process may make
  CacheTtl,
  MaxNews, MaxRounds, LastTick  \* bounds
ASSUME EnrichmentAssumption == SpendLimit \in Nat /\ CacheTtl \in Nat

VARIABLES
  news,     \* of each issue, at GitHub: its version, comments and linked pull requests
  sources,  \* cached sources: <<source, issue>> -> when, and the version it was read at
  wholes,   \* cached enrichments: issue -> when it was begun, and the enrichment
  task,     \* each task: what it was asked, where it is and what it knows
  spent,    \* requests reserved by the process, and those sent
  tick      \* the time, and enrichments begun
enrichmentVars == <<news, sources, wholes, task, spent, tick>>
-----------------------------------------------------------------------------
(* An enrichment: the version of the issue it was built for, whether its         *)
(* details were read, the comments they count (0 until then), the comments and     *)
(* the timeline that were read, the warnings of its assessment of the competition,   *)
(* and the reads its own warnings say failed.                                 *)

FromIssue(version) ==
  [version |-> version, details |-> "none", count |-> 0, comments |-> "none", timeline |-> "none",
   warnings |-> {"not_fetched"}, said |-> {}]
Missing(e) == e.warnings # {}
CommentsFailed(e) == "comments_failed" \in e.warnings

Shared == {"repository", "growth"}  \* sources of the repository, not of one issue
\* An enrichment and a completion keep files of their own of the comments and timeline
\* they ask for; both are good for six hours.
KeyOf(s, t) == <<s, IF s \in Shared THEN "repository" ELSE t, task[t].mode>>
Recent(at) == tick.now - at <= CacheTtl
LoadWhole(t) == t \in DOMAIN wholes /\ Recent(wholes[t].at)
IsCached(s, t) == ~task[t].refresh /\ KeyOf(s, t) \in DOMAIN sources /\ Recent(sources[KeyOf(s, t)].at)

AtRest == [at |-> "rest", mode |-> "none", asked |-> 0, refresh |-> FALSE, begun |-> 0,
           withTimeline |-> FALSE, e |-> FromIssue(0), warn |-> {}, flying |-> FALSE,
           unsaved |-> FALSE]  \* whether the write of its enrichment failed
EnrichmentInit ==
  /\ news = [t \in Tasks |-> [version |-> 1, comments |-> 0, references |-> 0]]
  /\ sources = [k \in {} |-> 0] /\ wholes = [t \in {} |-> 0]
  /\ task = [t \in Tasks |-> AtRest]
  /\ spent = [reserved |-> 0, sent |-> 0]
  /\ tick = [now |-> 0, news |-> 0, rounds |-> 0]

\* Someone comments on an issue or links a pull request to it; time passes.
News(t) ==
  /\ tick.news < MaxNews
  /\ LET n == [news[t] EXCEPT !.version = @ + 1]
     IN \/ news' = [news EXCEPT ![t] = [n EXCEPT !.comments = @ + 1]]
        \/ news' = [news EXCEPT ![t] = [n EXCEPT !.references = @ + 1]]
  /\ tick' = [tick EXCEPT !.news = @ + 1]
  /\ UNCHANGED <<sources, wholes, task, spent>>
Tick ==
  /\ tick.now < LastTick /\ tick' = [tick EXCEPT !.now = @ + 1]
  /\ UNCHANGED <<news, sources, wholes, task, spent>>

\* A cached enrichment of an issue that has changed is not used, except when the issue
\* asked for is the older one.
Changed_Never(asked, whole) == FALSE
Changed(asked, whole) == asked > whole.e.version
\* Begin: the whole is cached and serves, or its sources are read one after another.
\* The version asked for comes from a list that may itself be cached.
BeginEnriching(t, asked, refresh, withTimeline) ==
  /\ task[t].at = "rest" /\ tick.rounds < MaxRounds
  /\ asked \in 1..news[t].version
  /\ LET again == refresh \/ (LoadWhole(t) /\ Changed(asked, wholes[t]))
         new == [AtRest EXCEPT !.mode = "enrich", !.asked = asked, !.refresh = again, !.begun = tick.now,
                               !.withTimeline = withTimeline, !.e = FromIssue(asked), !.at = "repository"]
     IN task' = [task EXCEPT ![t] =
          IF ~again /\ LoadWhole(t) /\ (withTimeline => ~Missing(wholes[t].e))
          THEN [new EXCEPT !.at = "done", !.e = wholes[t].e] ELSE new]
  /\ tick' = [tick EXCEPT !.rounds = @ + 1]
  /\ UNCHANGED <<news, sources, wholes, spent>>
\* complete_competition_timeline, on an enrichment that lacks it.
CommentsToRead_Never(e) == FALSE
CommentsToRead(e) == CommentsFailed(e) \/ (e.count > 0 /\ e.comments # "read")
BeginCompleting(t, refresh) ==
  /\ task[t].at = "done" /\ task[t].mode = "enrich" /\ Missing(task[t].e)
  /\ LET new == [task[t] EXCEPT !.mode = "complete", !.refresh = refresh, !.withTimeline = TRUE,
                                !.begun = tick.now, !.warn = {},
                                !.at = IF CommentsToRead(task[t].e) THEN "comments" ELSE "timeline"]
     IN task' = [task EXCEPT ![t] =
          IF ~refresh /\ LoadWhole(t) /\ ~Missing(wholes[t].e)
          THEN [new EXCEPT !.at = "done", !.e = wholes[t].e] ELSE new]
  /\ UNCHANGED <<news, sources, wholes, spent, tick>>

\* The source after s; a completion reads comments and timeline only.
After(x, s) ==
  CASE s = "repository" -> "details"
    [] s = "details" -> "comments"
    [] s = "comments" -> IF x.withTimeline THEN "timeline" ELSE "growth"
    [] s = "timeline" -> IF x.mode = "complete" THEN "save" ELSE "growth"
    [] OTHER -> "save"
\* What a source that was read, at a version of the issue, tells; and one that was not.
Learn(x, s, seen) ==
  LET e == CASE s = "details" -> [x.e EXCEPT !.details = "read", !.count = seen.comments]
             [] s = "comments" -> [x.e EXCEPT !.comments = IF seen.comments = 0 THEN "empty" ELSE "read"]
             [] s = "timeline" -> [x.e EXCEPT !.timeline = "read", !.warnings = x.warn]
             [] OTHER -> x.e
  IN [x EXCEPT !.e = e, !.at = After(x, s), !.flying = FALSE]
\* What could not be read is said of the issue; of the competition only when comments are
\* known to exist.
Miss(x, s) ==
  LET warn == IF s = "comments" /\ (x.mode = "complete" \/ x.e.count > 0)
              THEN x.warn \cup {"comments_failed"} ELSE x.warn
  IN [x EXCEPT !.at = After(x, s), !.flying = FALSE, !.warn = warn,
               !.e.said = @ \cup ({s} \cap {"details", "comments"}),
               !.e.warnings = IF s = "timeline" THEN warn \cup {"timeline_failed"} ELSE @]
\* Without its timeline an enrichment says so.
Settle(x) ==
  IF x.at = "growth" /\ ~x.withTimeline THEN [x EXCEPT !.e.warnings = x.warn \cup {"not_fetched"}] ELSE x

Reading == {"repository", "details", "comments", "timeline", "growth"}
ReadCached(t) ==
  LET s == task[t].at IN
  /\ s \in Reading /\ ~task[t].flying /\ IsCached(s, t)
  /\ task' = [task EXCEPT ![t] = Settle(Learn(@, s, sources[KeyOf(s, t)].seen))]
  /\ UNCHANGED <<news, sources, wholes, spent, tick>>
\* record_network_request: the reservation is the check, under one lock; a request that
\* finds the budget spent is not sent.
MayReserve_Unsent == spent.sent < SpendLimit
MayReserve == spent.reserved < SpendLimit
ReserveRequest(t) ==
  LET s == task[t].at IN
  /\ s \in Reading /\ ~task[t].flying /\ ~IsCached(s, t) /\ MayReserve
  /\ spent' = [spent EXCEPT !.reserved = @ + 1]
  /\ task' = [task EXCEPT ![t].flying = TRUE]
  /\ UNCHANGED <<news, sources, wholes, tick>>
BudgetSpent(t) ==
  LET s == task[t].at IN
  /\ s \in Reading /\ ~task[t].flying /\ ~IsCached(s, t) /\ ~MayReserve
  /\ task' = [task EXCEPT ![t] = Settle(Miss(@, s))]
  /\ UNCHANGED <<news, sources, wholes, spent, tick>>
\* The request is sent and answered, and the source cached, or it fails.
Reply(t, ok) ==
  LET s == task[t].at IN
  /\ task[t].flying
  /\ spent' = [spent EXCEPT !.sent = @ + 1]
  /\ task' = [task EXCEPT ![t] = Settle(IF ok THEN Learn(@, s, news[t]) ELSE Miss(@, s))]
  /\ sources' = IF ~ok THEN sources
                ELSE [k \in DOMAIN sources \cup {KeyOf(s, t)} |->
                        IF k = KeyOf(s, t) THEN [at |-> tick.now, seen |-> news[t]] ELSE sources[k]]
  /\ UNCHANGED <<news, wholes, tick>>
\* The whole is cached; a write that fails is ignored.
Save(t, written) ==
  /\ task[t].at = "save"
  /\ wholes' = IF ~written THEN wholes
               ELSE [i \in DOMAIN wholes \cup {t} |->
                       IF i = t THEN [at |-> IF task[t].mode = "complete" THEN tick.now ELSE task[t].begun,
                                      e |-> task[t].e] ELSE wholes[i]]
  /\ task' = [task EXCEPT ![t].at = "done",
                          ![t].unsaved = IF task[t].mode = "enrich" THEN ~written ELSE @]
  /\ UNCHANGED <<news, sources, spent, tick>>
Leave(t) ==
  /\ task[t].at = "done" /\ task' = [task EXCEPT ![t] = AtRest]
  /\ UNCHANGED <<news, sources, wholes, spent, tick>>
\* The process ends, wherever its tasks are; the cached files stay.
Stop ==
  /\ task' = [t \in Tasks |-> AtRest] /\ spent' = [reserved |-> 0, sent |-> 0]
  /\ UNCHANGED <<news, sources, wholes, tick>>

EnrichmentNext ==
  \/ Tick \/ Stop
  \/ \E t \in Tasks :
       \/ News(t)
       \/ \E asked \in 1..(MaxNews + 1) : \E refresh \in BOOLEAN : \E withTimeline \in BOOLEAN :
            BeginEnriching(t, asked, refresh, withTimeline)
       \/ \E refresh \in BOOLEAN : BeginCompleting(t, refresh)
       \/ ReadCached(t) \/ ReserveRequest(t) \/ BudgetSpent(t) \/ Leave(t)
       \/ \E ok \in BOOLEAN : Reply(t, ok) \/ Save(t, ok)
EnrichmentSpec == EnrichmentInit /\ [][EnrichmentNext]_enrichmentVars
-----------------------------------------------------------------------------
(* Properties.                                                                *)

\* Comments were read, or the details that were read count none; or neither the details
\* nor the comments could be read, and the issue's own warnings say that of both.
CommentsKnown(e) ==
  \/ e.comments # "none"
  \/ e.details = "read" /\ e.count = 0
  \/ {"details", "comments"} \subseteq e.said

\* An enrichment that does not call its evidence of competing work missing was built from
\* a timeline that was read, and from the comments unless its details count none: a failed
\* request, a spent budget, a cached whole and a later completion never add up to "no
\* competition".  There is one gap: an issue whose details and comments both failed counts
\* no comments, its competition has no warning, and it reads as clear whatever comments
\* GitHub has (github_enrichment.rs:831-839, 873-882).  What holds there is that its own
\* warnings name both failures.
CheckedMeansRead ==
  \A t \in Tasks : task[t].at = "done" /\ ~Missing(task[t].e) =>
    task[t].e.timeline = "read" /\ CommentsKnown(task[t].e)

\* An issue asked for at one version never gets the enrichment of an earlier one, enriched
\* or completed: except that a completion whose enrichment could not be written takes the
\* older one that is cached (github_enrichment.rs:963-970 compares no versions).
Answered(x) == (x.mode = "complete" /\ x.unsaved) \/ x.e.version >= x.asked
AnsweredAsAsked == \A t \in Tasks : task[t].at = "done" => Answered(task[t])

\* The process never sends more requests than its budget, whichever of its concurrent
\* enrichments sends them.
BudgetHolds == spent.sent <= SpendLimit

\* What an enrichment says of an issue was read, at the version that was asked, within the
\* budget all the concurrent ones share (github_enrichment.rs, github_budget.rs).
EnrichmentIsHonest == CheckedMeansRead /\ AnsweredAsAsked /\ BudgetHolds
=============================================================================
