----------------------------- MODULE IssueFeedback -----------------------------
(***************************************************************************)
(* What the user's feedback does to an issue (src/recommendation, src/         *)
(* candidate_board.rs): commands append events to one log, each with the facts    *)
(* the command knew; the feed and the board fold the log, ordered by time, on     *)
(* every reading, the one into a penalty and a visibility, the other into a        *)
(* status of the issue's life.                                                *)
(***************************************************************************)
EXTENDS Integers, Sequences, FiniteSets, SequencesExt

CONSTANTS
  Items,      \* what else is known of the issue: [category, filtered, quality, rank, cap,
              \*   penalty, decided, created, repoActive, inbox, task, reviews, runs]
  Signs,      \* the events: [type, enriched], enriched when the command read the comments
  Anchor,     \* the feed score of each category
  LongPauses, \* days that may pass at once
  MaxEvents, MaxCommentEdits, LastDay, MaxLate  \* bounds

ASSUME FeedbackAssumption ==
  /\ \A sign \in Signs :
       /\ sign.type \in {"shown", "read", "prepared", "done", "dismissed", "restored"}
       /\ sign.enriched \in BOOLEAN
  /\ \A i \in Items :
       /\ i.quality \in {"visible", "hidden_quality", "hidden_filtered", "hidden_done"}
       /\ {Anchor[i.category], i.rank, i.cap, i.penalty} \subseteq Int
  /\ LongPauses \subseteq Nat \ {0} /\ MaxEvents \in Nat /\ MaxCommentEdits \in Nat
  /\ MaxEvents + MaxCommentEdits < 99  \* a day has a stamp for each

VARIABLES
  item,   \* one of Items
  events, \* the log, in the order of the file
  late,   \* an event that bears its time and is not appended yet
  github, \* the issue: when it was last updated, its comments, a maintainer's answer, its edits
  seen,   \* what the last enrichment of it read
  time    \* now: a day and a count within it
feedbackVars == <<item, events, late, github, seen, time>>

None == -1
-----------------------------------------------------------------------------
(* The log.  Times are compared whole; ages are in days.                        *)

Stamp == time.day * 100 + time.count
DayOf(stamp) == stamp \div 100
FeedbackInit ==
  /\ item \in Items /\ events = <<>> /\ late = <<>>
  /\ github = [updated |-> 0, comments |-> 0, maintainer |-> FALSE, edits |-> 0]
  /\ seen = github /\ time = [day |-> 0, count |-> 1]
Later == time' = [time EXCEPT !.count = @ + 1]
\* Feedback given by a command bears no facts of the issue; showing, reading and preparing
\* it do, and comments only when it was enriched.
Facts(type, enriched) ==
  IF type \in {"done", "dismissed", "restored"} THEN [updated |-> None, comments |-> None]
  ELSE [updated |-> seen.updated, comments |-> IF enriched THEN seen.comments ELSE None]
NewEvent(type, enriched) ==
  [type |-> type, at |-> Stamp, updated |-> Facts(type, enriched).updated, comments |-> Facts(type, enriched).comments]
\* record_event_for_issue and record_event_for_key; another command may append in between.
Record(type, enriched) ==
  /\ Len(events) + Len(late) < MaxEvents
  /\ events' = Append(events, NewEvent(type, enriched)) /\ Later
  /\ UNCHANGED <<item, late, github, seen>>
StampOnly(type, enriched) ==
  /\ Len(late) < MaxLate /\ Len(events) + Len(late) < MaxEvents
  /\ late' = Append(late, NewEvent(type, enriched)) /\ Later
  /\ UNCHANGED <<item, events, github, seen>>
AppendLate ==
  /\ late # <<>>
  /\ events' = Append(events, Head(late)) /\ late' = Tail(late)
  /\ UNCHANGED <<item, github, seen, time>>
\* Someone edits the issue, comments on it, or a maintainer answers.
Change(comments, maintainer) ==
  /\ github.edits < MaxCommentEdits
  /\ github' = [updated |-> Stamp, comments |-> github.comments + comments,
                 maintainer |-> github.maintainer \/ maintainer, edits |-> github.edits + 1]
  /\ Later /\ UNCHANGED <<item, events, late, seen>>
Enrich == seen # github /\ seen' = github /\ UNCHANGED <<item, events, late, github, time>>
Pause(days) ==
  /\ time.day + days <= LastDay /\ time' = [day |-> time.day + days, count |-> 1]
  /\ UNCHANGED <<item, events, late, github, seen>>
-----------------------------------------------------------------------------
(* The feed: the state of an issue, and what it is worth.                       *)

\* The events in the order of the file.
ByTime_AsFiled(log) == log
Orders(p, log) ==
  /\ \A i \in DOMAIN log : \E j \in DOMAIN log : p[j] = i
  /\ \A i, j \in DOMAIN log : i < j => log[p[i]].at <= log[p[j]].at
ByTime(log) ==
  LET p == CHOOSE p \in [DOMAIN log -> DOMAIN log] : Orders(p, log) IN [i \in DOMAIN log |-> log[p[i]]]
NoState == [shown |-> 0, read |-> 0, prepared |-> 0, dismissed |-> FALSE, done |-> FALSE,
            lastShown |-> None, lastRead |-> None, lastPrepared |-> None, last |-> None, comments |-> None]
\* An event that does not know the comments counts none.
ApplyEvent_NoneIsZero(s, e) ==
  LET known == [s EXCEPT !.last = e.at, !.comments = IF e.comments # None THEN e.comments ELSE 0] IN
  CASE e.type = "shown" -> [known EXCEPT !.shown = @ + 1, !.lastShown = e.at]
    [] e.type = "read" -> [known EXCEPT !.read = @ + 1, !.lastRead = e.at]
    [] e.type = "prepared" -> [known EXCEPT !.prepared = @ + 1, !.lastPrepared = e.at]
    [] OTHER -> [known EXCEPT !.done = e.type = "done", !.dismissed = e.type = "dismissed"]
ApplyEvent(s, e) ==
  LET known == [s EXCEPT !.last = e.at, !.comments = IF e.comments # None THEN e.comments ELSE @] IN
  CASE e.type = "shown" -> [known EXCEPT !.shown = @ + 1, !.lastShown = e.at]
    [] e.type = "read" -> [known EXCEPT !.read = @ + 1, !.lastRead = e.at]
    [] e.type = "prepared" -> [known EXCEPT !.prepared = @ + 1, !.lastPrepared = e.at]
    [] OTHER -> [known EXCEPT !.done = e.type = "done", !.dismissed = e.type = "dismissed"]
\* With the CodexExposure policy only showing and reading count.
Includes(policy, e) == policy = "legacy" \/ e.type \in {"shown", "read"}
StateOf(log, policy) ==
  FoldLeft(LAMBDA s, e : IF Includes(policy, e) THEN ApplyEvent(s, e) ELSE s, NoState, ByTime(log))

AtMost(n, limit) == IF n < limit THEN n ELSE limit
\* In twentieths.
Decay(at, now) ==
  LET age == now - DayOf(at) IN
  IF at = None THEN 0
  ELSE IF age <= 1 THEN 20 ELSE IF age <= 3 THEN 15 ELSE IF age <= 7 THEN 10 ELSE IF age <= 14 THEN 5 ELSE 2
\* assess_feedback: each recovery shrinks the penalty (.7, .5, .35) and adds to the score.
Feedback(s, facts, now) ==
  LET newer == s.last # None /\ facts.updated > s.last
      commented == s.comments # None /\ facts.comments > s.comments
      answered == newer /\ facts.maintainer
      raw == 55 * Decay(s.lastShown, now) * AtMost(s.shown, 5)
             + 170 * Decay(s.lastRead, now) * AtMost(s.read, 3)
             + 260 * Decay(s.lastPrepared, now) * AtMost(s.prepared, 2)
      scaled == raw * (IF newer THEN 7 ELSE 10) * (IF commented THEN 1 ELSE 2) * (IF answered THEN 7 ELSE 20)
  IN IF s.done \/ s.dismissed
     THEN [penalty |-> 0, boost |-> 0, visibility |-> IF s.done THEN "hidden_done" ELSE "hidden_dismissed"]
     ELSE [penalty |-> (2 * scaled + 8000) \div 16000, visibility |-> "visible",
           boost |-> (IF newer THEN 15 ELSE 0) + (IF commented THEN 25 ELSE 0) + (IF answered THEN 35 ELSE 0)]
\* assess_freshness: an old issue gains little by being touched.
Freshness(facts, now) ==
  LET age == now - DayOf(facts.updated)
      boost == (IF age <= 1 THEN 45 ELSE IF age <= 3 THEN 36 ELSE IF age <= 7 THEN 28
                ELSE IF age <= 14 THEN 18 ELSE IF age <= 30 THEN 10 ELSE 0)
               + (IF facts.maintainer THEN 20 ELSE 0) + (IF item.repoActive THEN 8 ELSE 0) + (IF age <= 30 THEN 8 ELSE 0)
      old == now - item.created
      alive == facts.maintainer \/ facts.comments > 0
  IN IF old > 365 THEN AtMost(boost, IF alive THEN 20 ELSE 18)
     ELSE IF old > 180 THEN AtMost(boost, IF alive THEN 42 ELSE 30) ELSE boost
\* recommendation_assessment: feedback, then the category, then the quality policy decide
\* whether the issue is shown.
Visibility_FirstReason(s, facts, now) ==
  LET said == Feedback(s, facts, now).visibility IN
  IF said # "visible" THEN said ELSE IF item.filtered THEN "hidden_filtered" ELSE item.quality
Visibility(s, facts, now) ==
  LET said == Feedback(s, facts, now).visibility
      shown == IF said = "visible" /\ item.filtered THEN "hidden_filtered" ELSE said
  IN IF item.quality # "visible" /\ (shown = "visible" \/ (item.decided /\ shown = "hidden_filtered"))
     THEN item.quality ELSE shown
FeedScore(s, facts, now) ==
  LET f == Feedback(s, facts, now)
      fresh == Freshness(facts, now)
  IN Anchor[item.category] + item.rank + AtMost(fresh, item.cap) + f.boost - f.penalty - item.penalty
Displayable(visibility, withFiltered) ==
  visibility = "visible" \/ (visibility = "hidden_filtered" /\ withFiltered)
-----------------------------------------------------------------------------
(* The board.                                                                 *)

NoFacts == [ranked |-> FALSE, prepared |-> FALSE, dismissed |-> FALSE, done |-> FALSE, reactivated |-> FALSE,
            updated |-> None, comments |-> None, baseUpdated |-> None, baseComments |-> None]
\* Any sign of the issue after it was put away.
Reactivates_Anyhow(f, e) == f.dismissed \/ f.done
Reactivates(f, e) ==
  /\ f.dismissed \/ f.done
  /\ \/ e.type = "restored"
     \/ e.updated # None /\ f.baseUpdated # None /\ e.updated > f.baseUpdated
     \/ e.comments # None /\ f.baseComments # None /\ e.comments > f.baseComments
Known(now, before) == IF now # None THEN now ELSE before
ApplyToBoard(f, e) ==
  LET g == [f EXCEPT !.reactivated = @ \/ Reactivates(f, e)]
      away == [g EXCEPT !.done = e.type = "done", !.dismissed = e.type = "dismissed",
                        !.baseUpdated = Known(e.updated, f.updated), !.baseComments = Known(e.comments, f.comments)]
      h == CASE e.type \in {"shown", "read"} -> [g EXCEPT !.ranked = TRUE]
             [] e.type = "prepared" -> [g EXCEPT !.ranked = TRUE, !.prepared = TRUE]
             [] e.type \in {"done", "dismissed"} -> away
             [] OTHER -> [g EXCEPT !.dismissed = FALSE, !.done = FALSE]
  IN [h EXCEPT !.updated = Known(e.updated, @), !.comments = Known(e.comments, @)]
\* The inbox and the dispatch store add theirs.
FromInbox(f) ==
  [f EXCEPT !.prepared = @ \/ item.inbox = "ready", !.ranked = @ \/ item.inbox = "prepare_failed"]
FromTask(f) ==
  [f EXCEPT !.prepared = @ \/ item.task.status \notin {"none", "discovered"} \/ item.task.package]
BoardFacts(log) == FromTask(FromInbox(FoldLeft(ApplyToBoard, NoFacts, ByTime(log))))
NewestRun == item.runs[Len(item.runs)]  \* runs are listed by age
Outcomes == SelectSeq(item.runs, LAMBDA r : r.outcome # "none")
Display_InboxOnly(f) ==
  IF f.reactivated THEN "visible"
  ELSE IF item.inbox \in {"archived", "done"} THEN "hidden_archived"
  ELSE IF f.dismissed THEN "hidden_snoozed" ELSE "visible"
Display(f) ==
  IF f.reactivated THEN "visible"
  ELSE IF item.inbox \in {"archived", "done"} \/ f.done THEN "hidden_archived"
  ELSE IF f.dismissed THEN "hidden_snoozed" ELSE "visible"
RunShows ==
  IF item.runs = <<>> THEN "none"
  ELSE IF Outcomes # <<>> THEN Outcomes[Len(Outcomes)].outcome
  ELSE IF NewestRun.status \in {"succeeded", "partial"} THEN "outcome_positive"
  ELSE IF NewestRun.status \in {"failed", "canceled"} THEN "outcome_negative"
  ELSE IF NewestRun.status \in {"approved", "starting", "running", "needs_user", "evaluating"} THEN "dispatch_running"
  ELSE "none"
ReviewPending == item.reviews = "pending"
Lifecycle(f) ==
  IF RunShows # "none" THEN RunShows
  ELSE IF f.reactivated THEN "reactivation_candidate"
  ELSE IF Display(f) = "hidden_archived" THEN "archived"
  ELSE IF Display(f) = "hidden_snoozed" THEN "snoozed"
  ELSE IF ReviewPending THEN "review_pending"
  ELSE IF item.task.package \/ item.task.status = "user_approved" THEN "package_ready"
  ELSE IF f.prepared THEN "prepared"
  ELSE IF f.ranked THEN "ranked"
  ELSE "discovered"
\* active, ready_for_review and ready_for_dispatch, of visible issues.
Offered(f) ==
  Display(f) = "visible" /\ Lifecycle(f) \notin {"outcome_positive", "outcome_negative", "snoozed", "archived"}

FeedbackNext ==
  \/ \E sign \in Signs : Record(sign.type, sign.enriched) \/ StampOnly(sign.type, sign.enriched)
  \/ AppendLate \/ Enrich
  \/ \E comments \in 0..1 : \E maintainer \in BOOLEAN : (maintainer => comments = 1) /\ Change(comments, maintainer)
  \/ \E days \in LongPauses : Pause(days)
FeedbackSpec == FeedbackInit /\ [][FeedbackNext]_feedbackVars
-----------------------------------------------------------------------------
(* Properties.                                                                *)

Words(log) == {e \in Range(log) : e.type \in {"done", "dismissed", "restored"}}
LastWord(log) == CHOOSE e \in Words(log) : \A f \in Words(log) : f.at <= e.at

\* What the user said last counts under the legacy policy, whatever the order in which
\* concurrent commands appended their events: an issue put away is not in the feed, one
\* restored is not hidden from it.  (The CodexExposure policy is meant to ignore these
\* words: README.md:140-142.)
LastWordCounts ==
  Words(events) # {} =>
    LET visibility == Visibility(StateOf(events, "legacy"), seen, time.day) IN
    IF LastWord(events).type = "restored" THEN visibility # "hidden_dismissed"
    ELSE /\ visibility = IF LastWord(events).type = "done" THEN "hidden_done" ELSE "hidden_dismissed"
         /\ ~Displayable(visibility, TRUE)

\* Showing, reading or preparing an issue never moves it up the feed: what it has lost or
\* regained is not regained by being looked at, under either policy.
FeedbackNeverPromotes ==
  [][\A policy \in {"legacy", "codex"} :
       LET e == events'[Len(events')] IN
       Len(events') > Len(events) /\ late' = late /\ e.type \in {"shown", "read", "prepared"} =>
         FeedScore(StateOf(events', policy), seen, time.day)
           <= FeedScore(StateOf(events, policy), seen, time.day)]_feedbackVars

\* The user restored an issue that was put away before, or it was seen with a later update
\* or more comments than were known of it when it was put away.
CameBack(log) ==
  \E away, back \in Range(log) :
    /\ away.type \in {"done", "dismissed"} /\ away.at < back.at
    /\ \/ back.type = "restored"
       \/ \E known \in Range(log) : known.at < away.at
            /\ \/ known.updated # None /\ back.updated > known.updated
               \/ known.comments # None /\ back.comments > known.comments

\* The board calls an issue reactivated only when it came back.
ReactivationHasCause == BoardFacts(events).reactivated => CameBack(events)

\* An issue whose last word is done or dismissed is offered by the board only if it came
\* back at some time, whatever its package, its inbox and its runs are.  That time may be
\* before the last word: the board never forgets that an issue came back
\* (candidate_board.rs:310-313, 368-417), so one that was dismissed, restored and dismissed
\* again is offered, though nothing newer was seen of it.
HiddenIsNotOffered ==
  Words(events) # {} /\ LastWord(events).type # "restored" /\ ~CameBack(events) =>
    ~Offered(BoardFacts(events))

\* An issue the quality policy knows to be closed is not displayed, not even among the
\* filtered ones, once the decision model has screened it.
ClosedStaysHidden ==
  item.decided /\ item.quality = "hidden_done" =>
    ~Displayable(Visibility(StateOf(events, "codex"), seen, time.day), TRUE)

\* The feed and the board follow what the user said of an issue: the last word counts in the
\* legacy feed, on the board only news or a restoration brings an issue back, one put away
\* that never came back is not offered, and nothing closed is displayed (state.rs,
\* feedback.rs, candidate_board.rs, quality.rs).
FeedFollowsTheUser == LastWordCounts /\ ReactivationHasCause /\ HiddenIsNotOffered /\ ClosedStaysHidden
=============================================================================
