------------------------------- MODULE Judgement -------------------------------
(***************************************************************************)
(* Screening one issue with a native decision service: gathering the material *)
(* (github_enrichment.rs decision_evidence), the snapshot that answers the    *)
(* same question again (decision/mod.rs judge), the call over HTTP             *)
(* (decision/http.rs) and the capture of the round (decision/replay.rs).       *)
(*                                                                           *)
(* Screens run at once and share the home directory's caches.  Meanwhile the  *)
(* discussion of the issue goes on.  A hash stands for what it is taken of.    *)
(* Bounds: comments, edits, the clock, screenings.  The clock does not go back.  *)
(***************************************************************************)
EXTENDS DecisionContract

CONSTANTS
  Screens, Providers,
  SourceTtl, SnapshotTtl,            \* lifetimes of what is fetched and of what is answered
  MaxComments, MaxEdits, LastMinute, MaxCalls  \* bounds

ASSUME JudgementAssumption ==
  SourceTtl \in Nat /\ SnapshotTtl \in Nat /\ SampleLimit \in Nat /\ MaxComments \in Nat

VARIABLES discussion, \* GitHub: its comments, how often one was edited, the issue's update
          kept,       \* the caches: details, comments by the rest of the material, snapshots by key
          screen,     \* per screen, its call
          minute,     \* the clock
          accepted,   \* history: how often the service accepted the question of a call
          begun,      \* history: screenings begun
          seenAt      \* history: what the discussion was at each minute
judgeVars == <<discussion, kept, screen, minute, accepted, begun, seenAt>>
-----------------------------------------------------------------------------
NoDetails == [known |-> FALSE, n |-> 0]
NoComments == [got |-> FALSE, count |-> 0, edits |-> 0]
Unanswered == [given |-> FALSE]
NoCall == [at |-> "idle"]
JudgeInit ==
  /\ discussion = [count |-> 0, edits |-> 0]
  /\ kept = [details |-> {}, comments |-> {}, snapshots |-> {}]
  /\ screen = [s \in Screens |-> NoCall]
  /\ minute = 0 /\ accepted = [s \in Screens |-> 0] /\ begun = 0 /\ seenAt = <<{discussion}>>

GoesOn(now) == discussion' = now /\ seenAt' = [seenAt EXCEPT ![minute + 1] = @ \cup {now}]
\* Anyone comments, or edits a comment; an edit leaves the count and may leave the
\* issue's update time alone.
Discuss ==
  /\ \/ discussion.count < MaxComments /\ GoesOn([discussion EXCEPT !.count = @ + 1])
     \/ discussion.count > 0 /\ discussion.edits < MaxEdits /\ GoesOn([discussion EXCEPT !.edits = @ + 1])
  /\ UNCHANGED <<kept, screen, minute, accepted, begun>>
TimePasses ==
  /\ minute < LastMinute /\ minute' = minute + 1 /\ seenAt' = Append(seenAt, {discussion})
  /\ UNCHANGED <<discussion, kept, screen, accepted, begun>>

\* load_source_cache, save_source_cache.
FreshSource(entries) == {e \in entries : minute - e.at <= SourceTtl}
Saved(entries, e) == {o \in entries : o.key # e.key} \cup {e}
To(s, call) == screen' = [screen EXCEPT ![s] = call]
World == UNCHANGED <<discussion, minute, seenAt, begun>>
-----------------------------------------------------------------------------
(* decision_evidence.                                                        *)

BeginScreen(s) ==
  /\ screen[s].at \in {"idle", "done"} /\ begun < MaxCalls /\ begun' = begun + 1
  /\ \E p \in Providers, refresh \in BOOLEAN :
       To(s, [at |-> "details", order |-> [provider |-> p, refresh |-> refresh, since |-> minute]])
  /\ accepted' = [accepted EXCEPT ![s] = 0] /\ UNCHANGED <<discussion, minute, seenAt, kept>>

With(s, details) == To(s, [at |-> "comments", order |-> screen[s].order, details |-> details])
\* fetch_issue_details_cached; details that cannot be had leave the count unknown.
ReadDetails(s) ==
  LET fresh == IF screen[s].order.refresh THEN {} ELSE FreshSource(kept.details)
      fetched == [known |-> TRUE, n |-> discussion.count] IN
  /\ screen[s].at = "details"
  /\ \/ \E e \in fresh : With(s, e.value) /\ UNCHANGED kept
     \/ /\ fresh = {} /\ With(s, fetched)
        /\ kept' = [kept EXCEPT !.details = {[value |-> fetched, at |-> minute]}]
     \/ With(s, NoDetails) /\ UNCHANGED kept
  /\ World /\ UNCHANGED accepted

\* The comments by the material without them.  They are the newest that fit one or
\* two pages counted from the details; with no count, the first page.
CommentKey(s) == screen[s].details
PageOf(total) ==
  [got |-> TRUE, edits |-> discussion.edits,
   count |-> IF total.known THEN Min({discussion.count, total.n}) ELSE Min({discussion.count, SampleLimit})]
Material(s, comments) ==
  [total |-> screen[s].details, comments |-> comments,
   status |-> IF comments.got
              THEN FromComments(screen[s].details, [n \in 1..comments.count |-> 1], TRUE, {}).status ELSE "unavailable"]
ReadComments(s) ==
  LET key == CommentKey(s)
      fresh == IF screen[s].order.refresh THEN {} ELSE {e \in FreshSource(kept.comments) : e.key = key}
      read(comments) == To(s, [at |-> "look", order |-> screen[s].order, material |-> Material(s, comments)])
      fetched == IF key.known /\ key.n = 0 THEN [NoComments EXCEPT !.got = TRUE] ELSE PageOf(key)
      save == kept' = [kept EXCEPT !.comments =
                         Saved(@, [key |-> key, value |-> fetched, at |-> minute])] IN
  /\ screen[s].at = "comments"
  /\ \/ \E e \in fresh : read(e.value) /\ UNCHANGED kept
     \/ fresh = {} /\ read(fetched) /\ (save \/ UNCHANGED kept)
     \/ fresh = {} /\ ~(key.known /\ key.n = 0) /\ read(NoComments) /\ UNCHANGED kept
  /\ World /\ UNCHANGED accepted
-----------------------------------------------------------------------------
(* judge.                                                                    *)

\* request_for: what is asked is the material; its hash leaves out when it was fetched.
InputId_OfCounts(material) == [material EXCEPT !.comments.edits = 0]
InputId(material) == material
SnapshotKey(call) == [input |-> InputId(call.material), provider |-> call.order.provider]
\* JudgmentSnapshot::pending, and what it becomes.
Snapshot(call, status, response) ==
  [key |-> SnapshotKey(call), status |-> status, response |-> response, at |-> call.asked]
Ended(s, status, response) ==
  To(s, [at |-> "done", order |-> screen[s].order, material |-> screen[s].material, ended |-> minute,
         status |-> status, response |-> response])
Submitting(s, asked, attempt) ==
  To(s, [at |-> "post", order |-> screen[s].order, material |-> screen[s].material,
         asked |-> asked, attempt |-> attempt])
Reusable(call, e) ==
  /\ e.key = SnapshotKey(call) /\ e.status = "completed" /\ minute - e.at < SnapshotTtl
\* A fresh completed snapshot of this key answers; one that cannot be read fails the
\* screen; any other is asked again.
LookUp(s) ==
  LET call == screen[s]
      usable == IF call.order.refresh THEN {} ELSE {e \in kept.snapshots : Reusable(call, e)} IN
  /\ call.at = "look"
  /\ \/ \E e \in usable : Ended(s, e.status, e.response)
     \/ usable = {} /\ Submitting(s, minute, 0)
     \/ ~call.order.refresh /\ (\E e \in kept.snapshots : e.key = SnapshotKey(call)) /\ Ended(s, "failed", Unanswered)
  /\ World /\ UNCHANGED <<kept, accepted>>

\* DecisionHttp::post: what came back of a submission.  A refusal says that nothing
\* was accepted; a lost answer, a timeout, an error status or an answer against the
\* contract says nothing (all four are "lost").
Endings == {"completed", "partial", "lost", "refused"}
Again_WhenLost(call, outcome) == call.attempt = 0 /\ outcome \in {"refused", "lost"}
\* Submitted again: only after a refusal, once, and when the deadline allows the wait.
Again(call, outcome) == call.attempt = 0 /\ outcome = "refused"
Answering == {"completed", "partial"}
Answer(call) == [given |-> TRUE, on |-> call.material, by |-> call.order.provider]
Reported(s, status, response) ==
  To(s, [at |-> "save", order |-> screen[s].order, material |-> screen[s].material, asked |-> screen[s].asked,
         status |-> status, response |-> response])
Post(s) ==
  LET call == screen[s] IN
  /\ call.at = "post"
  /\ \E outcome \in Endings :
       /\ accepted' = [accepted EXCEPT ![s] = @ + (IF outcome = "refused" THEN 0 ELSE 1)]
       /\ \/ Again(call, outcome) /\ Submitting(s, call.asked, 1)
          \/ outcome \in Answering /\ Reported(s, outcome, Answer(call))
          \/ outcome \notin Answering /\ Reported(s, "failed", Unanswered)
  /\ World /\ UNCHANGED kept

\* Written whatever came of it; a write that fails loses the answer.
Lost_AsPending == "pending"
Lost == "failed"
SaveSnapshot(s) ==
  LET call == screen[s] IN
  /\ call.at = "save"
  /\ \/ /\ kept' = [kept EXCEPT !.snapshots = Saved(@, Snapshot(call, call.status, call.response))]
        /\ Ended(s, call.status, call.response)
     \/ Ended(s, Lost, Unanswered) /\ UNCHANGED kept
  /\ World /\ UNCHANGED accepted

ScreenStep(s) ==
  BeginScreen(s) \/ ReadDetails(s) \/ ReadComments(s) \/ LookUp(s) \/ Post(s) \/ SaveSnapshot(s)
JudgeNext == Discuss \/ TimePasses \/ (\E s \in Screens : ScreenStep(s))
JudgeSpec == JudgeInit /\ [][JudgeNext]_judgeVars
-----------------------------------------------------------------------------
Concluded == {s \in Screens : screen[s].at = "done"}
\* The discussion as it was from a while before the screen began until it ended.
RecentDiscussions(call) ==
  UNION {seenAt[m + 1] : m \in {m \in 0..call.ended : m + SourceTtl >= call.order.since}}
\* The lifetimes of the three caches do not add up: whatever was cached, by whichever
\* screen, an answer is about the discussion as it was within one lifetime of what is
\* fetched, and from the provider that was to be asked (mod.rs judge: the evidence,
\* question and provider identity is the sole cache boundary).
AnswersFitTheDiscussion ==
  \A s \in Concluded :
    LET call == screen[s] on == screen[s].response.on IN
    call.response.given =>
      /\ call.response.by = call.order.provider
      /\ on.total.known => \E d \in RecentDiscussions(call) : d.count = on.total.n
      /\ on.comments.got /\ on.comments.count > 0 =>
           \E d \in RecentDiscussions(call) : d.edits = on.comments.edits /\ d.count >= on.comments.count
\* One screening asks the service at most once that it may have accepted (http.rs:
\* no uncertain request was resubmitted).
NotAskedTwice == \A s \in Screens : accepted[s] <= 1
\* ScoutReplay::validate of one judgment.
Capturable(call) ==
  IF call.response.given THEN InputId(call.response.on) = InputId(call.material) /\ call.status \in Answering
  ELSE call.status = "failed"
\* The round a screening ends in can be captured: one judgment that cannot fails the
\* whole scout, after every question was paid for (replay.rs capture).
RoundIsCapturable == \A s \in Concluded : Capturable(screen[s])

\* Whatever is cached, lost or interrupted: an answer is about the discussion there was,
\* it was asked for once, and the round it belongs to can be captured (decision/mod.rs).
JudgementsAreSound == AnswersFitTheDiscussion /\ NotAskedTwice /\ RoundIsCapturable
=============================================================================
