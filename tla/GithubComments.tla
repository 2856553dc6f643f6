---------------------------- MODULE GithubComments ----------------------------
(***************************************************************************)
(* The GitHub comments of one issue task: drafted by a policy, approved or  *)
(* rejected by a user, posted by a command that talks to GitHub             *)
(* (src/dispatch/github_projection.rs, github_interaction_policy.rs).       *)
(* Every command is a process of its own, the commands share the dispatch   *)
(* database, and every statement commits by itself.                         *)
(***************************************************************************)
EXTENDS Naturals, FiniteSets

CONSTANTS Operators,        \* processes running one command after another
          MaxInteractions,  \* bound: interactions drafted
          MaxPosts,         \* bound: comments GitHub holds for one interaction
          Inputs,           \* the situations comments are drafted in
          Faults            \* what may go wrong

CommentTypes == {"tracking_comment", "clarification_comment", "final_comment"}

\* What the policy tells apart: the command, the body an operator supplied, and
\* for a final comment whether the run lacks context, whether the result
\* suggests a reply, how validation went and how the run ended.
AllInputs ==
  [phase : {"tracking", "final"}, body : BOOLEAN, gap : BOOLEAN, reply : BOOLEAN,
   validation : {"passed", "failed", "none"},
   outcome : {"none", "success", "partial", "failed", "canceled"}]

\* "refused": GitHub answers with an error.  "lost": GitHub takes the comment but
\* the answer is lost or has no id.  "io": a read fails between two statements.
FaultKinds == {"refused", "lost", "io", "crash"}

ASSUME CommentAssumption ==
  /\ MaxInteractions \in Nat /\ MaxPosts \in Nat
  /\ Inputs \subseteq AllInputs /\ Faults \subseteq FaultKinds

Interactions == 1..MaxInteractions

VARIABLES
  item,      \* github_interactions, in order of creation
  approval,  \* the approval request of each
  github,    \* how often GitHub holds the comment of each
  pc, job,   \* where each process is, and what it works on
  granted,   \* history: interactions a user approved
  refused,   \* history: interactions a user rejected
  overlapped \* history: a command began while another ran
vars == <<item, approval, github, pc, job, granted, refused, overlapped>>
world == <<approval, github, granted, refused>>
-----------------------------------------------------------------------------
NoInput ==
  [phase |-> "tracking", body |-> FALSE, gap |-> FALSE, reply |-> FALSE,
   validation |-> "none", outcome |-> "none"]
Absent == [type |-> "none", status |-> "absent", basis |-> NoInput]
NoJob == [id |-> 0, type |-> "none", basis |-> NoInput, decision |-> "none"]

Created == {i \in Interactions : item[i].status # "absent"}

\* A draft check that forgets the comments already posted.
Active_IgnoresPosted(type) ==
  \E i \in Created : item[i].type = type /\ item[i].status \notin {"rejected", "posted"}

\* has_active_interaction
Active(type) == \E i \in Created : item[i].type = type /\ item[i].status # "rejected"

TargetType(f) ==
  IF f.phase = "tracking" THEN "tracking_comment"
  ELSE IF f.gap THEN "clarification_comment" ELSE "final_comment"

\* A policy that answers before it looks at the validation.
Speaks_IgnoresValidation(f) ==
  f.body \/ (f.phase = "final" /\ f.reply /\ (f.gap \/ f.outcome \in {"success", "partial"}))

\* Without a body from the operator a tracking comment is silent, and a final
\* comment needs a suggested reply and either missing context or a useful
\* outcome that did not fail validation.
Speaks(f) ==
  \/ f.body
  \/ /\ f.phase = "final"
     /\ f.reply
     /\ f.gap \/ (f.validation # "failed" /\ f.outcome \in {"success", "partial"})
-----------------------------------------------------------------------------
Goto(p, label) ==
  /\ pc' = [pc EXCEPT ![p] = label]
  /\ job' = IF label = "idle" THEN [job EXCEPT ![p] = NoJob] ELSE job
  /\ UNCHANGED overlapped

Start(p, label, j) ==
  /\ pc[p] = "idle"
  /\ pc' = [pc EXCEPT ![p] = label]
  /\ job' = [job EXCEPT ![p] = j]
  /\ overlapped' = (overlapped \/ \E q \in Operators : pc[q] # "idle")

SetStatus(i, status) == item' = [item EXCEPT ![i].status = status]

\* draft_tracking_comment, draft_final_comment: list the interactions, decide,
\* and only then insert.
Draft(p, f) ==
  /\ Speaks(f) /\ ~Active(TargetType(f))
  /\ Start(p, "insert", [NoJob EXCEPT !.type = TargetType(f), !.basis = f])
  /\ UNCHANGED <<item, world>>

InsertInteraction(p) ==
  LET i == Cardinality(Created) + 1
  IN /\ pc[p] = "insert" /\ i \in Interactions
     /\ item' = [item EXCEPT ![i] = [type |-> job[p].type, status |-> "draft",
                                     basis |-> job[p].basis]]
     /\ pc' = [pc EXCEPT ![p] = "ask"]
     /\ job' = [job EXCEPT ![p].id = i]
     /\ UNCHANGED <<world, overlapped>>

RequestApproval(p) ==
  /\ pc[p] = "ask"
  /\ approval' = [approval EXCEPT ![job[p].id] = "pending"]
  /\ Goto(p, "idle")
  /\ UNCHANGED <<item, github, granted, refused>>

\* An approve that takes any request of the interaction.
StartResolve_AnyRequest(p, i, d) ==
  /\ approval[i] # "none"
  /\ Start(p, "resolve", [NoJob EXCEPT !.id = i, !.decision = d])
  /\ UNCHANGED <<item, world>>

\* approve_github_interaction, reject_github_interaction: pending_github_approval
\* finds the request, then two UPDATEs follow that look at nothing.
StartResolve(p, i, d) ==
  /\ approval[i] = "pending"
  /\ Start(p, "resolve", [NoJob EXCEPT !.id = i, !.decision = d])
  /\ UNCHANGED <<item, world>>

ResolveRequest(p) ==
  LET i == job[p].id
  IN /\ pc[p] = "resolve"
     /\ approval' = [approval EXCEPT ![i] = job[p].decision]
     /\ granted' = IF job[p].decision = "approved" THEN granted \cup {i} ELSE granted
     /\ refused' = IF job[p].decision = "rejected" THEN refused \cup {i} ELSE refused
     /\ Goto(p, "mark")
     /\ UNCHANGED <<item, github>>

MarkDecision(p) ==
  /\ pc[p] = "mark"
  /\ SetStatus(job[p].id, job[p].decision)
  /\ Goto(p, "idle")
  /\ UNCHANGED world

\* A post that takes drafts as well.
StartPost_Drafts(p, i) ==
  /\ item[i].status \in {"draft", "approved"}
  /\ Start(p, "post", [NoJob EXCEPT !.id = i])
  /\ UNCHANGED <<item, world>>

\* post_github_interaction: read the row and its body.
StartPost(p, i) ==
  /\ item[i].status = "approved"
  /\ Start(p, "post", [NoJob EXCEPT !.id = i])
  /\ UNCHANGED <<item, world>>

\* retry_github_interaction: Failed becomes Retried, and the row is read again.
StartRetry(p, i) ==
  /\ item[i].status = "failed"
  /\ Start(p, "retry", [NoJob EXCEPT !.id = i])
  /\ UNCHANGED <<item, world>>

MarkRetried(p) ==
  /\ pc[p] = "retry"
  /\ SetStatus(job[p].id, "retried")
  /\ Goto(p, "reread")
  /\ UNCHANGED world

Reread(p) ==
  /\ pc[p] = "reread"
  /\ Goto(p, IF item[job[p].id].status = "retried" THEN "post" ELSE "idle")
  /\ UNCHANGED <<item, world>>

\* The issue task, the body artifact or its UTF-8 cannot be read.
RereadFails(p) ==
  /\ "io" \in Faults
  /\ pc[p] = "reread"
  /\ Goto(p, "idle")
  /\ UNCHANGED <<item, world>>

\* post_issue_comment, and what its answer leads to.
Post(p) ==
  LET i == job[p].id
  IN /\ pc[p] = "post" /\ github[i] < MaxPosts
     /\ \/ github' = [github EXCEPT ![i] = @ + 1] /\ Goto(p, "succeeded")
        \/ "lost" \in Faults /\ github' = [github EXCEPT ![i] = @ + 1] /\ Goto(p, "failed")
        \/ "refused" \in Faults /\ UNCHANGED github /\ Goto(p, "failed")
     /\ UNCHANGED <<item, approval, granted, refused>>

\* A failed post that is recorded as done.
RecordPosted_Always(p) ==
  /\ pc[p] \in {"succeeded", "failed"}
  /\ SetStatus(job[p].id, "posted")
  /\ Goto(p, "idle")
  /\ UNCHANGED world

RecordPosted(p) ==
  /\ pc[p] = "succeeded"
  /\ SetStatus(job[p].id, "posted")
  /\ Goto(p, "idle")
  /\ UNCHANGED world

RecordFailed(p) ==
  /\ pc[p] = "failed"
  /\ SetStatus(job[p].id, "failed")
  /\ Goto(p, "idle")
  /\ UNCHANGED world

Crash(p) ==
  /\ "crash" \in Faults
  /\ pc[p] # "idle"
  /\ Goto(p, "idle")
  /\ UNCHANGED <<item, world>>
-----------------------------------------------------------------------------
Init ==
  /\ item = [i \in Interactions |-> Absent]
  /\ approval = [i \in Interactions |-> "none"]
  /\ github = [i \in Interactions |-> 0]
  /\ pc = [p \in Operators |-> "idle"]
  /\ job = [p \in Operators |-> NoJob]
  /\ granted = {} /\ refused = {} /\ overlapped = FALSE

Operator(p) ==
  \/ \E f \in Inputs : Draft(p, f)
  \/ InsertInteraction(p) \/ RequestApproval(p)
  \/ \E i \in Interactions, d \in {"approved", "rejected"} : StartResolve(p, i, d)
  \/ ResolveRequest(p) \/ MarkDecision(p)
  \/ \E i \in Interactions : StartPost(p, i) \/ StartRetry(p, i)
  \/ MarkRetried(p) \/ Reread(p) \/ RereadFails(p)
  \/ Post(p) \/ RecordPosted(p) \/ RecordFailed(p)
  \/ Crash(p)

Next == \E p \in Operators : Operator(p)

Spec == Init /\ [][Next]_vars
-----------------------------------------------------------------------------
(* Properties.                                                              *)

Statuses == {"absent", "draft", "approved", "rejected", "posted", "failed", "retried"}
ItemRecords ==
  [type : CommentTypes \cup {"none"}, status : Statuses, basis : AllInputs]
JobRecords ==
  [id : Interactions \cup {0}, type : CommentTypes \cup {"none"}, basis : AllInputs,
   decision : {"none", "approved", "rejected"}]
Steps ==
  {"idle", "insert", "ask", "resolve", "mark", "retry", "reread", "post", "succeeded", "failed"}

\* The type of every variable.
TypeOK ==
  /\ item \in [Interactions -> ItemRecords]
  /\ approval \in [Interactions -> {"none", "pending", "approved", "rejected"}]
  /\ github \in [Interactions -> Nat]
  /\ pc \in [Operators -> Steps]
  /\ job \in [Operators -> JobRecords]
  /\ granted \subseteq Interactions /\ refused \subseteq Interactions /\ overlapped \in BOOLEAN

\* Nothing is said in public before a user approved saying it, whatever
\* commands overlap, fail and die (github_projection.rs: post needs Approved).
PostNeedsGrant == \A i \in Interactions : github[i] > 0 => i \in granted

\* A row that says posted is not a wish: GitHub holds the comment.
PostedIsOnGithub == \A i \in Interactions : item[i].status = "posted" => github[i] > 0

\* A final comment on GitHub whose body no operator wrote rests on a run that
\* ended in success or partial success and did not fail its validation.
PublicFinalsAreEarned ==
  \A i \in Interactions :
    github[i] > 0 /\ item[i].type = "final_comment" /\ ~item[i].basis.body =>
      item[i].basis.validation # "failed" /\ item[i].basis.outcome \in {"success", "partial"}

\* While commands run one after another, a comment a user rejected is never
\* posted afterwards (tests/dispatch_github_projection.rs, rejected_github_comment_cannot_be_posted).
RejectionSticks == [][overlapped \/ \A i \in refused : github'[i] = github[i]]_vars

\* While commands run one after another, at most one interaction of a type is
\* alive for an issue
\* (tests/dispatch_github_projection.rs, duplicate_tracking_comment_records_no_comment_decision).
OneActivePerType ==
  overlapped \/ \A i, j \in Created :
    item[i].type = item[j].type /\ item[i].status # "rejected" /\ item[j].status # "rejected" => i = j

\* A comment that is neither posted nor rejected, and on which no command works,
\* can still be approved, posted or retried
\* (tests/dispatch_github_projection.rs, failed_github_comment_post_can_be_retried).
NoDeadEnd ==
  \A i \in Created :
    \/ \E p \in Operators : pc[p] # "idle" /\ job[p].id = i
    \/ item[i].status \in {"posted", "rejected", "approved", "failed"}
    \/ item[i].status = "draft" /\ approval[i] = "pending"
=============================================================================
