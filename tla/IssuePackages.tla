----------------------------- MODULE IssuePackages -----------------------------
(***************************************************************************)
(* How a prepared handoff becomes a task package                              *)
(* (src/dispatch/packaging.rs, task_contract.rs, a2a_gateway.rs): the import  *)
(* of an inbox item, the review a user grants or refuses, the package it     *)
(* yields, and the dispatch proposals and A2A exports made from it.           *)
(*                                                                           *)
(* One issue, several inbox items about it.  Commands are processes that      *)
(* share the database; a step is one statement, and a command may die or fail *)
(* between any two.                                                           *)
(***************************************************************************)
EXTENDS DispatchStore, Sequences, FiniteSets, FiniteSetsExt, SequencesExt

CONSTANTS Clerks,      \* processes that run the commands
          Items,       \* ready inbox items of the issue, by age
          Unbuildable, \* items whose snapshot lacks a file the package needs
          MaxReviews, MaxExports  \* bounds

\* Of the items of an inbox one is the newest.
ASSUME PackageAssumption ==
  /\ Items \subseteq Nat \ {0} /\ Unbuildable \subseteq Items
  /\ Items # {} => \E i \in Items : \A j \in Items : j <= i

VARIABLES desk,      \* the row of issue_tasks: status, package and profile snapshot
          artifacts, \* per item: kinds of artifacts written for it
          reviews,   \* issue_review approval requests, oldest first
          exports,   \* a2a_send approval requests, each with the package exported
          proposals, \* dispatch runs proposed: the package each was made from
          clerk,     \* the command each process is in
          allowed,   \* history: reviews and exports a user approved
          overlappedDesk \* history: two commands ran at once
packageVars == <<desk, artifacts, reviews, exports, proposals, clerk, allowed, overlappedDesk>>
-----------------------------------------------------------------------------
NoWork == [at |-> "idle", item |-> 0, row |-> 0, status |-> "none"]
NoDesk == [status |-> "none", package |-> 0, profile |-> FALSE]
\* The statuses an import leaves alone; discovered and llm_confirmed are one here.
Settled == TaskStatuses

\* review_candidate_status
CandidateStatus_Fresh(old) == "candidate"
CandidateStatus(old) == IF old \in Settled THEN old ELSE "candidate"

Begin(c, step) ==
  /\ clerk[c] = NoWork /\ clerk' = [clerk EXCEPT ![c] = step]
  /\ overlappedDesk' = (overlappedDesk \/ \E d \in Clerks : clerk[d] # NoWork)
GoOn(c, at) == clerk[c].at # "idle" /\ clerk' = [clerk EXCEPT ![c].at = at] /\ overlappedDesk' = overlappedDesk
Finish(c) == clerk' = [clerk EXCEPT ![c] = NoWork] /\ overlappedDesk' = overlappedDesk
-----------------------------------------------------------------------------
(* import_handoff_item                                                       *)

StartImport(c, i) ==
  /\ Begin(c, [at |-> "upsert", item |-> i, row |-> 0, status |-> CandidateStatus(desk.status)])
  /\ UNCHANGED <<desk, artifacts, reviews, exports, proposals, allowed>>

UpsertTask(c) ==
  /\ clerk[c].at = "upsert" /\ GoOn(c, "existing")
  /\ desk' = [desk EXCEPT !.status = clerk[c].status]
  /\ UNCHANGED <<artifacts, reviews, exports, proposals, allowed>>

\* existing_import_result: an item already imported is not imported again; what
\* an unfinished import left behind is an error.
FindExisting_Never(c) ==
  /\ clerk[c].at = "existing" /\ GoOn(c, "handoff")
  /\ UNCHANGED <<desk, artifacts, reviews, exports, proposals, allowed>>
FindExisting(c) ==
  /\ clerk[c].at = "existing"
  /\ IF "handoff" \in artifacts[clerk[c].item] THEN Finish(c) ELSE GoOn(c, "handoff")
  /\ UNCHANGED <<desk, artifacts, reviews, exports, proposals, allowed>>

WriteArtifact(c, at, kind, next) ==
  /\ clerk[c].at = at /\ GoOn(c, next)
  /\ artifacts' = [artifacts EXCEPT ![clerk[c].item] = @ \cup {kind}]
  /\ UNCHANGED <<desk, reviews, exports, proposals, allowed>>
CopyHandoff(c) == WriteArtifact(c, "handoff", "handoff", "snapshot")
CopySnapshot_Later(c) == WriteArtifact(c, "snapshot", "none", "profile")
\* import_context_snapshot: its files first, then the snapshot that lists them.
CopySnapshot(c) == WriteArtifact(c, "snapshot", "snapshot", "profile")
WriteProfile(c) ==
  /\ clerk[c].at = "profile" /\ GoOn(c, "review")
  /\ desk' = [desk EXCEPT !.profile = TRUE]
  /\ UNCHANGED <<artifacts, reviews, exports, proposals, allowed>>
CreateReview(c) ==
  /\ clerk[c].at = "review" /\ Len(reviews) < MaxReviews /\ Finish(c)
  /\ reviews' = Append(reviews, [item |-> clerk[c].item, status |-> "pending"])
  /\ UNCHANGED <<desk, artifacts, exports, proposals, allowed>>
-----------------------------------------------------------------------------
(* approve_issue_review, reject_issue_review                                 *)

StartReview_Any(c, r, verdict) ==
  /\ Begin(c, [at |-> "resolve", item |-> reviews[r].item, row |-> r, status |-> verdict])
  /\ UNCHANGED <<desk, artifacts, reviews, exports, proposals, allowed>>
StartReview_BuildsFirst(c, r, verdict) ==
  /\ reviews[r].status = "pending"
  /\ Begin(c, [at |-> "build", item |-> reviews[r].item, row |-> r, status |-> verdict])
  /\ UNCHANGED <<desk, artifacts, reviews, exports, proposals, allowed>>
StartReview(c, r, verdict) ==
  /\ reviews[r].status = "pending"
  /\ Begin(c, [at |-> "resolve", item |-> reviews[r].item, row |-> r, status |-> verdict])
  /\ UNCHANGED <<desk, artifacts, reviews, exports, proposals, allowed>>
\* resolve_approval_request overwrites the status, whatever it is by now.
ResolveReview(c) ==
  /\ clerk[c].at = "resolve"
  /\ IF clerk[c].status = "approved" THEN GoOn(c, "build") ELSE Finish(c)
  /\ reviews' = [reviews EXCEPT ![clerk[c].row].status = clerk[c].status]
  /\ allowed' = IF clerk[c].status = "approved" THEN allowed \cup {<<"review", clerk[c].row>>} ELSE allowed
  /\ UNCHANGED <<desk, artifacts, exports, proposals>>
\* from_reviewed_handoff takes an approved request and a complete snapshot.
BuildPackage(c) ==
  /\ clerk[c].at = "build"
  /\ IF clerk[c].item \in Unbuildable THEN Finish(c) ELSE GoOn(c, "write")
  /\ UNCHANGED <<desk, artifacts, reviews, exports, proposals, allowed>>
WritePackage(c) ==
  /\ clerk[c].at = "write" /\ GoOn(c, "status")
  /\ desk' = [desk EXCEPT !.package = clerk[c].row]
  /\ UNCHANGED <<artifacts, reviews, exports, proposals, allowed>>
MarkUserApproved(c) ==
  /\ clerk[c].at = "status" /\ Finish(c)
  /\ desk' = [desk EXCEPT !.status = "user_approved"]
  /\ UNCHANGED <<artifacts, reviews, exports, proposals, allowed>>
-----------------------------------------------------------------------------
(* What is made from a package.                                              *)

\* import_ready_handoff_for_issue
Newest == Max(Items)
\* ensure_packaged_issue_task_for_issue: a task without a package and without a
\* review to wait for imports the newest item, and the caller gets an error.
EnsurePackaged(c) ==
  /\ desk.package = 0 /\ \A r \in DOMAIN reviews : reviews[r].status # "pending"
  /\ Items # {} /\ StartImport(c, Newest)

Propose(c) ==
  /\ desk.package # 0 /\ proposals' = proposals \cup {desk.package} /\ clerk[c] = NoWork
  /\ UNCHANGED <<desk, artifacts, reviews, exports, clerk, allowed, overlappedDesk>>
StartExport(c) ==
  /\ desk.package # 0
  /\ Begin(c, [at |-> "export", item |-> 0, row |-> desk.package, status |-> "none"])
  /\ UNCHANGED <<desk, artifacts, reviews, exports, proposals, allowed>>
RequestSend(c) ==
  /\ clerk[c].at = "export" /\ Len(exports) < MaxExports /\ Finish(c)
  /\ exports' = Append(exports, [package |-> clerk[c].row, status |-> "pending"])
  /\ UNCHANGED <<desk, artifacts, reviews, proposals, allowed>>
\* resolve_send: the check and the update are two statements.
StartSend_Unchecked(c, k, verdict) ==
  /\ Begin(c, [at |-> "send", item |-> 0, row |-> k, status |-> verdict])
  /\ UNCHANGED <<desk, artifacts, reviews, exports, proposals, allowed>>
StartSend(c, k, verdict) ==
  /\ exports[k].status = "pending"
  /\ Begin(c, [at |-> "send", item |-> 0, row |-> k, status |-> verdict])
  /\ UNCHANGED <<desk, artifacts, reviews, exports, proposals, allowed>>
ResolveSend(c) ==
  /\ clerk[c].at = "send" /\ Finish(c)
  /\ exports' = [exports EXCEPT ![clerk[c].row].status = clerk[c].status]
  /\ allowed' = IF clerk[c].status = "approved" THEN allowed \cup {<<"send", clerk[c].row>>} ELSE allowed
  /\ UNCHANGED <<desk, artifacts, reviews, proposals>>

\* The dispatch of a proposal moves the task on (see DispatchRun); what an import
\* finds there is a settled status, whichever it is.
Advance ==
  /\ proposals # {}
  /\ desk' = [desk EXCEPT !.status = "in_progress"]
  /\ overlappedDesk' = (overlappedDesk \/ \E c \in Clerks : clerk[c] # NoWork)
  /\ UNCHANGED <<artifacts, reviews, exports, proposals, clerk, allowed>>
\* The process dies, or a statement fails and the error ends the command.
Abort(c) ==
  /\ clerk[c] # NoWork /\ Finish(c)
  /\ UNCHANGED <<desk, artifacts, reviews, exports, proposals, allowed>>
-----------------------------------------------------------------------------
PackageInit ==
  /\ desk = NoDesk /\ artifacts = [i \in Items |-> {}]
  /\ reviews = <<>> /\ exports = <<>> /\ proposals = {}
  /\ clerk = [c \in Clerks |-> NoWork] /\ allowed = {} /\ overlappedDesk = FALSE
PackageNext ==
  \/ \E c \in Clerks :
       \/ \E i \in Items : StartImport(c, i)
       \/ UpsertTask(c) \/ FindExisting(c) \/ CopyHandoff(c) \/ CopySnapshot(c)
       \/ WriteProfile(c) \/ CreateReview(c)
       \/ \E r \in DOMAIN reviews, v \in {"approved", "rejected"} : StartReview(c, r, v)
       \/ ResolveReview(c) \/ BuildPackage(c) \/ WritePackage(c) \/ MarkUserApproved(c)
       \/ EnsurePackaged(c) \/ Propose(c) \/ StartExport(c) \/ RequestSend(c)
       \/ \E k \in DOMAIN exports, v \in {"approved", "rejected"} : StartSend(c, k, v)
       \/ ResolveSend(c) \/ Abort(c)
  \/ Advance
PackageSpec == PackageInit /\ [][PackageNext]_packageVars
-----------------------------------------------------------------------------
\* Whatever overlaps, fails or dies: a package, and with it what a worker or
\* another agent is handed, comes from a review a user approved, and that review
\* was about a complete import: its handoff, its snapshot and a profile.
PackagesAreReviewed ==
  /\ \A r \in {desk.package} \cup proposals \cup {exports[k].package : k \in DOMAIN exports} :
       r # 0 => <<"review", r>> \in allowed
  /\ \A k \in DOMAIN exports : exports[k].status = "approved" => <<"send", k>> \in allowed
ReviewsAreComplete ==
  \A r \in DOMAIN reviews : {"handoff", "snapshot"} \subseteq artifacts[reviews[r].item] /\ desk.profile

\* As long as no two commands overlap, a rejected review yields no package and is
\* never revived, whatever failed half-way before.
RejectedStaysOut ==
  ~overlappedDesk => \A r \in DOMAIN reviews :
    reviews[r].status = "rejected" => desk.package # r /\ <<"review", r>> \notin allowed
\* As long as no two commands overlap, an item is put before the user once,
\* however often its import is started, fails and is started again.
OneReviewPerItem ==
  ~overlappedDesk => \A r, q \in DOMAIN reviews : reviews[r].item = reviews[q].item => r = q
\* An export is decided once, as long as no two commands overlap.
SendsAreFinal ==
  [][~overlappedDesk' => \A k \in DOMAIN exports :
       exports[k].status # "pending" => exports'[k].status = exports[k].status]_packageVars
\* Importing another item of an issue never takes a task that was approved or
\* dispatched back to a candidate, as long as no two commands overlap.
ImportsDoNotReopen ==
  [][~overlappedDesk' /\ desk.status \in Settled => desk'.status \in Settled]_packageVars

\* The user's review stands between an import and a package: it is about a complete
\* import, asked once, and neither a failure half-way nor a death nor (for the last
\* two parts, as long as none happens) an overlap gets a package past it
\* (packaging.rs import_handoff_item, approve_issue_review).
ReviewsGatePackages ==
  PackagesAreReviewed /\ ReviewsAreComplete /\ RejectedStaysOut /\ OneReviewPerItem
=============================================================================
