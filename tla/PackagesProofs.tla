------------------------------ MODULE PackagesProofs ------------------------------
(* What no order of imports, reviews, exports and deaths does to a package and *)
(* what no order of decisions, posts and failures does to a comment, for any   *)
(* clerks, operators, items, faults and bounds.                               *)
EXTENDS IssuePackages, GithubComments, SequenceTheorems, FiniteSetTheorems, TLAPS

-----------------------------------------------------------------------------
(* Packages.                                                                  *)

DeskStatuses == TaskStatuses \cup {"none", "candidate"}
Verdicts == {"approved", "rejected"}
ApprovalRows == Verdicts \cup {"pending"}
ImportSteps == {"handoff", "snapshot", "profile", "review"}
ReviewSteps == {"resolve", "build", "write", "status"}
ClerkWork ==
  [at : {"upsert", "existing"} \cup ImportSteps \cup ReviewSteps, item : Items, row : Nat, status : DeskStatuses \cup Verdicts]
    \cup [at : {"export", "send"}, item : {0}, row : Nat, status : DeskStatuses \cup Verdicts]

PackagesTyped ==
  /\ desk \in [status : DeskStatuses, package : Nat, profile : BOOLEAN]
  /\ artifacts \in [Items -> SUBSET {"handoff", "snapshot"}]
  /\ reviews \in Seq([item : Items, status : ApprovalRows])
  /\ exports \in Seq([package : Nat, status : ApprovalRows])
  /\ proposals \subseteq Nat
  /\ clerk \in [Clerks -> ClerkWork \cup {NoWork}]
  /\ allowed \subseteq ({"review", "send"} \X Nat)
  /\ overlappedDesk \in BOOLEAN

\* A clerk who resolves has a row to resolve and a verdict, one who builds has it approved,
\* and one who exports found an approved package.
Knows(rec) ==
  /\ rec.at = "upsert" => rec.status \in DeskStatuses
  /\ rec.at \in ReviewSteps =>
       rec.row \in DOMAIN reviews /\ reviews[rec.row].item = rec.item /\ rec.status \in Verdicts
  /\ rec.at \in {"build", "write", "status"} => <<"review", rec.row>> \in allowed
  /\ rec.at = "export" => rec.row # 0 /\ <<"review", rec.row>> \in allowed
  /\ rec.at = "send" => rec.row \in DOMAIN exports /\ rec.status \in Verdicts
ClerksKnow == \A c \in Clerks : Knows(clerk[c])

\* What a clerk at a step of an import has already copied.
Copied(rec) ==
  /\ rec.at \in {"snapshot", "profile", "review"} => "handoff" \in artifacts[rec.item]
  /\ rec.at \in {"profile", "review"} => "snapshot" \in artifacts[rec.item]
  /\ rec.at = "review" => desk.profile
ImportsProgress == \A c \in Clerks : Copied(clerk[c])

\* Only a review that exists is allowed, and until two commands overlap only an approved one.
AllowedExists ==
  \A r \in Nat : <<"review", r>> \in allowed =>
    r \in DOMAIN reviews /\ (~overlappedDesk => reviews[r].status = "approved")

\* Until two commands overlap one clerk works at most; what it found when it
\* began is still so: the status of the task, a row that waits, an item without review.
OneAtATime ==
  ~overlappedDesk => \A c, d \in Clerks : clerk[c] # NoWork /\ clerk[d] # NoWork => c = d
StillSo(rec) ==
  /\ rec.at = "upsert" => rec.status = CandidateStatus(desk.status)
  /\ rec.at = "resolve" => reviews[rec.row].status = "pending"
  /\ rec.at = "send" => exports[rec.row].status = "pending"
  /\ rec.at \in ImportSteps => \A r \in DOMAIN reviews : reviews[r].item # rec.item
NothingIsStale == ~overlappedDesk => \A c \in Clerks : StillSo(clerk[c])

PackagesInv ==
  /\ PackagesTyped /\ ClerksKnow /\ ImportsProgress /\ AllowedExists /\ OneAtATime /\ NothingIsStale
  /\ PackagesAreReviewed /\ ReviewsAreComplete /\ OneReviewPerItem
-----------------------------------------------------------------------------
LEMMA NoWorkFacts == NoWork \notin ClerkWork /\ NoWork.at = "idle"
  BY DEF NoWork, ClerkWork, ImportSteps, ReviewSteps

LEMMA BeginEffect ==
  ASSUME PackagesTyped, NEW c \in Clerks, NEW step \in ClerkWork, Begin(c, step)
  PROVE  /\ clerk' \in [Clerks -> ClerkWork \cup {NoWork}] /\ overlappedDesk' \in BOOLEAN
         /\ clerk[c] = NoWork /\ clerk'[c] = step
         /\ \A d \in Clerks : d # c => clerk'[d] = clerk[d]
         /\ ~overlappedDesk' => ~overlappedDesk /\ \A d \in Clerks : clerk[d] = NoWork
<1>1. overlappedDesk' \in BOOLEAN
  BY DEF Begin, PackagesTyped
<1>2. clerk' = [clerk EXCEPT ![c] = step] /\ clerk[c] = NoWork
  BY DEF Begin
<1>3. ~overlappedDesk' => ~overlappedDesk /\ \A d \in Clerks : clerk[d] = NoWork
  BY DEF Begin
<1> QED
  BY <1>1, <1>2, <1>3 DEF PackagesTyped

LEMMA GoOnEffect ==
  ASSUME PackagesTyped, NEW c \in Clerks,
         NEW at \in {"existing"} \cup ImportSteps \cup ReviewSteps,
         clerk[c].at \notin {"export", "send"}, GoOn(c, at)
  PROVE  /\ clerk' \in [Clerks -> ClerkWork \cup {NoWork}] /\ overlappedDesk' = overlappedDesk
         /\ clerk[c] \in ClerkWork /\ clerk[c] # NoWork /\ clerk[c].item \in Items
         /\ clerk'[c] \in ClerkWork /\ clerk'[c].at = at
         /\ clerk'[c].item = clerk[c].item /\ clerk'[c].row = clerk[c].row
         /\ clerk'[c].status = clerk[c].status
         /\ \A d \in Clerks : d # c => clerk'[d] = clerk[d]
<1> DEFINE was == clerk[c]
           new == [was EXCEPT !.at = at]
<1>1. was.at # "idle" /\ clerk' = [clerk EXCEPT ![c] = new] /\ overlappedDesk' = overlappedDesk
  BY DEF GoOn
<1>2. was \in [at : {"upsert", "existing"} \cup ImportSteps \cup ReviewSteps, item : Items, row : Nat, status : DeskStatuses \cup Verdicts]
  BY <1>1, NoWorkFacts DEF PackagesTyped, ClerkWork
<1>3. /\ new \in [at : {"upsert", "existing"} \cup ImportSteps \cup ReviewSteps, item : Items, row : Nat, status : DeskStatuses \cup Verdicts]
      /\ new.at = at /\ new.item = was.item /\ new.row = was.row /\ new.status = was.status
  BY <1>2
<1>4. was \in ClerkWork /\ new \in ClerkWork /\ was.item \in Items
  BY <1>2, <1>3 DEF ClerkWork
<1>5. clerk'[c] = new /\ \A d \in Clerks : d # c => clerk'[d] = clerk[d]
  BY <1>1 DEF PackagesTyped
<1>6. clerk' \in [Clerks -> ClerkWork \cup {NoWork}]
  BY <1>1, <1>4 DEF PackagesTyped
<1> HIDE DEF new
<1> QED
  BY <1>1, <1>3, <1>4, <1>5, <1>6, NoWorkFacts

LEMMA FinishEffect ==
  ASSUME PackagesTyped, NEW c \in Clerks, Finish(c)
  PROVE  /\ clerk' \in [Clerks -> ClerkWork \cup {NoWork}] /\ overlappedDesk' = overlappedDesk
         /\ clerk'[c] = NoWork /\ \A d \in Clerks : d # c => clerk'[d] = clerk[d]
  BY DEF Finish, PackagesTyped
-----------------------------------------------------------------------------
\* Each command keeps the types.  The two tables are sequences of records.
LEMMA RowTypes ==
  ASSUME PackagesTyped
  PROVE  /\ \A i \in Items : Append(reviews, [item |-> i, status |-> "pending"])
                               \in Seq([item : Items, status : ApprovalRows])
         /\ \A p \in Nat : Append(exports, [package |-> p, status |-> "pending"])
                               \in Seq([package : Nat, status : ApprovalRows])
  BY DEF PackagesTyped, ApprovalRows

LEMMA ImportTypes ==
  ASSUME PackagesTyped, ClerksKnow, NEW c \in Clerks,
         \/ \E i \in Items : StartImport(c, i)
         \/ UpsertTask(c) \/ FindExisting(c) \/ CopyHandoff(c) \/ CopySnapshot(c)
         \/ WriteProfile(c) \/ CreateReview(c) \/ EnsurePackaged(c)
  PROVE  PackagesTyped'
<1>1. ASSUME NEW i \in Items, StartImport(c, i) PROVE PackagesTyped'
  <2> DEFINE step == [at |-> "upsert", item |-> i, row |-> 0, status |-> CandidateStatus(desk.status)]
  <2>1. CandidateStatus(desk.status) \in DeskStatuses
    BY DEF PackagesTyped, CandidateStatus, DeskStatuses
  <2>2. step \in ClerkWork
    BY <2>1 DEF ClerkWork
  <2>3. Begin(c, step)
    BY <1>1 DEF StartImport
  <2> HIDE DEF step
  <2> QED
    BY <1>1, <2>2, <2>3, BeginEffect DEF PackagesTyped, StartImport
<1>2. CASE EnsurePackaged(c)
  <2>1. Newest \in Items
    BY <1>2, PackageAssumption DEF EnsurePackaged, Newest, Max
  <2> QED
    BY <1>1, <1>2, <2>1 DEF EnsurePackaged
<1>3. CASE UpsertTask(c)
  <2>1. GoOn(c, "existing") /\ clerk[c].at = "upsert"
    BY <1>3 DEF UpsertTask
  <2>2. clerk[c].status \in DeskStatuses
    BY <1>3 DEF UpsertTask, ClerksKnow, Knows
  <2>3. desk' \in [status : DeskStatuses, package : Nat, profile : BOOLEAN]
    BY <1>3, <2>2 DEF UpsertTask, PackagesTyped
  <2> QED
    BY <1>3, <2>1, <2>3, GoOnEffect DEF PackagesTyped, UpsertTask
<1>4. CASE FindExisting(c)
  BY <1>4, GoOnEffect, FinishEffect DEF PackagesTyped, FindExisting, ImportSteps
<1>5. CASE CopyHandoff(c) \/ CopySnapshot(c)
  <2>1. PICK at \in ImportSteps, kind \in {"handoff", "snapshot"}, next \in ImportSteps :
          WriteArtifact(c, at, kind, next)
    BY <1>5 DEF CopyHandoff, CopySnapshot, ImportSteps
  <2>2. GoOn(c, next) /\ clerk[c].at \notin {"export", "send"}
    BY <2>1 DEF WriteArtifact, ImportSteps
  <2>3. artifacts' = [artifacts EXCEPT ![clerk[c].item] = @ \cup {kind}]
    BY <2>1 DEF WriteArtifact
  <2>4. artifacts' \in [Items -> SUBSET {"handoff", "snapshot"}]
    BY <2>3 DEF PackagesTyped
  <2> QED
    BY <2>1, <2>2, <2>4, GoOnEffect DEF PackagesTyped, WriteArtifact
<1>6. CASE WriteProfile(c)
  BY <1>6, GoOnEffect DEF PackagesTyped, WriteProfile, ImportSteps
<1>7. CASE CreateReview(c)
  <2>1. clerk[c].item \in Items
    BY <1>7, NoWorkFacts DEF CreateReview, PackagesTyped, ClerkWork
  <2> QED
    BY <1>7, <2>1, RowTypes, FinishEffect DEF PackagesTyped, CreateReview
<1> QED
  BY <1>1, <1>2, <1>3, <1>4, <1>5, <1>6, <1>7

LEMMA TableFacts ==
  ASSUME PackagesTyped
  PROVE  /\ DOMAIN reviews = 1..Len(reviews) /\ DOMAIN exports = 1..Len(exports)
         /\ Len(reviews) \in Nat /\ Len(exports) \in Nat
         /\ \A r \in DOMAIN reviews : r \in Nat /\ reviews[r] \in [item : Items, status : ApprovalRows]
         /\ \A k \in DOMAIN exports : k \in Nat /\ exports[k] \in [package : Nat, status : ApprovalRows]
<1>1. /\ DOMAIN reviews = 1..Len(reviews) /\ DOMAIN exports = 1..Len(exports)
      /\ Len(reviews) \in Nat /\ Len(exports) \in Nat
  BY DEF PackagesTyped
<1>2. \A r \in 1..Len(reviews) : reviews[r] \in [item : Items, status : ApprovalRows]
  BY ElementOfSeq DEF PackagesTyped
<1>3. \A k \in 1..Len(exports) : exports[k] \in [package : Nat, status : ApprovalRows]
  BY ElementOfSeq DEF PackagesTyped
<1> QED
  BY <1>1, <1>2, <1>3

\* What resolving a row changes.
LEMMA ResolvedReview ==
  ASSUME PackagesTyped, NEW r \in DOMAIN reviews, NEW v \in Verdicts,
         reviews' = [reviews EXCEPT ![r].status = v]
  PROVE  /\ reviews' \in Seq([item : Items, status : ApprovalRows])
         /\ DOMAIN reviews' = DOMAIN reviews
         /\ \A q \in DOMAIN reviews : reviews'[q].item = reviews[q].item
         /\ reviews'[r].status = v
         /\ \A q \in DOMAIN reviews : q # r => reviews'[q] = reviews[q]
<1> DEFINE R == [item : Items, status : ApprovalRows]
           new == [reviews[r] EXCEPT !.status = v]
<1>1. reviews \in Seq(R) /\ DOMAIN reviews = 1..Len(reviews)
  BY DEF PackagesTyped
<1>2. reviews[r] \in R /\ r \in 1..Len(reviews)
  BY TableFacts
<1>3. new \in R /\ new.item = reviews[r].item /\ new.status = v
  BY <1>2 DEF ApprovalRows
<1>4. reviews' = [reviews EXCEPT ![r] = new]
  OBVIOUS
<1> HIDE DEF R, new
<1> QED
  BY <1>1, <1>2, <1>3, <1>4, ExceptSeq DEF R

LEMMA ResolvedSend ==
  ASSUME PackagesTyped, NEW k \in DOMAIN exports, NEW v \in Verdicts,
         exports' = [exports EXCEPT ![k].status = v]
  PROVE  /\ exports' \in Seq([package : Nat, status : ApprovalRows])
         /\ DOMAIN exports' = DOMAIN exports
         /\ \A q \in DOMAIN exports : exports'[q].package = exports[q].package
         /\ exports'[k].status = v
         /\ \A q \in DOMAIN exports : q # k => exports'[q] = exports[q]
<1> DEFINE R == [package : Nat, status : ApprovalRows]
           new == [exports[k] EXCEPT !.status = v]
<1>1. exports \in Seq(R) /\ DOMAIN exports = 1..Len(exports)
  BY DEF PackagesTyped
<1>2. exports[k] \in R /\ k \in 1..Len(exports)
  BY TableFacts
<1>3. new \in R /\ new.package = exports[k].package /\ new.status = v
  BY <1>2 DEF ApprovalRows
<1>4. exports' = [exports EXCEPT ![k] = new]
  OBVIOUS
<1> HIDE DEF R, new
<1> QED
  BY <1>1, <1>2, <1>3, <1>4, ExceptSeq DEF R

LEMMA StartReviewBegins ==
  ASSUME PackagesTyped, NEW c \in Clerks, NEW r \in DOMAIN reviews, NEW v \in Verdicts, StartReview(c, r, v)
  PROVE  \E step \in ClerkWork :
           /\ Begin(c, step) /\ step = [at |-> "resolve", item |-> reviews[r].item, row |-> r, status |-> v]
<1>1. r \in Nat /\ reviews[r].item \in Items
  BY TableFacts
<1> QED
  BY <1>1 DEF StartReview, ClerkWork, ReviewSteps

LEMMA StartSendBegins ==
  ASSUME PackagesTyped, NEW c \in Clerks, NEW k \in DOMAIN exports, NEW v \in Verdicts, StartSend(c, k, v)
  PROVE  \E step \in ClerkWork :
           /\ Begin(c, step) /\ step = [at |-> "send", item |-> 0, row |-> k, status |-> v]
<1>1. k \in Nat
  BY DEF PackagesTyped
<1> QED
  BY <1>1 DEF StartSend, ClerkWork

LEMMA ReviewTypes ==
  ASSUME PackagesTyped, ClerksKnow, NEW c \in Clerks,
         \/ \E r \in DOMAIN reviews, v \in Verdicts : StartReview(c, r, v)
         \/ ResolveReview(c) \/ BuildPackage(c) \/ WritePackage(c) \/ MarkUserApproved(c)
  PROVE  PackagesTyped'
<1>1. ASSUME NEW r \in DOMAIN reviews, NEW v \in Verdicts, StartReview(c, r, v) PROVE PackagesTyped'
  BY <1>1, StartReviewBegins, BeginEffect DEF PackagesTyped, StartReview
<1>2. CASE ResolveReview(c)
  <2>1. clerk[c].row \in DOMAIN reviews /\ clerk[c].status \in Verdicts /\ clerk[c].row \in Nat
    BY <1>2, TableFacts DEF ResolveReview, ClerksKnow, Knows, ReviewSteps
  <2>2. clerk' \in [Clerks -> ClerkWork \cup {NoWork}] /\ overlappedDesk' = overlappedDesk
    BY <1>2, GoOnEffect, FinishEffect DEF ResolveReview, ReviewSteps
  <2>3. allowed' \subseteq ({"review", "send"} \X Nat)
    BY <1>2, <2>1 DEF ResolveReview, PackagesTyped
  <2>4. reviews' \in Seq([item : Items, status : ApprovalRows])
    BY <1>2, <2>1, ResolvedReview DEF ResolveReview
  <2> QED
    BY <1>2, <2>2, <2>3, <2>4 DEF PackagesTyped, ResolveReview
<1>3. CASE BuildPackage(c)
  BY <1>3, GoOnEffect, FinishEffect DEF PackagesTyped, BuildPackage, ReviewSteps
<1>4. CASE WritePackage(c)
  <2>1. clerk[c].row \in Nat
    BY <1>4 DEF WritePackage, ClerksKnow, Knows, ReviewSteps, PackagesTyped
  <2> QED
    BY <1>4, <2>1, GoOnEffect DEF PackagesTyped, WritePackage, ReviewSteps
<1>5. CASE MarkUserApproved(c)
  BY <1>5, FinishEffect DEF PackagesTyped, MarkUserApproved, DeskStatuses, TaskStatuses
<1> QED
  BY <1>1, <1>2, <1>3, <1>4, <1>5

LEMMA ExportTypes ==
  ASSUME PackagesTyped, ClerksKnow, NEW c \in Clerks,
         \/ \E k \in DOMAIN exports, v \in Verdicts : StartSend(c, k, v)
         \/ Propose(c) \/ StartExport(c) \/ RequestSend(c) \/ ResolveSend(c) \/ Abort(c)
  PROVE  PackagesTyped'
<1>1. ASSUME NEW k \in DOMAIN exports, NEW v \in Verdicts, StartSend(c, k, v) PROVE PackagesTyped'
  BY <1>1, StartSendBegins, BeginEffect DEF PackagesTyped, StartSend
<1>2. CASE Propose(c)
  BY <1>2 DEF Propose, PackagesTyped
<1>3. CASE StartExport(c)
  <2>1. [at |-> "export", item |-> 0, row |-> desk.package, status |-> "none"] \in ClerkWork
    BY DEF ClerkWork, PackagesTyped, DeskStatuses
  <2> QED
    BY <1>3, <2>1, BeginEffect DEF StartExport, PackagesTyped
<1>4. CASE RequestSend(c)
  <2>1. clerk[c].row \in Nat
    BY <1>4, NoWorkFacts DEF RequestSend, PackagesTyped, ClerkWork
  <2> QED
    BY <1>4, <2>1, RowTypes, FinishEffect DEF RequestSend, PackagesTyped
<1>5. CASE ResolveSend(c)
  <2>1. clerk[c].row \in DOMAIN exports /\ clerk[c].status \in Verdicts /\ clerk[c].row \in Nat
    BY <1>5, TableFacts DEF ResolveSend, ClerksKnow, Knows
  <2>2. allowed' \subseteq ({"review", "send"} \X Nat)
    BY <1>5, <2>1 DEF ResolveSend, PackagesTyped
  <2>3. exports' \in Seq([package : Nat, status : ApprovalRows])
    BY <1>5, <2>1, ResolvedSend DEF ResolveSend
  <2> QED
    BY <1>5, <2>2, <2>3, FinishEffect DEF PackagesTyped, ResolveSend
<1>6. CASE Abort(c)
  BY <1>6, FinishEffect DEF Abort, PackagesTyped
<1> QED
  BY <1>1, <1>2, <1>3, <1>4, <1>5, <1>6

LEMMA PackagesTypeNext ==
  ASSUME PackagesTyped, ClerksKnow, [PackageNext]_packageVars
  PROVE  PackagesTyped'
<1>1. CASE Advance
  BY <1>1 DEF Advance, PackagesTyped, DeskStatuses, TaskStatuses
<1>2. CASE UNCHANGED packageVars
  BY <1>2 DEF packageVars, PackagesTyped
<1> QED
  BY <1>1, <1>2, ImportTypes, ReviewTypes, ExportTypes DEF PackageNext, Verdicts
-----------------------------------------------------------------------------
\* What no command takes back.
TablesGrown ==
  /\ \A r \in DOMAIN reviews : r \in DOMAIN reviews' /\ reviews'[r].item = reviews[r].item
  /\ \A k \in DOMAIN exports : k \in DOMAIN exports'
  /\ allowed \subseteq allowed'
  /\ \A i \in Items : artifacts[i] \subseteq artifacts'[i]
  /\ desk.profile => desk'.profile

LEMMA Appended ==
  ASSUME PackagesTyped
  PROVE  /\ \A rec : LET new == Append(reviews, rec) IN
              /\ DOMAIN new = 1 .. Len(reviews) + 1 /\ new[Len(reviews) + 1] = rec
              /\ \A r \in DOMAIN reviews : new[r] = reviews[r]
         /\ \A rec : LET new == Append(exports, rec) IN
              /\ DOMAIN new = 1 .. Len(exports) + 1 /\ new[Len(exports) + 1] = rec
              /\ \A k \in DOMAIN exports : new[k] = exports[k]
  BY TableFacts DEF PackagesTyped

LEMMA Growth ==
  ASSUME PackagesTyped, ClerksKnow, [PackageNext]_packageVars
  PROVE  TablesGrown
<1>1. ASSUME NEW c \in Clerks, CreateReview(c) PROVE TablesGrown
  BY <1>1, Appended, TableFacts DEF CreateReview, TablesGrown
<1>2. ASSUME NEW c \in Clerks, RequestSend(c) PROVE TablesGrown
  BY <1>2, Appended, TableFacts DEF RequestSend, TablesGrown
<1>3. ASSUME NEW c \in Clerks, ResolveReview(c) PROVE TablesGrown
  <2>1. clerk[c].row \in DOMAIN reviews /\ clerk[c].status \in Verdicts
    BY <1>3 DEF ResolveReview, ClerksKnow, Knows, ReviewSteps
  <2> QED
    BY <1>3, <2>1, ResolvedReview DEF ResolveReview, TablesGrown
<1>4. ASSUME NEW c \in Clerks, ResolveSend(c) PROVE TablesGrown
  <2>1. clerk[c].row \in DOMAIN exports /\ clerk[c].status \in Verdicts
    BY <1>4 DEF ResolveSend, ClerksKnow, Knows
  <2> QED
    BY <1>4, <2>1, ResolvedSend DEF ResolveSend, TablesGrown
<1>5. ASSUME NEW c \in Clerks, CopyHandoff(c) \/ CopySnapshot(c) PROVE TablesGrown
  BY <1>5 DEF CopyHandoff, CopySnapshot, WriteArtifact, TablesGrown, PackagesTyped
<1>6. ASSUME NEW c \in Clerks,
             \/ \E i \in Items : StartImport(c, i)
             \/ FindExisting(c) \/ EnsurePackaged(c)
             \/ \E r \in DOMAIN reviews, v \in Verdicts : StartReview(c, r, v)
             \/ \E k \in DOMAIN exports, v \in Verdicts : StartSend(c, k, v)
             \/ BuildPackage(c) \/ Propose(c) \/ StartExport(c) \/ Abort(c)
      PROVE  TablesGrown
  BY <1>6 DEF StartImport, FindExisting, EnsurePackaged, StartReview, StartSend, BuildPackage, Propose,
              StartExport, Abort, TablesGrown
<1>8. ASSUME NEW c \in Clerks, UpsertTask(c) \/ WriteProfile(c) \/ WritePackage(c) \/ MarkUserApproved(c)
      PROVE  TablesGrown
  BY <1>8 DEF UpsertTask, WriteProfile, WritePackage, MarkUserApproved, TablesGrown, PackagesTyped
<1>9. CASE Advance
  BY <1>9 DEF Advance, TablesGrown, PackagesTyped
<1>10. CASE UNCHANGED packageVars
  BY <1>10 DEF packageVars, TablesGrown
<1> QED
  BY <1>1, <1>2, <1>3, <1>4, <1>5, <1>6, <1>8, <1>9, <1>10 DEF PackageNext, Verdicts

\* A clerk who does not move knows what it knew and has what it had.
LEMMA OthersKeep ==
  ASSUME PackagesTyped, ClerksKnow, ImportsProgress, TablesGrown, NEW d \in Clerks, clerk'[d] = clerk[d]
  PROVE  Knows(clerk[d])' /\ Copied(clerk[d])'
<1>1. clerk[d] = NoWork \/ clerk[d].item \in Items \/ clerk[d].at \in {"export", "send"}
  BY DEF PackagesTyped, ClerkWork
<1>2. Knows(clerk[d])'
  BY DEF ClerksKnow, Knows, TablesGrown
<1>3. Copied(clerk[d])'
  BY <1>1, NoWorkFacts DEF ImportsProgress, Copied, TablesGrown
<1> QED
  BY <1>2, <1>3

LEMMA IdleKnows ==
  ASSUME NEW c \in Clerks, clerk'[c] = NoWork
  PROVE  Knows(clerk[c])' /\ Copied(clerk[c])'
  BY DEF Knows, Copied, NoWork, ReviewSteps

\* When one clerk moves, it is enough to look at that one.
LEMMA OneClerkMoves ==
  ASSUME PackagesTyped, ClerksKnow, ImportsProgress, TablesGrown, NEW c \in Clerks,
         \A d \in Clerks : d # c => clerk'[d] = clerk[d],
         Knows(clerk[c])', Copied(clerk[c])'
  PROVE  ClerksKnow' /\ ImportsProgress'
<1>1. ASSUME NEW d \in Clerks PROVE Knows(clerk[d])' /\ Copied(clerk[d])'
  <2>1. CASE d # c
    BY <2>1, OthersKeep
  <2> QED
    BY <2>1 DEF Knows, Copied
<1> QED
  BY <1>1 DEF ClerksKnow, ImportsProgress

LEMMA ImportsKnow ==
  ASSUME PackagesTyped, ClerksKnow, ImportsProgress, TablesGrown, NEW c \in Clerks,
         \/ \E i \in Items : StartImport(c, i)
         \/ UpsertTask(c) \/ FindExisting(c) \/ CopyHandoff(c) \/ CopySnapshot(c)
         \/ WriteProfile(c) \/ CreateReview(c) \/ EnsurePackaged(c)
  PROVE  ClerksKnow' /\ ImportsProgress'
<1>1. ASSUME NEW i \in Items, StartImport(c, i) PROVE ClerksKnow' /\ ImportsProgress'
  <2> DEFINE step == [at |-> "upsert", item |-> i, row |-> 0, status |-> CandidateStatus(desk.status)]
  <2>1. CandidateStatus(desk.status) \in DeskStatuses
    BY DEF PackagesTyped, CandidateStatus, DeskStatuses
  <2>2. step \in ClerkWork
    BY <2>1 DEF ClerkWork
  <2>3. clerk'[c] = step /\ \A d \in Clerks : d # c => clerk'[d] = clerk[d]
    BY <1>1, <2>2, BeginEffect DEF StartImport
  <2>4. Knows(clerk[c])' /\ Copied(clerk[c])'
    BY <2>1, <2>3 DEF Knows, Copied, ReviewSteps
  <2> QED
    BY <2>3, <2>4, OneClerkMoves
<1>2. CASE EnsurePackaged(c)
  <2>1. Newest \in Items
    BY <1>2, PackageAssumption DEF EnsurePackaged, Newest, Max
  <2> QED
    BY <1>1, <1>2, <2>1 DEF EnsurePackaged
<1>3. CASE UpsertTask(c)
  <2>1. clerk'[c].at = "existing" /\ \A d \in Clerks : d # c => clerk'[d] = clerk[d]
    BY <1>3, GoOnEffect DEF UpsertTask
  <2>2. Knows(clerk[c])' /\ Copied(clerk[c])'
    BY <2>1 DEF Knows, Copied, ReviewSteps
  <2> QED
    BY <2>1, <2>2, OneClerkMoves
<1>4. CASE FindExisting(c)
  <2>1. clerk'[c] = NoWork \/ clerk'[c].at = "handoff"
    BY <1>4, GoOnEffect, FinishEffect DEF FindExisting, ImportSteps
  <2>2. \A d \in Clerks : d # c => clerk'[d] = clerk[d]
    BY <1>4, GoOnEffect, FinishEffect DEF FindExisting, ImportSteps
  <2>3. Knows(clerk[c])' /\ Copied(clerk[c])'
    BY <2>1, IdleKnows DEF Knows, Copied, ReviewSteps
  <2> QED
    BY <2>2, <2>3, OneClerkMoves
<1>5. CASE CopyHandoff(c)
  <2>1. /\ clerk'[c].at = "snapshot" /\ clerk'[c].item = clerk[c].item /\ clerk[c].item \in Items
        /\ \A d \in Clerks : d # c => clerk'[d] = clerk[d]
    BY <1>5, GoOnEffect DEF CopyHandoff, WriteArtifact, ImportSteps
  <2>2. "handoff" \in artifacts'[clerk[c].item]
    BY <1>5, <2>1 DEF CopyHandoff, WriteArtifact, PackagesTyped
  <2>3. Knows(clerk[c])' /\ Copied(clerk[c])'
    BY <2>1, <2>2 DEF Knows, Copied, ReviewSteps
  <2> QED
    BY <2>1, <2>3, OneClerkMoves
<1>6. CASE CopySnapshot(c)
  <2>1. /\ clerk'[c].at = "profile" /\ clerk'[c].item = clerk[c].item /\ clerk[c].item \in Items
        /\ \A d \in Clerks : d # c => clerk'[d] = clerk[d]
    BY <1>6, GoOnEffect DEF CopySnapshot, WriteArtifact, ImportSteps
  <2>2. "handoff" \in artifacts[clerk[c].item]
    BY <1>6 DEF CopySnapshot, WriteArtifact, ImportsProgress, Copied
  <2>3. {"handoff", "snapshot"} \subseteq artifacts'[clerk[c].item]
    BY <1>6, <2>1, <2>2 DEF CopySnapshot, WriteArtifact, PackagesTyped
  <2>4. Knows(clerk[c])' /\ Copied(clerk[c])'
    BY <2>1, <2>3 DEF Knows, Copied, ReviewSteps
  <2> QED
    BY <2>1, <2>4, OneClerkMoves
<1>7. CASE WriteProfile(c)
  <2>1. /\ clerk'[c].at = "review" /\ clerk'[c].item = clerk[c].item /\ clerk[c].item \in Items
        /\ \A d \in Clerks : d # c => clerk'[d] = clerk[d]
    BY <1>7, GoOnEffect DEF WriteProfile, ImportSteps
  <2>2. {"handoff", "snapshot"} \subseteq artifacts'[clerk[c].item] /\ desk'.profile
    BY <1>7 DEF WriteProfile, ImportsProgress, Copied, PackagesTyped
  <2>3. Knows(clerk[c])' /\ Copied(clerk[c])'
    BY <2>1, <2>2 DEF Knows, Copied, ReviewSteps
  <2> QED
    BY <2>1, <2>3, OneClerkMoves
<1>8. CASE CreateReview(c)
  BY <1>8, FinishEffect, IdleKnows, OneClerkMoves DEF CreateReview
<1> QED
  BY <1>1, <1>2, <1>3, <1>4, <1>5, <1>6, <1>7, <1>8

LEMMA ReviewsKnow ==
  ASSUME PackagesTyped, ClerksKnow, ImportsProgress, TablesGrown, NEW c \in Clerks,
         \/ \E r \in DOMAIN reviews, v \in Verdicts : StartReview(c, r, v)
         \/ ResolveReview(c) \/ BuildPackage(c) \/ WritePackage(c) \/ MarkUserApproved(c)
  PROVE  ClerksKnow' /\ ImportsProgress'
<1>1. ASSUME NEW r \in DOMAIN reviews, NEW v \in Verdicts, StartReview(c, r, v)
      PROVE  ClerksKnow' /\ ImportsProgress'
  <2>1. /\ clerk'[c] = [at |-> "resolve", item |-> reviews[r].item, row |-> r, status |-> v]
        /\ \A d \in Clerks : d # c => clerk'[d] = clerk[d]
    BY <1>1, StartReviewBegins, BeginEffect
  <2>2. Knows(clerk[c])' /\ Copied(clerk[c])'
    BY <1>1, <2>1 DEF Knows, Copied, ReviewSteps, TablesGrown
  <2> QED
    BY <2>1, <2>2, OneClerkMoves
<1>2. ASSUME NEW at \in {"build", "write", "status"}, GoOn(c, at), clerk[c].at \in ReviewSteps,
             <<"review", clerk[c].row>> \in allowed'
      PROVE  ClerksKnow' /\ ImportsProgress'
  <2>1. /\ clerk'[c].at = at /\ clerk'[c].item = clerk[c].item /\ clerk'[c].row = clerk[c].row
        /\ clerk'[c].status = clerk[c].status
        /\ \A d \in Clerks : d # c => clerk'[d] = clerk[d]
    BY <1>2, GoOnEffect DEF ReviewSteps
  <2>2. /\ clerk[c].row \in DOMAIN reviews /\ reviews[clerk[c].row].item = clerk[c].item
        /\ clerk[c].status \in Verdicts
    BY <1>2 DEF ClerksKnow, Knows
  <2>3. Knows(clerk[c])' /\ Copied(clerk[c])'
    BY <1>2, <2>1, <2>2 DEF Knows, Copied, ReviewSteps, TablesGrown
  <2> QED
    BY <2>1, <2>3, OneClerkMoves
<1>3. ASSUME Finish(c) PROVE ClerksKnow' /\ ImportsProgress'
  BY <1>3, FinishEffect, IdleKnows, OneClerkMoves
<1>4. CASE ResolveReview(c)
  BY <1>2, <1>3, <1>4 DEF ResolveReview, ReviewSteps
<1>5. CASE BuildPackage(c) \/ WritePackage(c) \/ MarkUserApproved(c)
  <2>1. <<"review", clerk[c].row>> \in allowed
    BY <1>5 DEF BuildPackage, WritePackage, MarkUserApproved, ClerksKnow, Knows
  <2> QED
    BY <1>2, <1>3, <1>5, <2>1 DEF BuildPackage, WritePackage, MarkUserApproved, ReviewSteps
<1> QED
  BY <1>1, <1>4, <1>5

LEMMA ExportsKnow ==
  ASSUME PackagesTyped, ClerksKnow, ImportsProgress, PackagesAreReviewed, TablesGrown, NEW c \in Clerks,
         \/ \E k \in DOMAIN exports, v \in Verdicts : StartSend(c, k, v)
         \/ Propose(c) \/ StartExport(c) \/ RequestSend(c) \/ ResolveSend(c) \/ Abort(c)
  PROVE  ClerksKnow' /\ ImportsProgress'
<1>1. ASSUME NEW k \in DOMAIN exports, NEW v \in Verdicts, StartSend(c, k, v)
      PROVE  ClerksKnow' /\ ImportsProgress'
  <2>1. /\ clerk'[c] = [at |-> "send", item |-> 0, row |-> k, status |-> v]
        /\ \A d \in Clerks : d # c => clerk'[d] = clerk[d]
    BY <1>1, StartSendBegins, BeginEffect
  <2>2. Knows(clerk[c])' /\ Copied(clerk[c])'
    BY <1>1, <2>1 DEF Knows, Copied, ReviewSteps, TablesGrown
  <2> QED
    BY <2>1, <2>2, OneClerkMoves
<1>2. CASE Propose(c)
  BY <1>2, OthersKeep DEF Propose, ClerksKnow, ImportsProgress
<1>3. CASE StartExport(c)
  <2> DEFINE step == [at |-> "export", item |-> 0, row |-> desk.package, status |-> "none"]
  <2>1. step \in ClerkWork
    BY DEF ClerkWork, PackagesTyped, DeskStatuses
  <2>2. clerk'[c] = step /\ \A d \in Clerks : d # c => clerk'[d] = clerk[d]
    BY <1>3, <2>1, BeginEffect DEF StartExport
  <2>3. desk.package # 0 /\ <<"review", desk.package>> \in allowed'
    BY <1>3 DEF StartExport, PackagesAreReviewed
  <2>4. Knows(clerk[c])' /\ Copied(clerk[c])'
    BY <2>2, <2>3 DEF Knows, Copied, ReviewSteps
  <2> QED
    BY <2>2, <2>4, OneClerkMoves
<1>4. CASE RequestSend(c) \/ ResolveSend(c) \/ Abort(c)
  BY <1>4, FinishEffect, IdleKnows, OneClerkMoves DEF RequestSend, ResolveSend, Abort
<1> QED
  BY <1>1, <1>2, <1>3, <1>4

LEMMA KnownNext ==
  ASSUME PackagesTyped, ClerksKnow, ImportsProgress, PackagesAreReviewed, [PackageNext]_packageVars
  PROVE  ClerksKnow' /\ ImportsProgress'
<1>1. CASE Advance \/ UNCHANGED packageVars
  <2>1. clerk' = clerk
    BY <1>1 DEF Advance, packageVars
  <2> QED
    BY <2>1, Growth, OthersKeep DEF ClerksKnow, ImportsProgress
<1> QED
  BY <1>1, Growth, ImportsKnow, ReviewsKnow, ExportsKnow DEF PackageNext, Verdicts
-----------------------------------------------------------------------------
\* What a clerk's step does to the desk as a whole.
Beginning(c) ==
  \/ \E i \in Items : StartImport(c, i)
  \/ EnsurePackaged(c) \/ StartExport(c)
  \/ \E r \in DOMAIN reviews, v \in Verdicts : StartReview(c, r, v)
  \/ \E k \in DOMAIN exports, v \in Verdicts : StartSend(c, k, v)
Continuing(c) ==
  \/ UpsertTask(c) \/ FindExisting(c) \/ CopyHandoff(c) \/ CopySnapshot(c) \/ WriteProfile(c) \/ CreateReview(c)
  \/ ResolveReview(c) \/ BuildPackage(c) \/ WritePackage(c) \/ MarkUserApproved(c)
  \/ RequestSend(c) \/ ResolveSend(c) \/ Abort(c)

LEMMA StepsOfClerks ==
  PackageNext <=> Advance \/ \E c \in Clerks : Beginning(c) \/ Continuing(c) \/ Propose(c)
  BY Zenon DEF PackageNext, Beginning, Continuing, Verdicts

\* The first step of an import, an export, a review or a send.
LEMMA BeginningEffect ==
  ASSUME PackagesTyped, NEW c \in Clerks, Beginning(c)
  PROVE  /\ clerk[c] = NoWork /\ \A d \in Clerks : d # c => clerk'[d] = clerk[d]
         /\ ~overlappedDesk' => ~overlappedDesk /\ \A d \in Clerks : clerk[d] = NoWork
         /\ UNCHANGED <<desk, artifacts, reviews, exports, proposals, allowed>>
         /\ \/ clerk'[c].at = "export"
            \/ clerk'[c].at = "upsert" /\ clerk'[c].status = CandidateStatus(desk.status)
            \/ /\ clerk'[c].at = "resolve" /\ clerk'[c].row \in DOMAIN reviews
               /\ reviews[clerk'[c].row].status = "pending"
            \/ /\ clerk'[c].at = "send" /\ clerk'[c].row \in DOMAIN exports
               /\ exports[clerk'[c].row].status = "pending"
<1> DEFINE Effect ==
      /\ clerk[c] = NoWork /\ \A d \in Clerks : d # c => clerk'[d] = clerk[d]
      /\ ~overlappedDesk' => ~overlappedDesk /\ \A d \in Clerks : clerk[d] = NoWork
<1>1. ASSUME NEW i \in Items, StartImport(c, i)
      PROVE  Effect /\ clerk'[c].at = "upsert" /\ clerk'[c].status = CandidateStatus(desk.status)
  <2> DEFINE step == [at |-> "upsert", item |-> i, row |-> 0, status |-> CandidateStatus(desk.status)]
  <2>1. CandidateStatus(desk.status) \in DeskStatuses
    BY DEF PackagesTyped, CandidateStatus, DeskStatuses
  <2>2. step \in ClerkWork
    BY <2>1 DEF ClerkWork
  <2> QED
    BY <1>1, <2>2, BeginEffect DEF StartImport
<1>2. CASE \E i \in Items : StartImport(c, i)
  BY <1>1, <1>2 DEF StartImport
<1>3. CASE EnsurePackaged(c)
  <2>1. Newest \in Items
    BY <1>3, PackageAssumption DEF EnsurePackaged, Newest, Max
  <2> QED
    BY <1>2, <1>3, <2>1 DEF EnsurePackaged
<1>4. CASE StartExport(c)
  <2>1. [at |-> "export", item |-> 0, row |-> desk.package, status |-> "none"] \in ClerkWork
    BY DEF ClerkWork, PackagesTyped, DeskStatuses
  <2> QED
    BY <1>4, <2>1, BeginEffect DEF StartExport
<1>5. ASSUME NEW r \in DOMAIN reviews, NEW v \in Verdicts, StartReview(c, r, v)
      PROVE  Effect /\ clerk'[c].at = "resolve" /\ clerk'[c].row = r /\ reviews[r].status = "pending"
  BY <1>5, StartReviewBegins, BeginEffect DEF StartReview
<1>6. ASSUME NEW k \in DOMAIN exports, NEW v \in Verdicts, StartSend(c, k, v)
      PROVE  Effect /\ clerk'[c].at = "send" /\ clerk'[c].row = k /\ exports[k].status = "pending"
  BY <1>6, StartSendBegins, BeginEffect DEF StartSend
<1>7. CASE \E r \in DOMAIN reviews, v \in Verdicts : StartReview(c, r, v)
  BY <1>5, <1>7 DEF StartReview
<1>8. CASE \E k \in DOMAIN exports, v \in Verdicts : StartSend(c, k, v)
  BY <1>6, <1>8 DEF StartSend
<1> QED
  BY <1>2, <1>3, <1>4, <1>7, <1>8 DEF Beginning

\* A later step.
LEMMA ContinuingEffect ==
  ASSUME PackagesTyped, NEW c \in Clerks, Continuing(c)
  PROVE  /\ clerk[c] # NoWork /\ overlappedDesk' = overlappedDesk
         /\ \A d \in Clerks : d # c => clerk'[d] = clerk[d]
<1>1. ASSUME NEW at \in {"existing"} \cup ImportSteps \cup ReviewSteps,
             GoOn(c, at), clerk[c].at \notin {"export", "send"}
      PROVE  /\ clerk[c] # NoWork /\ overlappedDesk' = overlappedDesk
             /\ \A d \in Clerks : d # c => clerk'[d] = clerk[d]
  BY <1>1, GoOnEffect
<1>2. ASSUME Finish(c), clerk[c].at # "idle" \/ clerk[c] # NoWork
      PROVE  /\ clerk[c] # NoWork /\ overlappedDesk' = overlappedDesk
             /\ \A d \in Clerks : d # c => clerk'[d] = clerk[d]
  BY <1>2, FinishEffect, NoWorkFacts
<1>3. CASE UpsertTask(c) \/ CopyHandoff(c) \/ CopySnapshot(c) \/ WriteProfile(c) \/ WritePackage(c)
  BY <1>1, <1>3 DEF UpsertTask, CopyHandoff, CopySnapshot, WriteArtifact, WriteProfile, WritePackage,
                    ImportSteps, ReviewSteps
<1>4. CASE FindExisting(c) \/ ResolveReview(c) \/ BuildPackage(c)
  BY <1>1, <1>2, <1>4 DEF FindExisting, ResolveReview, BuildPackage, ImportSteps, ReviewSteps
<1>5. CASE CreateReview(c) \/ MarkUserApproved(c) \/ RequestSend(c) \/ ResolveSend(c) \/ Abort(c)
  BY <1>2, <1>5 DEF CreateReview, MarkUserApproved, RequestSend, ResolveSend, Abort
<1> QED
  BY <1>3, <1>4, <1>5 DEF Continuing

LEMMA OneAtATimeNext ==
  ASSUME PackagesTyped, OneAtATime, [PackageNext]_packageVars
  PROVE  /\ OneAtATime' /\ (~overlappedDesk' => ~overlappedDesk)
         /\ \A c \in Clerks : Beginning(c) \/ Continuing(c) =>
              (~overlappedDesk' => \A d \in Clerks : d # c => clerk'[d] = NoWork)
<1>1. ASSUME NEW c \in Clerks, Beginning(c)
      PROVE  /\ OneAtATime' /\ (~overlappedDesk' => ~overlappedDesk)
             /\ ~overlappedDesk' => \A d \in Clerks : d # c => clerk'[d] = NoWork
  BY <1>1, BeginningEffect DEF OneAtATime
<1>2. ASSUME NEW c \in Clerks, Continuing(c)
      PROVE  /\ OneAtATime' /\ (~overlappedDesk' => ~overlappedDesk)
             /\ ~overlappedDesk' => \A d \in Clerks : d # c => clerk'[d] = NoWork
  BY <1>2, ContinuingEffect DEF OneAtATime
<1>3. ASSUME NEW c \in Clerks, Propose(c) PROVE OneAtATime' /\ (~overlappedDesk' => ~overlappedDesk)
  BY <1>3 DEF Propose, OneAtATime
<1>4. CASE Advance
  BY <1>4 DEF Advance, OneAtATime
<1>5. ASSUME UNCHANGED packageVars PROVE OneAtATime' /\ (~overlappedDesk' => ~overlappedDesk)
  BY <1>5 DEF packageVars, OneAtATime
<1> QED
  BY <1>1, <1>2, <1>3, <1>4, <1>5, StepsOfClerks
-----------------------------------------------------------------------------
\* Only two commands touch the reviews, and nothing else allows one.
KeepsReviews ==
  reviews' = reviews /\ \A r \in Nat : <<"review", r>> \in allowed' <=> <<"review", r>> \in allowed

LEMMA WhoReviews ==
  ASSUME [PackageNext]_packageVars
  PROVE  KeepsReviews \/ \E c \in Clerks : CreateReview(c) \/ ResolveReview(c)
<1>1. ASSUME NEW c \in Clerks, Beginning(c) PROVE KeepsReviews
  BY <1>1 DEF Beginning, StartImport, EnsurePackaged, StartExport, StartReview, StartSend, KeepsReviews
<1>2. ASSUME NEW c \in Clerks, Continuing(c), ~CreateReview(c), ~ResolveReview(c) PROVE KeepsReviews
  <2>1. CASE ResolveSend(c)
    BY <2>1 DEF ResolveSend, KeepsReviews
  <2> QED
    BY <1>2, <2>1 DEF Continuing, UpsertTask, FindExisting, CopyHandoff, CopySnapshot, WriteArtifact, WriteProfile,
                 BuildPackage, WritePackage, MarkUserApproved, RequestSend, Abort, KeepsReviews
<1>3. ASSUME NEW c \in Clerks, Propose(c) PROVE KeepsReviews
  BY <1>3 DEF Propose, KeepsReviews
<1>4. ASSUME Advance \/ UNCHANGED packageVars PROVE KeepsReviews
  BY <1>4 DEF Advance, packageVars, KeepsReviews
<1> QED
  BY <1>1, <1>2, <1>3, <1>4, StepsOfClerks

LEMMA AllowedNext ==
  ASSUME PackagesTyped, ClerksKnow, AllowedExists, OneAtATime, NothingIsStale, [PackageNext]_packageVars
  PROVE  AllowedExists'
<1>1. ~overlappedDesk' => ~overlappedDesk
  BY OneAtATimeNext
<1>2. CASE KeepsReviews
  BY <1>1, <1>2 DEF KeepsReviews, AllowedExists
<1>3. ASSUME NEW c \in Clerks, CreateReview(c) PROVE AllowedExists'
  BY <1>1, <1>3, Appended, TableFacts DEF CreateReview, AllowedExists
<1>4. ASSUME NEW c \in Clerks, ResolveReview(c) PROVE AllowedExists'
  <2> DEFINE row == clerk[c].row
             verdict == clerk[c].status
  <2>1. row \in DOMAIN reviews /\ verdict \in Verdicts /\ row \in Nat
    BY <1>4, TableFacts DEF ResolveReview, ClerksKnow, Knows, ReviewSteps
  <2>2. /\ DOMAIN reviews' = DOMAIN reviews /\ reviews'[row].status = verdict
        /\ \A q \in DOMAIN reviews : q # row => reviews'[q] = reviews[q]
    BY <1>4, <2>1, ResolvedReview DEF ResolveReview
  <2>3. ~overlappedDesk => reviews[row].status = "pending"
    BY <1>4 DEF ResolveReview, NothingIsStale, StillSo
  <2>4. CASE verdict = "approved"
    <3>1. allowed' = allowed \cup {<<"review", row>>}
      BY <1>4, <2>4 DEF ResolveReview
    <3> QED
      BY <1>1, <2>1, <2>2, <2>4, <3>1 DEF AllowedExists
  <2>5. CASE verdict # "approved"
    <3>1. allowed' = allowed
      BY <1>4, <2>5 DEF ResolveReview
    <3> QED
      BY <1>1, <2>1, <2>2, <2>3, <3>1 DEF AllowedExists
  <2> QED
    BY <2>4, <2>5
<1> QED
  BY <1>2, <1>3, <1>4, WhoReviews

LEMMA OneReviewNext ==
  ASSUME PackagesTyped, ClerksKnow, OneAtATime, NothingIsStale, OneReviewPerItem, [PackageNext]_packageVars
  PROVE  OneReviewPerItem'
<1>1. ~overlappedDesk' => ~overlappedDesk
  BY OneAtATimeNext
<1>2. CASE KeepsReviews
  BY <1>1, <1>2 DEF KeepsReviews, OneReviewPerItem
<1>3. ASSUME NEW c \in Clerks, CreateReview(c) PROVE OneReviewPerItem'
  <2>1. ~overlappedDesk => \A r \in DOMAIN reviews : reviews[r].item # clerk[c].item
    BY <1>3 DEF CreateReview, NothingIsStale, StillSo, ImportSteps
  <2> DEFINE rec == [item |-> clerk[c].item, status |-> "pending"]
  <2>2. /\ DOMAIN reviews' = 1 .. Len(reviews) + 1 /\ reviews'[Len(reviews) + 1] = rec
        /\ \A r \in DOMAIN reviews : reviews'[r] = reviews[r]
    BY <1>3, Appended DEF CreateReview
  <2>3. rec.item = clerk[c].item
    OBVIOUS
  <2> HIDE DEF rec
  <2> QED
    BY <1>1, <2>1, <2>2, <2>3, TableFacts DEF OneReviewPerItem
<1>4. ASSUME NEW c \in Clerks, ResolveReview(c) PROVE OneReviewPerItem'
  <2>1. clerk[c].row \in DOMAIN reviews /\ clerk[c].status \in Verdicts
    BY <1>4 DEF ResolveReview, ClerksKnow, Knows, ReviewSteps
  <2>2. DOMAIN reviews' = DOMAIN reviews /\ \A q \in DOMAIN reviews : reviews'[q].item = reviews[q].item
    BY <1>4, <2>1, ResolvedReview DEF ResolveReview
  <2> QED
    BY <1>1, <2>2 DEF OneReviewPerItem
<1> QED
  BY <1>2, <1>3, <1>4, WhoReviews

LEMMA CompleteNext ==
  ASSUME PackagesTyped, ClerksKnow, ImportsProgress, ReviewsAreComplete, [PackageNext]_packageVars
  PROVE  ReviewsAreComplete'
<1>1. TablesGrown
  BY Growth
<1>2. \A r \in DOMAIN reviews :
        {"handoff", "snapshot"} \subseteq artifacts'[reviews'[r].item] /\ desk'.profile
  BY <1>1, TableFacts DEF ReviewsAreComplete, TablesGrown
<1>3. CASE DOMAIN reviews' = DOMAIN reviews
  BY <1>2, <1>3 DEF ReviewsAreComplete
<1>4. ASSUME NEW c \in Clerks, CreateReview(c) PROVE ReviewsAreComplete'
  <2>1. {"handoff", "snapshot"} \subseteq artifacts'[clerk[c].item] /\ desk'.profile
    BY <1>4 DEF CreateReview, ImportsProgress, Copied
  <2> DEFINE rec == [item |-> clerk[c].item, status |-> "pending"]
  <2>2. DOMAIN reviews' = 1 .. Len(reviews) + 1 /\ reviews'[Len(reviews) + 1] = rec
    BY <1>4, Appended DEF CreateReview
  <2>3. rec.item = clerk[c].item
    OBVIOUS
  <2> HIDE DEF rec
  <2> QED
    BY <1>2, <2>1, <2>2, <2>3, TableFacts DEF ReviewsAreComplete
<1>5. ASSUME NEW c \in Clerks, ResolveReview(c) PROVE DOMAIN reviews' = DOMAIN reviews
  <2>1. clerk[c].row \in DOMAIN reviews /\ clerk[c].status \in Verdicts
    BY <1>5 DEF ResolveReview, ClerksKnow, Knows, ReviewSteps
  <2> QED
    BY <1>5, <2>1, ResolvedReview DEF ResolveReview
<1> QED
  BY <1>3, <1>4, <1>5, WhoReviews DEF KeepsReviews
-----------------------------------------------------------------------------
\* What the clerk who moves knows is what it has just read, or what nobody else
\* could change since.
LEMMA StaleNext ==
  ASSUME PackagesInv, [PackageNext]_packageVars
  PROVE  NothingIsStale'
<1> USE DEF PackagesInv
<1>1. /\ ~overlappedDesk' => ~overlappedDesk
      /\ \A c \in Clerks : Beginning(c) \/ Continuing(c) =>
           (~overlappedDesk' => \A d \in Clerks : d # c => clerk'[d] = NoWork)
  BY OneAtATimeNext
<1>2. ASSUME NEW d \in Clerks, clerk'[d] = NoWork PROVE StillSo(clerk[d])'
  BY <1>2 DEF StillSo, NoWork, ImportSteps
<1>3. ASSUME NEW c \in Clerks, Beginning(c) \/ Continuing(c), ~overlappedDesk' => StillSo(clerk[c])'
      PROVE  NothingIsStale'
  <2>1. ASSUME ~overlappedDesk', NEW d \in Clerks PROVE StillSo(clerk[d])'
    <3>1. CASE d # c
      BY <1>1, <1>2, <1>3, <2>1, <3>1
    <3>2. CASE d = c
      BY <1>3, <2>1, <3>2 DEF StillSo
    <3> QED
      BY <3>1, <3>2
  <2> QED
    BY <2>1 DEF NothingIsStale
<1>4. ASSUME NEW c \in Clerks, Beginning(c) PROVE NothingIsStale'
  <2>1. StillSo(clerk[c])'
    BY <1>4, BeginningEffect DEF StillSo, ImportSteps
  <2> QED
    BY <1>3, <1>4, <2>1
<1>5. ASSUME NEW c \in Clerks, Continuing(c) PROVE NothingIsStale'
  <2>1. ASSUME clerk'[c] = NoWork PROVE StillSo(clerk[c])'
    BY <1>2, <2>1
  <2>2. ASSUME clerk'[c].at \in {"existing", "build", "write", "status"} PROVE StillSo(clerk[c])'
    BY <2>2 DEF StillSo, ImportSteps
  <2>3. CASE UpsertTask(c)
    <3>1. clerk'[c].at = "existing"
      BY <2>3, GoOnEffect DEF UpsertTask
    <3> QED
      BY <1>3, <1>5, <2>2, <3>1
  <2>4. CASE FindExisting(c)
    <3>1. CASE "handoff" \in artifacts[clerk[c].item]
      BY <1>3, <1>5, <2>1, <2>4, <3>1, FinishEffect DEF FindExisting
    <3>2. CASE "handoff" \notin artifacts[clerk[c].item]
      <4>1. clerk'[c].at = "handoff" /\ clerk'[c].item = clerk[c].item
        BY <2>4, <3>2, GoOnEffect DEF FindExisting, ImportSteps
      <4>2. \A r \in DOMAIN reviews : reviews[r].item # clerk[c].item
        BY <3>2 DEF ReviewsAreComplete
      <4>3. StillSo(clerk[c])'
        BY <2>4, <4>1, <4>2 DEF FindExisting, StillSo
      <4> QED
        BY <1>3, <1>5, <4>3
    <3> QED
      BY <3>1, <3>2
  <2>5. CASE CopyHandoff(c) \/ CopySnapshot(c) \/ WriteProfile(c)
    <3>1. /\ clerk[c].at \in ImportSteps /\ clerk'[c].at \in ImportSteps
          /\ clerk'[c].item = clerk[c].item /\ reviews' = reviews
      BY <2>5, GoOnEffect DEF CopyHandoff, CopySnapshot, WriteArtifact, WriteProfile, ImportSteps
    <3>2. ~overlappedDesk' => \A r \in DOMAIN reviews : reviews[r].item # clerk[c].item
      BY <1>1, <3>1 DEF NothingIsStale, StillSo
    <3>3. ~overlappedDesk' => StillSo(clerk[c])'
      BY <3>1, <3>2 DEF StillSo, ImportSteps
    <3> QED
      BY <1>3, <1>5, <3>3
  <2>6. CASE ResolveReview(c) \/ BuildPackage(c) \/ WritePackage(c)
    <3>1. clerk'[c] = NoWork \/ clerk'[c].at \in {"build", "write", "status"}
      BY <2>6, GoOnEffect, FinishEffect DEF ResolveReview, BuildPackage, WritePackage, ReviewSteps
    <3> QED
      BY <1>3, <1>5, <2>1, <2>2, <3>1
  <2>7. CASE CreateReview(c) \/ MarkUserApproved(c) \/ RequestSend(c) \/ ResolveSend(c) \/ Abort(c)
    <3>1. clerk'[c] = NoWork
      BY <2>7, FinishEffect DEF CreateReview, MarkUserApproved, RequestSend, ResolveSend, Abort
    <3> QED
      BY <1>3, <1>5, <2>1, <3>1
  <2> QED
    BY <1>5, <2>3, <2>4, <2>5, <2>6, <2>7 DEF Continuing
<1>6. ASSUME NEW c \in Clerks, Propose(c) PROVE NothingIsStale'
  BY <1>6 DEF Propose, NothingIsStale, StillSo
<1>7. ASSUME Advance PROVE NothingIsStale'
  <2>1. ~overlappedDesk' => \A c \in Clerks : clerk'[c] = NoWork
    BY <1>7 DEF Advance
  <2> QED
    BY <1>2, <2>1 DEF NothingIsStale
<1>8. ASSUME UNCHANGED packageVars PROVE NothingIsStale'
  BY <1>8 DEF packageVars, NothingIsStale, StillSo
<1> QED
  BY <1>4, <1>5, <1>6, <1>7, <1>8, StepsOfClerks

LEMMA ReviewedNext ==
  ASSUME PackagesTyped, ClerksKnow, PackagesAreReviewed, [PackageNext]_packageVars
  PROVE  PackagesAreReviewed'
<1>1. allowed \subseteq allowed'
  BY Growth DEF TablesGrown
<1>2. ASSUME desk'.package = desk.package, proposals' = proposals, exports' = exports
      PROVE  PackagesAreReviewed'
  BY <1>1, <1>2 DEF PackagesAreReviewed
<1>3. ASSUME NEW c \in Clerks, Beginning(c) PROVE PackagesAreReviewed'
  BY <1>2, <1>3, BeginningEffect
<1>4. ASSUME NEW c \in Clerks, WritePackage(c) PROVE PackagesAreReviewed'
  <2>1. <<"review", clerk[c].row>> \in allowed
    BY <1>4 DEF WritePackage, ClerksKnow, Knows
  <2>2. desk'.package = clerk[c].row /\ proposals' = proposals /\ exports' = exports /\ allowed' = allowed
    BY <1>4 DEF WritePackage, PackagesTyped
  <2> QED
    BY <2>1, <2>2 DEF PackagesAreReviewed
<1>5. ASSUME NEW c \in Clerks, RequestSend(c) PROVE PackagesAreReviewed'
  <2>1. <<"review", clerk[c].row>> \in allowed
    BY <1>5 DEF RequestSend, ClerksKnow, Knows
  <2> DEFINE rec == [package |-> clerk[c].row, status |-> "pending"]
  <2>2. /\ DOMAIN exports' = 1 .. Len(exports) + 1 /\ exports'[Len(exports) + 1] = rec
        /\ \A k \in DOMAIN exports : exports'[k] = exports[k]
    BY <1>5, Appended DEF RequestSend
  <2>3. rec.package = clerk[c].row /\ rec.status = "pending"
    OBVIOUS
  <2>4. desk' = desk /\ proposals' = proposals /\ allowed' = allowed
    BY <1>5 DEF RequestSend
  <2> HIDE DEF rec
  <2> QED
    BY <2>1, <2>2, <2>3, <2>4, TableFacts DEF PackagesAreReviewed
<1>6. ASSUME NEW c \in Clerks, ResolveSend(c) PROVE PackagesAreReviewed'
  <2> DEFINE row == clerk[c].row
             verdict == clerk[c].status
  <2>1. row \in DOMAIN exports /\ verdict \in Verdicts
    BY <1>6 DEF ResolveSend, ClerksKnow, Knows
  <2>2. /\ DOMAIN exports' = DOMAIN exports /\ exports'[row].status = verdict
        /\ \A q \in DOMAIN exports : exports'[q].package = exports[q].package
        /\ \A q \in DOMAIN exports : q # row => exports'[q] = exports[q]
    BY <1>6, <2>1, ResolvedSend DEF ResolveSend
  <2>3. desk' = desk /\ proposals' = proposals /\ (verdict = "approved" => <<"send", row>> \in allowed')
    BY <1>6 DEF ResolveSend
  <2> QED
    BY <1>1, <2>1, <2>2, <2>3 DEF PackagesAreReviewed
<1>7. ASSUME NEW c \in Clerks, Propose(c) PROVE PackagesAreReviewed'
  BY <1>7 DEF Propose, PackagesAreReviewed
<1>8. ASSUME NEW c \in Clerks, Continuing(c), ~WritePackage(c), ~RequestSend(c), ~ResolveSend(c)
      PROVE  PackagesAreReviewed'
  <2>1. desk'.package = desk.package /\ proposals' = proposals /\ exports' = exports
    BY <1>8 DEF Continuing, UpsertTask, FindExisting, CopyHandoff, CopySnapshot, WriteArtifact, WriteProfile,
                CreateReview, ResolveReview, BuildPackage, MarkUserApproved, Abort, PackagesTyped
  <2> QED
    BY <1>2, <2>1
<1>9. ASSUME Advance PROVE PackagesAreReviewed'
  BY <1>2, <1>9 DEF Advance, PackagesTyped
<1>10. ASSUME UNCHANGED packageVars PROVE PackagesAreReviewed'
  BY <1>2, <1>10 DEF packageVars
<1> QED
  BY <1>3, <1>4, <1>5, <1>6, <1>7, <1>8, <1>9, <1>10, StepsOfClerks
-----------------------------------------------------------------------------
THEOREM PackagesInvInit == PackageInit => PackagesInv
<1> SUFFICES ASSUME PackageInit PROVE PackagesInv
  OBVIOUS
<1>1. PackagesTyped
  <2>1. NoDesk \in [status : DeskStatuses, package : Nat, profile : BOOLEAN]
    BY DEF NoDesk, DeskStatuses
  <2>2. /\ artifacts \in [Items -> SUBSET {"handoff", "snapshot"}]
        /\ clerk \in [Clerks -> ClerkWork \cup {NoWork}]
    BY DEF PackageInit
  <2>3. reviews = <<>> /\ exports = <<>> /\ proposals = {} /\ allowed = {} /\ overlappedDesk = FALSE /\ desk = NoDesk
    BY DEF PackageInit
  <2>4. /\ <<>> \in Seq([item : Items, status : ApprovalRows])
        /\ <<>> \in Seq([package : Nat, status : ApprovalRows])
    OBVIOUS
  <2>5. {} \subseteq Nat /\ {} \subseteq ({"review", "send"} \X Nat) /\ FALSE \in BOOLEAN
    OBVIOUS
  <2> QED
    BY <2>1, <2>2, <2>3, <2>4, <2>5, Zenon DEF PackagesTyped
<1>2. \A c \in Clerks : clerk[c] = NoWork
  BY DEF PackageInit
<1>3. ClerksKnow /\ ImportsProgress /\ OneAtATime /\ NothingIsStale
  BY <1>2 DEF ClerksKnow, Knows, ImportsProgress, Copied, OneAtATime, NothingIsStale, StillSo,
              NoWork, ReviewSteps, ImportSteps
<1>4. AllowedExists /\ PackagesAreReviewed /\ ReviewsAreComplete /\ OneReviewPerItem
  BY DEF PackageInit, AllowedExists, PackagesAreReviewed, ReviewsAreComplete, OneReviewPerItem, NoDesk
<1> QED
  BY <1>1, <1>3, <1>4 DEF PackagesInv

THEOREM PackagesInvNext == PackagesInv /\ [PackageNext]_packageVars => PackagesInv'
<1> SUFFICES ASSUME PackagesInv, [PackageNext]_packageVars PROVE PackagesInv'
  OBVIOUS
<1>1. NothingIsStale'
  BY StaleNext
<1> QED
  BY <1>1, PackagesTypeNext, KnownNext, AllowedNext, OneAtATimeNext, ReviewedNext, CompleteNext, OneReviewNext
  DEF PackagesInv

THEOREM PackagesInvariant == PackageSpec => []PackagesInv
  BY PackagesInvInit, PackagesInvNext, PTL DEF PackageSpec

\* The user's review stands between an import and a package, in every order of
\* commands, failures and deaths: ReviewsGatePackages, for any clerks and items.
THEOREM PackagesAreGated == PackageSpec => []ReviewsGatePackages
<1>1. PackagesInv => RejectedStaysOut
  BY TableFacts DEF PackagesInv, AllowedExists, PackagesAreReviewed, RejectedStaysOut
<1>2. PackagesInv => ReviewsGatePackages
  BY <1>1 DEF PackagesInv, ReviewsGatePackages
<1> QED
  BY <1>2, PackagesInvariant, PTL

\* A send that was approved or refused stays so: until two commands overlap, the
\* row a clerk resolves is still the pending one it read.
THEOREM SendsStayDecided == PackageSpec => SendsAreFinal
<1> DEFINE Final == ~overlappedDesk' => \A k \in DOMAIN exports :
                      exports[k].status # "pending" => exports'[k].status = exports[k].status
<1>1. ASSUME PackagesInv, [PackageNext]_packageVars PROVE Final
  <2> USE <1>1 DEF PackagesInv
  <2>1. CASE exports' = exports
    BY <2>1
  <2>2. ASSUME NEW c \in Clerks, RequestSend(c) PROVE Final
    BY <2>2, Appended DEF RequestSend
  <2>3. ASSUME NEW c \in Clerks, ResolveSend(c) PROVE Final
    <3>1. clerk[c].row \in DOMAIN exports /\ clerk[c].status \in Verdicts
      BY <2>3 DEF ResolveSend, ClerksKnow, Knows
    <3>2. \A q \in DOMAIN exports : q # clerk[c].row => exports'[q] = exports[q]
      BY <2>3, <3>1, ResolvedSend DEF ResolveSend
    <3>3. ~overlappedDesk' => exports[clerk[c].row].status = "pending"
      BY <2>3, OneAtATimeNext DEF ResolveSend, NothingIsStale, StillSo
    <3> QED
      BY <3>2, <3>3
  <2>4. ASSUME NEW c \in Clerks, Continuing(c), ~RequestSend(c), ~ResolveSend(c) PROVE exports' = exports
    BY <2>4 DEF Continuing, UpsertTask, FindExisting, CopyHandoff, CopySnapshot, WriteArtifact, WriteProfile,
                CreateReview, ResolveReview, BuildPackage, WritePackage, MarkUserApproved, Abort
  <2>5. ASSUME NEW c \in Clerks, Beginning(c) \/ Propose(c) PROVE exports' = exports
    BY <2>5, BeginningEffect DEF Propose
  <2>6. ASSUME Advance \/ UNCHANGED packageVars PROVE exports' = exports
    BY <2>6 DEF Advance, packageVars
  <2> QED
    BY <2>1, <2>2, <2>3, <2>4, <2>5, <2>6, StepsOfClerks
<1> QED
  BY <1>1, PackagesInvariant, PTL DEF PackageSpec, SendsAreFinal

\* A task past the review is never a candidate again: until two commands overlap,
\* the status an import writes back is the one it found.
THEOREM ImportsKeepTheStatus == PackageSpec => ImportsDoNotReopen
<1> DEFINE Kept == ~overlappedDesk' /\ desk.status \in Settled => desk'.status \in Settled
<1>1. ASSUME PackagesInv, [PackageNext]_packageVars PROVE Kept
  <2> USE <1>1 DEF PackagesInv
  <2>1. CASE desk'.status = desk.status
    BY <2>1
  <2>2. ASSUME NEW c \in Clerks, UpsertTask(c) PROVE Kept
    <3>1. desk'.status = clerk[c].status
      BY <2>2 DEF UpsertTask, PackagesTyped
    <3>2. ~overlappedDesk' => clerk[c].status = CandidateStatus(desk.status)
      BY <2>2, OneAtATimeNext DEF UpsertTask, NothingIsStale, StillSo
    <3> QED
      BY <3>1, <3>2 DEF CandidateStatus
  <2>3. ASSUME (\E c \in Clerks : MarkUserApproved(c)) \/ Advance PROVE Kept
    BY <2>3 DEF MarkUserApproved, Advance, PackagesTyped, Settled, TaskStatuses
  <2>4. ASSUME NEW c \in Clerks, Continuing(c), ~UpsertTask(c), ~MarkUserApproved(c)
        PROVE  desk'.status = desk.status
    BY <2>4 DEF Continuing, FindExisting, CopyHandoff, CopySnapshot, WriteArtifact, WriteProfile,
                CreateReview, ResolveReview, BuildPackage, WritePackage, RequestSend, ResolveSend, Abort, PackagesTyped
  <2>5. ASSUME NEW c \in Clerks, Beginning(c) \/ Propose(c) PROVE desk' = desk
    BY <2>5, BeginningEffect DEF Propose
  <2>6. ASSUME UNCHANGED packageVars PROVE desk' = desk
    BY <2>6 DEF packageVars
  <2> QED
    BY <2>1, <2>2, <2>3, <2>4, <2>5, <2>6, StepsOfClerks
<1> QED
  BY <1>1, PackagesInvariant, PTL DEF PackageSpec, ImportsDoNotReopen
-----------------------------------------------------------------------------
(* Comments.                                                                  *)

\* A process that works on an interaction works on one that exists, and one
\* that resolves an approval has a decision.
JobNamesItem ==
  \A p \in Operators :
    /\ pc[p] \notin {"idle", "insert"} => job[p].id \in Interactions
    /\ pc[p] \in {"resolve", "mark"} => job[p].decision \in {"approved", "rejected"}

\* Where only an approved interaction can lead.
Working == {"retry", "reread", "post", "succeeded", "failed"}
Cleared == {"approved", "failed", "retried", "posted"}

WorkIsGranted ==
  \A p \in Operators :
    pc[p] \in Working \/ (pc[p] = "mark" /\ job[p].decision = "approved") => job[p].id \in granted

StatusIsGranted == \A i \in Interactions : item[i].status \in Cleared => i \in granted

SuccessIsOnGithub == \A p \in Operators : pc[p] = "succeeded" => github[job[p].id] > 0

EarnedBy(type, f) ==
  type = "final_comment" /\ ~f.body =>
    f.validation # "failed" /\ f.outcome \in {"success", "partial"}

BasesAreEarned ==
  /\ \A i \in Interactions : EarnedBy(item[i].type, item[i].basis)
  /\ \A p \in Operators : pc[p] = "insert" => EarnedBy(job[p].type, job[p].basis)

IInv ==
  /\ TypeOK /\ JobNamesItem
  /\ WorkIsGranted /\ StatusIsGranted /\ PostNeedsGrant
  /\ SuccessIsOnGithub /\ PostedIsOnGithub
  /\ BasesAreEarned
-----------------------------------------------------------------------------
LEMMA NoInputType == NoInput \in AllInputs
  BY DEF NoInput, AllInputs

LEMMA NoJobType == NoJob \in JobRecords /\ NoJob.id = 0
  BY NoInputType DEF NoJob, JobRecords

LEMMA GotoType ==
  ASSUME TypeOK, NEW p \in Operators, NEW label \in Steps, Goto(p, label)
  PROVE  /\ pc' \in [Operators -> Steps] /\ job' \in [Operators -> JobRecords]
         /\ pc' = [pc EXCEPT ![p] = label]
         /\ \A q \in Operators : q # p => pc'[q] = pc[q] /\ job'[q] = job[q]
         /\ pc'[p] = label
         /\ label # "idle" => job' = job
         /\ overlapped' \in BOOLEAN
  BY NoJobType DEF TypeOK, Goto

LEMMA StartType ==
  ASSUME TypeOK, NEW p \in Operators, NEW label \in Steps, NEW j \in JobRecords, Start(p, label, j)
  PROVE  /\ pc' \in [Operators -> Steps] /\ job' \in [Operators -> JobRecords]
         /\ \A q \in Operators : q # p => pc'[q] = pc[q] /\ job'[q] = job[q]
         /\ pc'[p] = label /\ job'[p] = j
         /\ overlapped' \in BOOLEAN
<1>1. overlapped' \in BOOLEAN
  BY DEF Start
<1> QED
  BY <1>1 DEF TypeOK, Start

LEMMA StatusType ==
  ASSUME TypeOK, NEW i \in Interactions, NEW status \in Statuses, SetStatus(i, status)
  PROVE  /\ item' \in [Interactions -> ItemRecords]
         /\ \A k \in Interactions : item'[k].type = item[k].type /\ item'[k].basis = item[k].basis
         /\ \A k \in Interactions : k # i => item'[k] = item[k]
         /\ item'[i].status = status
<1>1. item[i] \in ItemRecords
  BY DEF TypeOK
<1>2. [item[i] EXCEPT !.status = status] \in ItemRecords
  BY <1>1 DEF ItemRecords
<1>3. item' = [item EXCEPT ![i] = [item[i] EXCEPT !.status = status]]
  BY DEF SetStatus, TypeOK
<1>4. item'[i] = [item[i] EXCEPT !.status = status]
  BY <1>3 DEF TypeOK
<1>5. /\ [item[i] EXCEPT !.status = status].status = status
      /\ [item[i] EXCEPT !.status = status].type = item[i].type
      /\ [item[i] EXCEPT !.status = status].basis = item[i].basis
  BY <1>1 DEF ItemRecords
<1> QED
  BY <1>2, <1>3, <1>4, <1>5 DEF TypeOK

LEMMA TargetTypeType ==
  ASSUME NEW f \in AllInputs PROVE TargetType(f) \in CommentTypes
  BY DEF TargetType, CommentTypes

LEMMA SpokenIsEarned ==
  ASSUME NEW f \in AllInputs, Speaks(f) PROVE EarnedBy(TargetType(f), f)
  BY DEF Speaks, TargetType, EarnedBy, AllInputs
-----------------------------------------------------------------------------
LEMMA InitIInv == Init => IInv
<1> SUFFICES ASSUME Init PROVE IInv
  OBVIOUS
<1> USE DEF Init
<1>1. Absent \in ItemRecords /\ Absent.status = "absent" /\ Absent.type = "none"
  BY NoInputType DEF Absent, ItemRecords, Statuses
<1>2. TypeOK
  BY <1>1, NoJobType DEF TypeOK, Steps
<1>3. \A p \in Operators : pc[p] = "idle"
  OBVIOUS
<1>4. \A i \in Interactions : item[i] = Absent /\ github[i] = 0
  OBVIOUS
<1> QED
  BY <1>1, <1>2, <1>3, <1>4 DEF IInv, JobNamesItem, WorkIsGranted, StatusIsGranted, PostNeedsGrant,
     SuccessIsOnGithub, PostedIsOnGithub, BasesAreEarned, EarnedBy, Working, Cleared

\* A process that only goes on: the data and its job stay.
LEMMA MoveKeeps ==
  ASSUME IInv, NEW p \in Operators, NEW label \in Steps, Goto(p, label),
         UNCHANGED <<item, world>>,
         label \in Working => pc[p] \in Working,
         label # "idle" => pc[p] \notin {"idle", "insert"},
         label \notin {"resolve", "mark", "insert", "succeeded"}
  PROVE  IInv'
<1>1. TypeOK'
  BY GotoType DEF IInv, TypeOK, world
<1>2. /\ \A q \in Operators : q # p => pc'[q] = pc[q] /\ job'[q] = job[q]
      /\ pc'[p] = label
      /\ label # "idle" => job' = job
  BY GotoType DEF IInv
<1>3. JobNamesItem' /\ WorkIsGranted' /\ SuccessIsOnGithub'
  BY <1>2 DEF IInv, JobNamesItem, WorkIsGranted, SuccessIsOnGithub, Working, world
<1>4. StatusIsGranted' /\ PostNeedsGrant' /\ PostedIsOnGithub'
  BY DEF IInv, StatusIsGranted, PostNeedsGrant, PostedIsOnGithub, world
<1>5. BasesAreEarned'
  BY <1>2 DEF IInv, BasesAreEarned, EarnedBy
<1> QED
  BY <1>1, <1>3, <1>4, <1>5 DEF IInv

\* A command that starts to work on an interaction.
LEMMA StartKeeps ==
  ASSUME IInv, NEW p \in Operators, NEW label \in {"resolve", "post", "retry"},
         NEW i \in Interactions, NEW d \in {"none", "approved", "rejected"},
         Start(p, label, [NoJob EXCEPT !.id = i, !.decision = d]),
         label \in Working => i \in granted,
         label = "resolve" => d # "none",
         UNCHANGED <<item, world>>
  PROVE  IInv'
<1> DEFINE j == [NoJob EXCEPT !.id = i, !.decision = d]
<1>1. j \in JobRecords /\ j.id = i /\ j.decision = d
  BY NoJobType DEF JobRecords, NoJob
<1>2. label \in Steps
  BY DEF Steps
<1>3. /\ pc' \in [Operators -> Steps] /\ job' \in [Operators -> JobRecords]
      /\ \A q \in Operators : q # p => pc'[q] = pc[q] /\ job'[q] = job[q]
      /\ pc'[p] = label /\ job'[p] = j
      /\ overlapped' \in BOOLEAN
  BY <1>1, <1>2, StartType DEF IInv
<1>4. TypeOK'
  BY <1>3 DEF IInv, TypeOK, world
<1> HIDE DEF j
<1>5. JobNamesItem' /\ WorkIsGranted' /\ SuccessIsOnGithub'
  BY <1>1, <1>3 DEF IInv, JobNamesItem, WorkIsGranted, SuccessIsOnGithub, Working, world
<1>6. StatusIsGranted' /\ PostNeedsGrant' /\ PostedIsOnGithub'
  BY DEF IInv, StatusIsGranted, PostNeedsGrant, PostedIsOnGithub, world
<1>7. BasesAreEarned'
  BY <1>3 DEF IInv, BasesAreEarned, EarnedBy
<1> QED
  BY <1>4, <1>5, <1>6, <1>7 DEF IInv

\* A statement that writes a status and ends or continues a command.
LEMMA WriteKeeps ==
  ASSUME IInv, NEW p \in Operators, NEW label \in {"idle", "reread"},
         NEW i \in Interactions, NEW status \in Statuses,
         SetStatus(i, status), Goto(p, label), UNCHANGED world,
         label \in Working => pc[p] \in Working,
         status \in Cleared => i \in granted,
         status = "posted" => github[i] > 0
  PROVE  IInv'
<1>1. /\ item' \in [Interactions -> ItemRecords]
      /\ \A k \in Interactions : item'[k].type = item[k].type /\ item'[k].basis = item[k].basis
      /\ \A k \in Interactions : k # i => item'[k] = item[k]
      /\ item'[i].status = status
  BY StatusType DEF IInv
<1>2. label \in Steps
  BY DEF Steps
<1>3. /\ pc' \in [Operators -> Steps] /\ job' \in [Operators -> JobRecords]
      /\ \A q \in Operators : q # p => pc'[q] = pc[q] /\ job'[q] = job[q]
      /\ pc'[p] = label
      /\ label # "idle" => job' = job
      /\ overlapped' \in BOOLEAN
  BY <1>2, GotoType DEF IInv
<1>4. TypeOK'
  BY <1>1, <1>3 DEF IInv, TypeOK, world
<1>5. JobNamesItem' /\ WorkIsGranted' /\ SuccessIsOnGithub'
  BY <1>3 DEF IInv, JobNamesItem, WorkIsGranted, SuccessIsOnGithub, Working, world
<1>6. StatusIsGranted' /\ PostNeedsGrant' /\ PostedIsOnGithub'
  BY <1>1 DEF IInv, StatusIsGranted, PostNeedsGrant, PostedIsOnGithub, Cleared, world
<1>7. BasesAreEarned'
  BY <1>1, <1>3 DEF IInv, BasesAreEarned, EarnedBy
<1> QED
  BY <1>4, <1>5, <1>6, <1>7 DEF IInv
-----------------------------------------------------------------------------
LEMMA NextIInv == IInv /\ [Next]_vars => IInv'
<1> SUFFICES ASSUME IInv, [Next]_vars PROVE IInv'
  OBVIOUS
<1>1. CASE UNCHANGED vars
  BY <1>1 DEF vars, IInv, TypeOK, JobNamesItem, WorkIsGranted, StatusIsGranted, PostNeedsGrant,
     SuccessIsOnGithub, PostedIsOnGithub, BasesAreEarned, EarnedBy, Created
<1>2. ASSUME NEW p \in Operators, NEW f \in Inputs, Draft(p, f) PROVE IInv'
  <2> DEFINE j == [NoJob EXCEPT !.type = TargetType(f), !.basis = f]
  <2>1. f \in AllInputs
    BY CommentAssumption
  <2>2. j \in JobRecords /\ j.type = TargetType(f) /\ j.basis = f
    BY <2>1, TargetTypeType, NoJobType DEF NoJob, JobRecords
  <2>3. EarnedBy(j.type, j.basis)
    BY <2>1, <2>2, SpokenIsEarned, <1>2 DEF Draft
  <2>4. Start(p, "insert", j) /\ UNCHANGED <<item, world>>
    BY <1>2 DEF Draft
  <2> HIDE DEF j
  <2>5. /\ pc' \in [Operators -> Steps] /\ job' \in [Operators -> JobRecords]
        /\ \A q \in Operators : q # p => pc'[q] = pc[q] /\ job'[q] = job[q]
        /\ pc'[p] = "insert" /\ job'[p] = j
        /\ overlapped' \in BOOLEAN
    <3>1. "insert" \in Steps
      BY DEF Steps
    <3> QED
      BY <2>2, <2>4, <3>1, StartType DEF IInv
  <2>6. TypeOK'
    BY <2>4, <2>5 DEF IInv, TypeOK, world
  <2>7. JobNamesItem' /\ WorkIsGranted' /\ SuccessIsOnGithub'
    BY <2>4, <2>5 DEF IInv, JobNamesItem, WorkIsGranted, SuccessIsOnGithub, Working, world
  <2>8. StatusIsGranted' /\ PostNeedsGrant' /\ PostedIsOnGithub'
    BY <2>4 DEF IInv, StatusIsGranted, PostNeedsGrant, PostedIsOnGithub, world
  <2>9. BasesAreEarned'
    BY <2>3, <2>4, <2>5 DEF IInv, BasesAreEarned, EarnedBy
  <2> QED
    BY <2>6, <2>7, <2>8, <2>9 DEF IInv
<1>3. ASSUME NEW p \in Operators, InsertInteraction(p) PROVE IInv'
  <2> DEFINE i == Cardinality(Created) + 1
  <2> DEFINE r == [type |-> job[p].type, status |-> "draft", basis |-> job[p].basis]
  <2>1. pc[p] = "insert" /\ i \in Interactions /\ UNCHANGED <<world, overlapped>>
    BY <1>3 DEF InsertInteraction
  <2>2. item' = [item EXCEPT ![i] = r] /\ pc' = [pc EXCEPT ![p] = "ask"]
    BY <1>3 DEF InsertInteraction
  <2>3. job' = [job EXCEPT ![p] = [job[p] EXCEPT !.id = i]]
    BY <1>3 DEF InsertInteraction, IInv, TypeOK
  <2> HIDE DEF i
  <2>4. job[p] \in JobRecords
    BY DEF IInv, TypeOK
  <2>5. r \in ItemRecords /\ r.status = "draft" /\ r.type = job[p].type /\ r.basis = job[p].basis
    BY <2>4 DEF JobRecords, ItemRecords, Statuses
  <2>6. [job[p] EXCEPT !.id = i] \in JobRecords /\ [job[p] EXCEPT !.id = i].id = i
    BY <2>1, <2>4 DEF JobRecords
  <2> HIDE DEF r
  <2>7. TypeOK'
    BY <2>1, <2>2, <2>3, <2>5, <2>6 DEF IInv, TypeOK, Steps, world
  <2>8. JobNamesItem' /\ WorkIsGranted' /\ SuccessIsOnGithub'
    BY <2>1, <2>2, <2>3, <2>6 DEF IInv, TypeOK, JobNamesItem, WorkIsGranted, SuccessIsOnGithub, Working, world
  <2>9. StatusIsGranted' /\ PostNeedsGrant' /\ PostedIsOnGithub'
    BY <2>1, <2>2, <2>5 DEF IInv, TypeOK, StatusIsGranted, PostNeedsGrant, PostedIsOnGithub, Cleared, world
  <2>10. BasesAreEarned'
    BY <2>1, <2>2, <2>3, <2>5 DEF IInv, TypeOK, BasesAreEarned, EarnedBy
  <2> QED
    BY <2>7, <2>8, <2>9, <2>10 DEF IInv
<1>4. ASSUME NEW p \in Operators, RequestApproval(p) PROVE IInv'
  <2>1. pc[p] = "ask" /\ Goto(p, "idle") /\ UNCHANGED <<item, github, granted, refused>>
    BY <1>4 DEF RequestApproval
  <2>2. approval' \in [Interactions -> {"none", "pending", "approved", "rejected"}]
    BY <1>4 DEF RequestApproval, IInv, TypeOK
  <2>3. /\ pc' \in [Operators -> Steps] /\ job' \in [Operators -> JobRecords]
        /\ \A q \in Operators : q # p => pc'[q] = pc[q] /\ job'[q] = job[q]
        /\ pc'[p] = "idle"
        /\ overlapped' \in BOOLEAN
    <3>1. "idle" \in Steps
      BY DEF Steps
    <3> QED
      BY <2>1, <3>1, GotoType DEF IInv
  <2>4. TypeOK'
    BY <2>1, <2>2, <2>3 DEF IInv, TypeOK
  <2>5. JobNamesItem' /\ WorkIsGranted' /\ SuccessIsOnGithub'
    BY <2>1, <2>3 DEF IInv, JobNamesItem, WorkIsGranted, SuccessIsOnGithub, Working
  <2>6. StatusIsGranted' /\ PostNeedsGrant' /\ PostedIsOnGithub'
    BY <2>1 DEF IInv, StatusIsGranted, PostNeedsGrant, PostedIsOnGithub
  <2>7. BasesAreEarned'
    BY <2>1, <2>3 DEF IInv, BasesAreEarned, EarnedBy
  <2> QED
    BY <2>4, <2>5, <2>6, <2>7 DEF IInv
<1>5. ASSUME NEW p \in Operators, NEW i \in Interactions, NEW d \in {"approved", "rejected"},
             StartResolve(p, i, d)
      PROVE  IInv'
  BY <1>5, StartKeeps DEF StartResolve, Working
<1>6. ASSUME NEW p \in Operators, ResolveRequest(p) PROVE IInv'
  <2> DEFINE i == job[p].id
  <2>1. pc[p] = "resolve" /\ Goto(p, "mark") /\ UNCHANGED <<item, github>>
    BY <1>6 DEF ResolveRequest
  <2>2. i \in Interactions /\ job[p].decision \in {"none", "approved", "rejected"}
    BY <2>1 DEF IInv, TypeOK, JobNamesItem, JobRecords
  <2>3. /\ approval' \in [Interactions -> {"none", "pending", "approved", "rejected"}]
        /\ granted \subseteq granted' /\ granted' \subseteq Interactions
        /\ refused' \subseteq Interactions
        /\ job[p].decision = "approved" => i \in granted'
    BY <1>6, <2>2 DEF ResolveRequest, IInv, TypeOK
  <2>4. /\ pc' \in [Operators -> Steps] /\ job' = job
        /\ \A q \in Operators : q # p => pc'[q] = pc[q]
        /\ pc'[p] = "mark"
        /\ overlapped' \in BOOLEAN
    <3>1. "mark" \in Steps
      BY DEF Steps
    <3> QED
      BY <2>1, <3>1, GotoType DEF IInv
  <2>5. TypeOK'
    BY <2>1, <2>3, <2>4 DEF IInv, TypeOK
  <2>6. JobNamesItem' /\ WorkIsGranted' /\ SuccessIsOnGithub'
    BY <2>1, <2>2, <2>3, <2>4 DEF IInv, JobNamesItem, WorkIsGranted, SuccessIsOnGithub, Working
  <2>7. StatusIsGranted' /\ PostNeedsGrant' /\ PostedIsOnGithub'
    BY <2>1, <2>3 DEF IInv, StatusIsGranted, PostNeedsGrant, PostedIsOnGithub
  <2>8. BasesAreEarned'
    BY <2>1, <2>4 DEF IInv, BasesAreEarned, EarnedBy
  <2> QED
    BY <2>5, <2>6, <2>7, <2>8 DEF IInv
<1>7. ASSUME NEW p \in Operators, MarkDecision(p) PROVE IInv'
  <2>1. job[p].id \in Interactions /\ job[p].decision \in {"approved", "rejected"}
    BY <1>7 DEF MarkDecision, IInv, JobNamesItem
  <2>2. /\ job[p].decision \in Statuses /\ job[p].decision # "posted"
        /\ job[p].decision \in Cleared => job[p].id \in granted
    BY <1>7, <2>1 DEF MarkDecision, IInv, WorkIsGranted, Cleared, Statuses
  <2> QED
    BY <1>7, <2>1, <2>2, WriteKeeps DEF MarkDecision, Working
<1>8. ASSUME NEW p \in Operators, NEW i \in Interactions, StartPost(p, i) \/ StartRetry(p, i)
      PROVE  IInv'
  <2>1. [NoJob EXCEPT !.id = i] = [NoJob EXCEPT !.id = i, !.decision = "none"]
    BY NoJobType DEF JobRecords, NoJob
  <2>2. i \in granted
    BY <1>8 DEF StartPost, StartRetry, IInv, StatusIsGranted, Cleared
  <2>3. CASE StartPost(p, i)
    BY <2>1, <2>2, <2>3, StartKeeps DEF StartPost
  <2>4. CASE StartRetry(p, i)
    BY <2>1, <2>2, <2>4, StartKeeps DEF StartRetry
  <2> QED
    BY <1>8, <2>3, <2>4
<1>9. ASSUME NEW p \in Operators, MarkRetried(p) PROVE IInv'
  <2>1. job[p].id \in Interactions /\ job[p].id \in granted
    BY <1>9 DEF MarkRetried, IInv, JobNamesItem, WorkIsGranted, Working
  <2> QED
    BY <1>9, <2>1, WriteKeeps DEF MarkRetried, Statuses, Working
<1>10. ASSUME NEW p \in Operators, Reread(p) \/ RereadFails(p) \/ Crash(p) PROVE IInv'
  <2>1. CASE Goto(p, "idle") /\ UNCHANGED <<item, world>>
    <3>1. "idle" \in Steps
      BY DEF Steps
    <3> QED
      BY <2>1, <3>1, MoveKeeps DEF Working
  <2>2. CASE pc[p] = "reread" /\ Goto(p, "post") /\ UNCHANGED <<item, world>>
    <3>1. "post" \in Steps
      BY DEF Steps
    <3> QED
      BY <2>2, <3>1, MoveKeeps DEF Working
  <2> QED
    BY <1>10, <2>1, <2>2 DEF Reread, RereadFails, Crash
<1>11. ASSUME NEW p \in Operators, Post(p) PROVE IInv'
  <2> DEFINE i == job[p].id
  <2>1. i \in Interactions /\ i \in granted /\ pc[p] = "post"
    BY <1>11 DEF Post, IInv, JobNamesItem, WorkIsGranted, Working
  <2>2. PICK label \in {"succeeded", "failed"} :
          /\ Goto(p, label) /\ UNCHANGED <<item, approval, granted, refused>>
          /\ github' = [github EXCEPT ![i] = @ + 1] \/ (label = "failed" /\ UNCHANGED github)
    BY <1>11 DEF Post
  <2>3. /\ github' \in [Interactions -> Nat]
        /\ \A k \in Interactions : github[k] > 0 => github'[k] > 0
        /\ \A k \in Interactions : k # i => github'[k] = github[k]
        /\ label = "succeeded" => github'[i] > 0
    BY <2>1, <2>2 DEF IInv, TypeOK
  <2>4. /\ pc' \in [Operators -> Steps] /\ job' = job
        /\ \A q \in Operators : q # p => pc'[q] = pc[q]
        /\ pc'[p] = label
        /\ overlapped' \in BOOLEAN
    <3>1. label \in Steps
      BY DEF Steps
    <3> QED
      BY <2>2, <3>1, GotoType DEF IInv
  <2>5. TypeOK'
    BY <2>2, <2>3, <2>4 DEF IInv, TypeOK
  <2>6. JobNamesItem' /\ WorkIsGranted'
    BY <2>1, <2>2, <2>4 DEF IInv, JobNamesItem, WorkIsGranted, Working
  <2>7. SuccessIsOnGithub'
    BY <2>3, <2>4 DEF IInv, JobNamesItem, SuccessIsOnGithub
  <2>8. StatusIsGranted' /\ PostNeedsGrant' /\ PostedIsOnGithub'
    BY <2>1, <2>2, <2>3 DEF IInv, StatusIsGranted, PostNeedsGrant, PostedIsOnGithub
  <2>9. BasesAreEarned'
    BY <2>2, <2>4 DEF IInv, BasesAreEarned, EarnedBy
  <2> QED
    BY <2>5, <2>6, <2>7, <2>8, <2>9 DEF IInv
<1>12. ASSUME NEW p \in Operators, RecordPosted(p) PROVE IInv'
  <2>1. job[p].id \in Interactions /\ job[p].id \in granted /\ github[job[p].id] > 0
    BY <1>12 DEF RecordPosted, IInv, JobNamesItem, WorkIsGranted, SuccessIsOnGithub, Working
  <2> QED
    BY <1>12, <2>1, WriteKeeps DEF RecordPosted, Statuses, Working
<1>13. ASSUME NEW p \in Operators, RecordFailed(p) PROVE IInv'
  <2>1. job[p].id \in Interactions /\ job[p].id \in granted
    BY <1>13 DEF RecordFailed, IInv, JobNamesItem, WorkIsGranted, Working
  <2> QED
    BY <1>13, <2>1, WriteKeeps DEF RecordFailed, Statuses, Working
<1> QED
  BY <1>1, <1>2, <1>3, <1>4, <1>5, <1>6, <1>7, <1>8, <1>9, <1>10, <1>11, <1>12, <1>13
  DEF Next, Operator

\* Every variable keeps its type, whatever commands overlap, fail and die.
THEOREM CommentTypeCorrect == Spec => []TypeOK
<1>1. IInv => TypeOK
  BY DEF IInv
<1> QED
  BY InitIInv, NextIInv, <1>1, PTL DEF Spec

\* Nothing reaches GitHub before a user approved it (github_projection.rs: post
\* and retry start from a status that only an approval leads to).
THEOREM PostsAreGranted == Spec => []PostNeedsGrant
<1>1. IInv => PostNeedsGrant
  BY DEF IInv
<1> QED
  BY InitIInv, NextIInv, <1>1, PTL DEF Spec

\* A row says posted only of a comment that GitHub holds
\* (github_projection.rs: the row is written after GitHub answered with an id).
THEOREM PostedRowsAreTrue == Spec => []PostedIsOnGithub
<1>1. IInv => PostedIsOnGithub
  BY DEF IInv
<1> QED
  BY InitIInv, NextIInv, <1>1, PTL DEF Spec

\* A final comment in public that no operator worded rests on a useful result
\* (github_interaction_policy.rs: decide_final_comment).
THEOREM FinalsAreEarned == Spec => []PublicFinalsAreEarned
<1>1. IInv => PublicFinalsAreEarned
  BY DEF IInv, BasesAreEarned, EarnedBy, PublicFinalsAreEarned
<1> QED
  BY InitIInv, NextIInv, <1>1, PTL DEF Spec
-----------------------------------------------------------------------------
(* One comment of a type.  Interactions are numbered in order, so an insert  *)
(* never overwrites a row.  As long as commands run one after another, what a *)
(* command read when it began is still so at each of its later statements.   *)

NumberedInOrder ==
  /\ \E n \in 0..MaxInteractions : Created = 1..n
  /\ \A i \in Interactions : approval[i] # "none" => i \in Created
  /\ \A p \in Operators : pc[p] \notin {"idle", "insert"} => job[p].id \in Created

\* One command runs.
Alone == \A p, q \in Operators : pc[p] # "idle" /\ pc[q] # "idle" => p = q

\* A row agrees with what the user said about it.
Decided ==
  \A i \in Interactions :
    /\ item[i].status = "rejected" \/ i \in refused => approval[i] = "rejected"
    /\ item[i].status \in Cleared => approval[i] = "approved"

\* What the command that runs still relies on.
StillDecided ==
  \A p \in Operators :
    /\ pc[p] = "insert" => ~Active(job[p].type)
    /\ pc[p] = "ask" => approval[job[p].id] = "none"
    /\ pc[p] = "resolve" => approval[job[p].id] = "pending"
    /\ pc[p] = "mark" => approval[job[p].id] = job[p].decision
    /\ pc[p] \in Working => approval[job[p].id] = "approved"

OneByOne == Alone /\ Decided /\ StillDecided /\ OneActivePerType

SerialInv == IInv /\ NumberedInOrder /\ (overlapped \/ OneByOne)

LEMMA NextNumber ==
  ASSUME NEW n \in 0..MaxInteractions, Created = 1..n
  PROVE  Cardinality(Created) + 1 = n + 1 /\ n + 1 \notin Created /\ 1..(n + 1) = Created \cup {n + 1}
<1>1. MaxInteractions \in Nat /\ n \in Nat
  BY CommentAssumption
<1>2. Cardinality(1..n) = n
  <2>1. Cardinality(1..n) = IF 1 > n THEN 0 ELSE n - 1 + 1
    BY <1>1, FS_Interval
  <2> QED
    BY <1>1, <2>1
<1> QED
  BY <1>1, <1>2

\* Who is created is only what an insert makes so.
LEMMA CreatedStays ==
  ASSUME TypeOK, NEW i \in Interactions, NEW status \in Statuses, SetStatus(i, status),
         i \in Created, status # "absent"
  PROVE  Created' = Created
  BY StatusType DEF Created

LEMMA SerialInit == Init => SerialInv
<1> SUFFICES ASSUME Init PROVE SerialInv
  OBVIOUS
<1>1. Created = {}
  BY DEF Init, Created, Absent
<1>2. 0 \in 0..MaxInteractions /\ 1..0 = {}
  BY CommentAssumption
<1>3. NumberedInOrder
  BY <1>1, <1>2 DEF NumberedInOrder, Init
<1>4. \A p \in Operators : pc[p] = "idle"
  BY DEF Init
<1>5. \A i \in Interactions : item[i].status = "absent" /\ i \notin refused
  BY DEF Init, Absent
<1>6. OneByOne
  BY <1>1, <1>4, <1>5 DEF OneByOne, Alone, Decided, StillDecided, OneActivePerType, Working, Cleared
<1> QED
  BY <1>3, <1>6, InitIInv DEF SerialInv

\* A command that begins, on a comment that exists or to draft one.
LEMMA SerialStart ==
  ASSUME SerialInv, IInv', NEW p \in Operators, NEW label \in {"insert", "resolve", "post", "retry"},
         NEW j \in JobRecords, Start(p, label, j), UNCHANGED <<item, world>>,
         label = "insert" => ~Active(j.type),
         label # "insert" => j.id \in Created,
         label = "resolve" => approval[j.id] = "pending",
         label \in Working => item[j.id].status \in Cleared
  PROVE  SerialInv'
<1>1. label \in Steps
  BY DEF Steps
<1>2. /\ \A q \in Operators : q # p => pc'[q] = pc[q] /\ job'[q] = job[q]
      /\ pc'[p] = label /\ job'[p] = j
  BY <1>1, StartType DEF SerialInv, IInv
<1>3. Created' = Created
  BY DEF Created
<1>4. NumberedInOrder'
  BY <1>2, <1>3 DEF SerialInv, NumberedInOrder, world
<1>5. ASSUME ~overlapped' PROVE OneByOne'
  <2>1. ~overlapped /\ \A q \in Operators : pc[q] = "idle"
    BY <1>5 DEF Start
  <2>2. OneByOne
    BY <2>1 DEF SerialInv
  <2>3. Alone'
    BY <1>2, <2>1 DEF Alone
  <2>4. Decided'
    BY <2>2 DEF OneByOne, Decided, world
  <2>5. \A type : Active(type)' <=> Active(type)
    BY <1>3 DEF Active
  <2>6. label \in Working => approval[j.id] = "approved"
    BY <2>2 DEF OneByOne, Decided, Created, Working
  <2>7. StillDecided'
    BY <1>2, <2>1, <2>5, <2>6 DEF StillDecided, Working, world
  <2>8. OneActivePerType'
    BY <1>3, <1>5, <2>1, <2>2 DEF OneByOne, OneActivePerType
  <2> QED
    BY <2>3, <2>4, <2>7, <2>8 DEF OneByOne
<1> QED
  BY <1>4, <1>5 DEF SerialInv

\* A command that goes on with no statement, or dies.
LEMMA SerialMove ==
  ASSUME SerialInv, IInv', NEW p \in Operators, NEW label \in {"idle", "post", "succeeded", "failed"},
         Goto(p, label), UNCHANGED <<item, approval, granted, refused>>,
         label # "idle" => pc[p] \in Working
  PROVE  SerialInv'
<1>1. label \in Steps
  BY DEF Steps
<1>2. /\ \A q \in Operators : q # p => pc'[q] = pc[q] /\ job'[q] = job[q]
      /\ pc'[p] = label
      /\ label # "idle" => job' = job
  BY <1>1, GotoType DEF SerialInv, IInv
<1>3. Created' = Created
  BY DEF Created
<1>4. NumberedInOrder'
  BY <1>2, <1>3 DEF SerialInv, NumberedInOrder, Working
<1>5. ASSUME ~overlapped' PROVE OneByOne'
  <2>1. ~overlapped /\ OneByOne
    BY <1>5 DEF Goto, SerialInv
  <2>3. Alone'
    BY <1>2, <2>1 DEF OneByOne, Alone, Working
  <2>4. Decided'
    BY <2>1 DEF OneByOne, Decided
  <2>5. \A type : Active(type)' <=> Active(type)
    BY <1>3 DEF Active
  <2>7. StillDecided'
    BY <1>2, <2>1, <2>5 DEF OneByOne, StillDecided, Working
  <2>8. OneActivePerType'
    BY <1>3, <1>5, <2>1 DEF OneByOne, OneActivePerType
  <2> QED
    BY <2>3, <2>4, <2>7, <2>8 DEF OneByOne
<1> QED
  BY <1>4, <1>5 DEF SerialInv

\* A statement that writes a status the user's decision allows.
LEMMA SerialWrite ==
  ASSUME SerialInv, IInv', NEW p \in Operators, NEW label \in {"idle", "reread"},
         NEW status \in Statuses \ {"absent", "draft"},
         pc[p] \in Working \cup {"mark"}, label # "idle" => pc[p] \in Working,
         pc[p] = "mark" => status = job[p].decision,
         pc[p] # "mark" => status \in Cleared,
         SetStatus(job[p].id, status), Goto(p, label), UNCHANGED world
  PROVE  SerialInv'
<1> DEFINE i == job[p].id
<1>1. label \in Steps
  BY DEF Steps
<1>2. /\ \A q \in Operators : q # p => pc'[q] = pc[q] /\ job'[q] = job[q]
      /\ pc'[p] = label
      /\ label # "idle" => job' = job
  BY <1>1, GotoType DEF SerialInv, IInv
<1>3. i \in Created /\ i \in Interactions
  BY DEF SerialInv, NumberedInOrder, Working, Created
<1>4. /\ \A k \in Interactions : item'[k].type = item[k].type
      /\ \A k \in Interactions : k # i => item'[k] = item[k]
      /\ item'[i].status = status
  BY <1>3, StatusType DEF SerialInv, IInv
<1>5. Created' = Created
  BY <1>3, CreatedStays DEF SerialInv, IInv
<1>6. NumberedInOrder'
  BY <1>2, <1>5 DEF SerialInv, NumberedInOrder, Working, world
<1>7. ASSUME ~overlapped' PROVE OneByOne'
  <2>1. ~overlapped /\ OneByOne
    BY <1>7 DEF Goto, SerialInv
  <2>2. /\ status = "rejected" => approval[i] = "rejected"
        /\ status \in Cleared => approval[i] = "approved"
        /\ item[i].status = "rejected" => status = "rejected"
    BY <1>3, <2>1 DEF OneByOne, StillDecided, Decided, Working, Cleared, SerialInv, IInv, JobNamesItem
  <2>3. Alone'
    BY <1>2, <2>1 DEF OneByOne, Alone, Working
  <2>4. Decided'
    BY <1>3, <1>4, <2>1, <2>2 DEF OneByOne, Decided, world
  <2>5. \A q \in Operators : pc'[q] # "insert"
    BY <1>2, <2>1 DEF OneByOne, Alone, Working
  <2>6. StillDecided'
    BY <1>2, <2>1, <2>5 DEF OneByOne, StillDecided, Working, world
  <2>7. OneActivePerType'
    <3>1. \A k \in Created : k \in Interactions /\ item'[k].type = item[k].type
                            /\ (item'[k].status # "rejected" => item[k].status # "rejected")
      BY <1>4, <2>2 DEF Created
    <3> QED
      BY <1>5, <2>1, <3>1 DEF OneByOne, OneActivePerType
  <2> QED
    BY <2>3, <2>4, <2>6, <2>7 DEF OneByOne
<1> QED
  BY <1>6, <1>7 DEF SerialInv
-----------------------------------------------------------------------------
LEMMA SerialInsert ==
  ASSUME SerialInv, IInv', NEW p \in Operators, InsertInteraction(p)
  PROVE  SerialInv'
<1> DEFINE i == Cardinality(Created) + 1
<1> DEFINE r == [type |-> job[p].type, status |-> "draft", basis |-> job[p].basis]
<1>1. PICK n \in 0..MaxInteractions : Created = 1..n
  BY DEF SerialInv, NumberedInOrder
<1>2. pc[p] = "insert" /\ i \in Interactions /\ UNCHANGED <<world, overlapped>>
  BY DEF InsertInteraction
<1>3. i = n + 1 /\ i \notin Created /\ 1..(n + 1) = Created \cup {i}
  BY <1>1, NextNumber
<1>4. item' = [item EXCEPT ![i] = r] /\ pc' = [pc EXCEPT ![p] = "ask"]
  BY DEF InsertInteraction
<1>5. job' = [job EXCEPT ![p] = [job[p] EXCEPT !.id = i]]
  BY DEF InsertInteraction, SerialInv, IInv, TypeOK
<1> HIDE DEF i
<1>6. job[p] \in JobRecords
  BY DEF SerialInv, IInv, TypeOK
<1>7. r.status = "draft" /\ r.type = job[p].type /\ [job[p] EXCEPT !.id = i].id = i
  BY <1>6 DEF JobRecords
<1> HIDE DEF r
<1>8. /\ item'[i] = r /\ \A k \in Interactions : k # i => item'[k] = item[k]
      /\ pc'[p] = "ask" /\ job'[p].id = i
      /\ \A q \in Operators : q # p => pc'[q] = pc[q] /\ job'[q] = job[q]
  BY <1>2, <1>4, <1>5, <1>7 DEF SerialInv, IInv, TypeOK
<1>9. Created' = Created \cup {i}
  BY <1>2, <1>7, <1>8 DEF Created
<1>10. n + 1 \in 0..MaxInteractions
  BY <1>2, <1>3, CommentAssumption DEF Interactions
<1>11. NumberedInOrder'
  <2>1. \E m \in 0..MaxInteractions : Created' = 1..m
    BY <1>3, <1>9, <1>10
  <2> QED
    BY <2>1, <1>2, <1>8, <1>9 DEF SerialInv, NumberedInOrder, world
<1>12. ASSUME ~overlapped' PROVE OneByOne'
  <2>1. ~overlapped /\ OneByOne
    BY <1>2, <1>12 DEF SerialInv
  <2>2. Alone'
    BY <1>2, <1>8, <2>1 DEF OneByOne, Alone
  <2>3. Decided'
    <3>1. \A k \in Interactions : k # i => item'[k] = item[k]
      BY <1>8
    <3>2. item'[i].status = "draft"
      BY <1>7, <1>8
    <3> QED
      BY <1>2, <2>1, <3>1, <3>2 DEF OneByOne, Decided, Cleared, world
  <2>4. approval[i] = "none"
    BY <1>2, <1>3 DEF SerialInv, NumberedInOrder
  <2>5. \A q \in Operators : q # p => pc'[q] = "idle"
    BY <1>2, <1>8, <2>1 DEF OneByOne, Alone
  <2>6. StillDecided'
    BY <1>2, <1>8, <2>4, <2>5 DEF StillDecided, Working, world
  <2>7. OneActivePerType'
    <3>1. ~Active(job[p].type)
      BY <1>2, <2>1 DEF OneByOne, StillDecided
    <3>2. \A k \in Created : item[k].status # "rejected" => item[k].type # item'[i].type
      BY <1>7, <1>8, <3>1 DEF Active
    <3>3. \A k \in Created : k \in Interactions /\ k # i
      BY <1>3 DEF Created
    <3>4. \A k \in Created' : k = i \/ (k \in Created /\ item'[k] = item[k])
      BY <1>8, <1>9, <3>3
    <3>5. \A k, l \in Created : item[k].type = item[l].type /\ item[k].status # "rejected"
                                /\ item[l].status # "rejected" => k = l
      BY <2>1 DEF OneByOne, OneActivePerType
    <3> QED
      BY <3>2, <3>4, <3>5 DEF OneActivePerType
  <2> QED
    BY <2>2, <2>3, <2>6, <2>7 DEF OneByOne
<1> QED
  BY <1>11, <1>12 DEF SerialInv

\* The request of a new draft, and the user's answer to it.
LEMMA SerialAnswer ==
  ASSUME SerialInv, IInv', NEW p \in Operators, NEW value \in {"pending", "approved", "rejected"},
         NEW label \in {"idle", "mark"}, Goto(p, label), item' = item,
         approval' = [approval EXCEPT ![job[p].id] = value],
         \/ pc[p] = "ask" /\ label = "idle" /\ value = "pending" /\ UNCHANGED refused
         \/ /\ pc[p] = "resolve" /\ label = "mark" /\ value = job[p].decision
            /\ refused' = IF value = "rejected" THEN refused \cup {job[p].id} ELSE refused
  PROVE  SerialInv'
<1> DEFINE i == job[p].id
<1>1. label \in Steps
  BY DEF Steps
<1>2. /\ \A q \in Operators : q # p => pc'[q] = pc[q] /\ job'[q] = job[q]
      /\ pc'[p] = label
      /\ label # "idle" => job' = job
  BY <1>1, GotoType DEF SerialInv, IInv
<1>3. Created' = Created
  BY DEF Created
<1>4. i \in Created /\ i \in Interactions
  BY DEF SerialInv, NumberedInOrder, Created
<1>5. approval'[i] = value /\ \A k \in Interactions : k # i => approval'[k] = approval[k]
  BY <1>4 DEF SerialInv, IInv, TypeOK
<1>6. NumberedInOrder'
  BY <1>2, <1>3, <1>4, <1>5 DEF SerialInv, NumberedInOrder
<1>7. ASSUME ~overlapped' PROVE OneByOne'
  <2>1. ~overlapped /\ OneByOne
    BY <1>7 DEF Goto, SerialInv
  <2>2. approval[i] \in {"none", "pending"}
    BY <2>1 DEF OneByOne, StillDecided
  <2>3. item[i].status # "rejected" /\ item[i].status \notin Cleared /\ i \notin refused
    BY <1>4, <2>1, <2>2 DEF OneByOne, Decided
  <2>4. Alone'
    BY <1>2, <2>1 DEF OneByOne, Alone
  <2>5. Decided'
    BY <1>5, <2>1, <2>3 DEF OneByOne, Decided
  <2>6. \A q \in Operators : q # p => pc'[q] = "idle"
    BY <1>2, <2>1 DEF OneByOne, Alone
  <2>7. StillDecided'
    BY <1>2, <1>5, <2>6 DEF StillDecided, Working
  <2>8. OneActivePerType'
    BY <1>3, <2>1 DEF OneByOne, OneActivePerType
  <2> QED
    BY <2>4, <2>5, <2>7, <2>8 DEF OneByOne
<1> QED
  BY <1>6, <1>7 DEF SerialInv
-----------------------------------------------------------------------------
LEMMA SerialNext == SerialInv /\ [Next]_vars => SerialInv'
<1> SUFFICES ASSUME SerialInv, [Next]_vars PROVE SerialInv'
  OBVIOUS
<1>0. IInv'
  BY NextIInv DEF SerialInv
<1>1. CASE UNCHANGED vars
  <2>1. Created' = Created
    BY <1>1 DEF vars, Created
  <2>2. NumberedInOrder'
    BY <1>1, <2>1 DEF vars, SerialInv, NumberedInOrder
  <2>3. OneByOne => OneByOne'
    BY <1>1, <2>1 DEF vars, OneByOne, Alone, Decided, StillDecided, OneActivePerType, Active
  <2> QED
    BY <1>0, <1>1, <2>2, <2>3 DEF SerialInv, vars
<1>2. ASSUME NEW p \in Operators, NEW f \in Inputs, Draft(p, f) PROVE SerialInv'
  <2> DEFINE j == [NoJob EXCEPT !.type = TargetType(f), !.basis = f]
  <2>1. f \in AllInputs
    BY CommentAssumption
  <2>2. j \in JobRecords /\ j.type = TargetType(f)
    BY <2>1, TargetTypeType, NoJobType DEF NoJob, JobRecords
  <2>3. Start(p, "insert", j) /\ UNCHANGED <<item, world>> /\ ~Active(TargetType(f))
    BY <1>2 DEF Draft
  <2> HIDE DEF j
  <2> QED
    BY <1>0, <2>2, <2>3, SerialStart DEF Working
<1>3. ASSUME NEW p \in Operators, RequestApproval(p) PROVE SerialInv'
  BY <1>0, <1>3, SerialAnswer DEF RequestApproval
<1>4. ASSUME NEW p \in Operators, NEW i \in Interactions, NEW d \in {"approved", "rejected"},
             StartResolve(p, i, d)
      PROVE  SerialInv'
  <2> DEFINE j == [NoJob EXCEPT !.id = i, !.decision = d]
  <2>1. j \in JobRecords /\ j.id = i
    BY NoJobType DEF JobRecords, NoJob
  <2>2. Start(p, "resolve", j) /\ UNCHANGED <<item, world>> /\ approval[i] = "pending"
    BY <1>4 DEF StartResolve
  <2>3. i \in Created
    BY <2>2 DEF SerialInv, NumberedInOrder
  <2> HIDE DEF j
  <2> QED
    BY <1>0, <2>1, <2>2, <2>3, SerialStart DEF Working
<1>5. ASSUME NEW p \in Operators, ResolveRequest(p) PROVE SerialInv'
  <2>1. job[p].decision \in {"approved", "rejected"}
    BY <1>5 DEF ResolveRequest, SerialInv, IInv, JobNamesItem
  <2> QED
    BY <1>0, <1>5, <2>1, SerialAnswer DEF ResolveRequest
<1>6. ASSUME NEW p \in Operators, MarkDecision(p) PROVE SerialInv'
  <2>1. job[p].decision \in Statuses \ {"absent", "draft"}
    BY <1>6 DEF MarkDecision, SerialInv, IInv, JobNamesItem, Statuses
  <2> QED
    BY <1>0, <1>6, <2>1, SerialWrite DEF MarkDecision
<1>7. ASSUME NEW p \in Operators, NEW i \in Interactions, StartPost(p, i) \/ StartRetry(p, i)
      PROVE  SerialInv'
  <2> DEFINE j == [NoJob EXCEPT !.id = i]
  <2>1. j \in JobRecords /\ j.id = i
    BY NoJobType DEF JobRecords, NoJob
  <2>2. PICK label \in {"post", "retry"} :
          Start(p, label, j) /\ UNCHANGED <<item, world>> /\ item[i].status \in Cleared
    BY <1>7 DEF StartPost, StartRetry, Cleared
  <2>3. i \in Created
    BY <2>2 DEF Cleared, Created
  <2> HIDE DEF j
  <2> QED
    BY <1>0, <2>1, <2>2, <2>3, SerialStart
<1>8. ASSUME NEW p \in Operators, MarkRetried(p) \/ RecordPosted(p) \/ RecordFailed(p) PROVE SerialInv'
  <2>1. PICK label \in {"idle", "reread"}, status \in {"retried", "posted", "failed"} :
          /\ pc[p] \in Working /\ SetStatus(job[p].id, status) /\ Goto(p, label) /\ UNCHANGED world
    BY <1>8 DEF MarkRetried, RecordPosted, RecordFailed, Working
  <2>2. status \in Statuses \ {"absent", "draft"} /\ status \in Cleared /\ pc[p] # "mark"
    BY <2>1 DEF Statuses, Cleared, Working
  <2> QED
    BY <1>0, <2>1, <2>2, SerialWrite
<1>9. ASSUME NEW p \in Operators, Reread(p) \/ RereadFails(p) \/ Crash(p) \/ Post(p) PROVE SerialInv'
  <2>1. PICK label \in {"idle", "post", "succeeded", "failed"} :
          /\ Goto(p, label) /\ UNCHANGED <<item, approval, granted, refused>>
          /\ label # "idle" => pc[p] \in Working
    BY <1>9 DEF Reread, RereadFails, Crash, Post, Working, world
  <2> QED
    BY <1>0, <2>1, SerialMove
<1> QED
  BY <1>0, <1>1, <1>2, <1>3, <1>4, <1>5, <1>6, <1>7, <1>8, <1>9, SerialInsert DEF Next, Operator

\* As long as commands run one after another an issue has one live comment of a type:
\* the check for a duplicate and the insert are two statements
\* (github_projection.rs: has_active_interaction, insert_interaction).
THEOREM DuplicatesAreRefused == Spec => []OneActivePerType
<1>1. SerialInv => OneActivePerType
  BY DEF SerialInv, OneByOne, OneActivePerType
<1> QED
  BY SerialInit, SerialNext, <1>1, PTL DEF Spec

\* As long as commands run one after another, what a user rejected is not posted: a
\* post works on a row that only an approval leads to, and no row has both answers.
THEOREM RejectionsStick == Spec => RejectionSticks
<1>1. SerialInv /\ [Next]_vars => [overlapped \/ \A i \in refused : github'[i] = github[i]]_vars
  <2> SUFFICES ASSUME SerialInv, Next, ~overlapped, NEW i \in refused
               PROVE  github'[i] = github[i]
    OBVIOUS
  <2>1. OneByOne /\ i \in Interactions
    BY DEF SerialInv, IInv, TypeOK
  <2>2. PICK p \in Operators : Operator(p)
    BY DEF Next
  <2>3. CASE Post(p)
    <3>1. approval[job[p].id] = "approved" /\ approval[i] = "rejected"
      BY <2>1, <2>3 DEF Post, OneByOne, StillDecided, Decided, Working
    <3>2. github \in [Interactions -> Nat]
      BY DEF SerialInv, IInv, TypeOK
    <3> QED
      BY <2>1, <2>3, <3>1, <3>2 DEF Post
  <2>4. CASE ~Post(p)
    BY <2>2, <2>4 DEF Operator, Draft, InsertInteraction, RequestApproval, StartResolve, ResolveRequest,
       MarkDecision, StartPost, StartRetry, MarkRetried, Reread, RereadFails, RecordPosted, RecordFailed,
       Crash, world
  <2> QED
    BY <2>3, <2>4
<1> QED
  BY SerialInit, SerialNext, <1>1, PTL DEF Spec, RejectionSticks
=============================================================================
