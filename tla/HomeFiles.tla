------------------------------- MODULE HomeFiles -------------------------------
(***************************************************************************)
(* The files the commands of one user share: the inbox index, the handoff     *)
(* directory of each prepared issue, the log of feedback events and the       *)
(* cached result of the last ranking (src/workflow.rs, inbox.rs, handoff.rs,  *)
(* context_snapshot.rs, paths.rs, recommendation/events.rs).                  *)
(*                                                                           *)
(* Each command is a process.  Nothing locks the files: the index is read,    *)
(* changed and written back through a temporary file with a fixed name, and  *)
(* an event is appended in two writes, the line and its newline.              *)
(***************************************************************************)
EXTENDS Naturals, FiniteSets

CONSTANTS Hands,   \* processes that run one command after another
          RankedIssues,  \* issues of a ranking, in its order
          Worthy,  \* issues whose category may be prepared by default
          TopN,    \* preparations one daily run attempts
          MaxCommands  \* bound: commands run

ASSUME HomeAssumption ==
  /\ RankedIssues \subseteq Nat \ {0} /\ Worthy \subseteq RankedIssues
  /\ TopN \in Nat \ {0} /\ MaxCommands \in Nat

VARIABLES
  index, tmp,  \* the inbox index and its temporary file
  handoff,     \* per issue: how often it was prepared, and the preparation its event
               \* file, its other files and its snapshot are of
  feedback,    \* per issue: the last done, dismissed or restored in the log
  log,         \* how the event log ends: "whole", "open" without newline, or "glued"
  cached,      \* issues displayable in the cached ranking, NoCache without one
  begun,       \* preparations begun
  hand,        \* the command each process runs
  commands,    \* how many were run
  overlappedHome, crashed, stale  \* history: what happened so far
homeFiles == <<index, tmp, handoff, feedback, log, cached, begun>>
homeVars == <<homeFiles, hand, commands, overlappedHome, crashed, stale>>
-----------------------------------------------------------------------------
\* A file: "none", "empty", "torn" (it does not parse), or "whole" with its items.
NoItems == [i \in RankedIssues |-> "absent"]
File(is) == [is |-> is, items |-> NoItems]
Whole(items) == [is |-> "whole", items |-> items]
NoCache == {0}
NoCommand == [at |-> "idle", cmd |-> "none", issue |-> 0, run |-> 0, todo |-> {}, left |-> 0,
            next |-> "none", again |-> FALSE, mine |-> NoItems, fd |-> "none"]

\* load_events fails on a line it cannot parse, and the ranking then goes on
\* without any feedback.
Displayable == {i \in RankedIssues : log = "glued" \/ feedback[i] \notin {"done", "dismissed"}}

Step(h, rec) == hand' = [hand EXCEPT ![h] = rec]
Took(h, cmd, rec) ==
  /\ hand[h] = NoCommand /\ commands < MaxCommands
  /\ commands' = commands + 1 /\ Step(h, [rec EXCEPT !.cmd = cmd])
  /\ overlappedHome' = (overlappedHome \/ \E g \in Hands : hand[g] # NoCommand)
History == UNCHANGED <<commands, overlappedHome, crashed, stale>>
\* A daily run goes on with its list; every other command ends here.
After(h) == IF hand[h].cmd = "daily" THEN [NoCommand EXCEPT !.at = "pick", !.cmd = "daily",
                                             !.todo = hand[h].todo, !.left = hand[h].left]
            ELSE NoCommand
\* An error of a preparation: the daily run tries once to record a failed item.
Failed(h) == IF hand[h].cmd = "daily" /\ ~hand[h].again
             THEN [hand[h] EXCEPT !.at = "load", !.next = "failed", !.again = TRUE] ELSE After(h)
-----------------------------------------------------------------------------
(* atomic_write and the index.                                               *)

\* An update that takes a temporary file left over for an index still to come.
Load_Leftover(h) ==
  /\ hand[h].at = "load"
  /\ LET seen == IF tmp.is = "none" THEN index.items ELSE NoItems
     IN Step(h, [hand[h] EXCEPT !.at = "truncate", !.mine = [seen EXCEPT ![hand[h].issue] = hand[h].next]])
  /\ UNCHANGED homeFiles /\ History
\* load_index: no file is an empty index, a file that does not parse an error.
Load(h) ==
  /\ hand[h].at = "load"
  /\ IF index.is # "whole" \/ (hand[h].cmd \in {"archive", "finish"} /\ index.items[hand[h].issue] = "absent")
     THEN Step(h, Failed(h))
     ELSE Step(h, [hand[h] EXCEPT !.at = "truncate",
                                  !.mine = [index.items EXCEPT ![hand[h].issue] = hand[h].next]])
  /\ UNCHANGED homeFiles /\ History

\* A write that opens the index itself.
Truncate_InPlace(h) ==
  /\ hand[h].at = "truncate" /\ index' = File("empty") /\ tmp' = index
  /\ Step(h, [hand[h] EXCEPT !.at = "fill", !.fd = "index"])
  /\ UNCHANGED <<handoff, feedback, log, cached, begun>> /\ History
Truncate(h) ==
  /\ hand[h].at = "truncate" /\ tmp' = File("empty")
  /\ Step(h, [hand[h] EXCEPT !.at = "fill", !.fd = "tmp"])
  /\ UNCHANGED <<index, handoff, feedback, log, cached, begun>> /\ History
\* A write goes to the file that was opened, under whatever name it now has; over
\* another process's text it may leave a tail of that.
Written(h, old) ==
  {Whole(hand[h].mine)} \cup (IF old.is = "empty" THEN {} ELSE {File("torn")})
Fill(h) ==
  /\ hand[h].at = "fill"
  /\ IF hand[h].fd = "tmp" THEN tmp' \in Written(h, tmp) ELSE tmp' = tmp
  /\ IF hand[h].fd = "index" THEN index' \in Written(h, index) ELSE index' = index
  /\ Step(h, [hand[h] EXCEPT !.at = "rename"])
  /\ UNCHANGED <<handoff, feedback, log, cached, begun>> /\ History
\* The rename moves every open descriptor with the file; without a temporary file
\* it fails and so does the command.
Shift(fd) == IF fd = "tmp" THEN "index" ELSE IF fd = "index" THEN "gone" ELSE fd
\* An archive that is not told to the feedback log.
Saved_Silent(h) == After(h)
Saved(h) ==
  CASE hand[h].cmd = "archive" -> [hand[h] EXCEPT !.at = "event", !.next = "dismissed", !.mine = NoItems, !.fd = "none"]
    [] hand[h].cmd = "finish" -> [hand[h] EXCEPT !.at = "event", !.next = "done", !.mine = NoItems, !.fd = "none"]
    [] OTHER -> After(h)
Rename(h) ==
  /\ hand[h].at = "rename"
  /\ IF tmp.is = "none" THEN Step(h, Failed(h)) /\ UNCHANGED <<index, tmp>>
     ELSE /\ index' = tmp /\ tmp' = File("none")
          /\ hand' = [g \in Hands |-> IF g = h THEN Saved(h) ELSE [hand[g] EXCEPT !.fd = Shift(@)]]
  /\ UNCHANGED <<handoff, feedback, log, cached, begun>> /\ History
-----------------------------------------------------------------------------
(* append_event                                                              *)

WriteLine(h) ==
  /\ hand[h].at = "event"
  /\ log' = IF log = "whole" THEN "open" ELSE "glued"
  /\ feedback' = IF hand[h].next \in {"dismissed", "done", "restored"}
                 THEN [feedback EXCEPT ![hand[h].issue] = hand[h].next] ELSE feedback
  /\ Step(h, [hand[h] EXCEPT !.at = "newline"])
  /\ UNCHANGED <<index, tmp, handoff, cached, begun>> /\ History
EndLine(h) ==
  /\ hand[h].at = "newline"
  /\ log' = IF log = "open" THEN "whole" ELSE log
  /\ Step(h, CASE hand[h].next = "shown" -> [hand[h] EXCEPT !.at = "prepare"]
               [] hand[h].next = "prepared" -> [hand[h] EXCEPT !.at = "load", !.next = "ready"]
               [] OTHER -> After(h))
  /\ UNCHANGED <<index, tmp, handoff, feedback, cached, begun>> /\ History
-----------------------------------------------------------------------------
(* prepare_value_issue_with_options                                          *)

\* PrepareEventLog::create empties prepare-events.jsonl, one of the files the
\* snapshot of an earlier preparation lists.
BeginPrepare(h) ==
  /\ hand[h].at = "prepare"
  /\ begun' = begun + 1
  /\ handoff' = [handoff EXCEPT ![hand[h].issue].times = @ + 1, ![hand[h].issue].events = begun + 1]
  /\ Step(h, [hand[h] EXCEPT !.at = "workspace", !.run = begun + 1])
  /\ UNCHANGED <<index, tmp, feedback, log, cached>> /\ History
\* prepare_workspace: a git command fails, local changes are left alone, or the
\* branch of the issue is checked out.
WorkspaceOutcomes == {"error", "dirty", "ready"}
\* A failure is recorded; for a dirty workspace the user is asked and nothing is.
PrepareWorkspace(h) ==
  /\ hand[h].at = "workspace"
  /\ \E outcome \in WorkspaceOutcomes :
       Step(h, CASE outcome = "error" -> [hand[h] EXCEPT !.at = "load", !.next = "failed"]
                 [] outcome = "dirty" -> After(h)
                 [] outcome = "ready" -> [hand[h] EXCEPT !.at = "files"])
  /\ UNCHANGED homeFiles /\ History
\* write_handoff_with_events.  A write that fails is an error: the daily run
\* records a failed item for it, the prepare command does not.
WriteHandoffFiles(h) ==
  /\ hand[h].at = "files"
  /\ \/ /\ handoff' = [handoff EXCEPT ![hand[h].issue].files = hand[h].run]
        /\ Step(h, [hand[h] EXCEPT !.at = "snapshot"])
     \/ /\ Step(h, Failed(h))
        /\ UNCHANGED handoff
  /\ UNCHANGED <<index, tmp, feedback, log, cached, begun>> /\ History
\* A handoff whose snapshot of an earlier preparation is left as it is.
WriteSnapshotFile_Later(h) ==
  /\ hand[h].at = "snapshot" /\ Step(h, [hand[h] EXCEPT !.at = "event", !.next = "prepared"])
  /\ UNCHANGED homeFiles /\ History
\* ContextSnapshot::write takes the digest of every file that is there.
WriteSnapshotFile(h) ==
  /\ hand[h].at = "snapshot"
  /\ handoff' = [handoff EXCEPT ![hand[h].issue].snapshot =
       [files |-> handoff[hand[h].issue].files, events |-> handoff[hand[h].issue].events]]
  /\ Step(h, [hand[h] EXCEPT !.at = "event", !.next = "prepared"])
  /\ UNCHANGED <<index, tmp, feedback, log, cached, begun>> /\ History
-----------------------------------------------------------------------------
(* The commands.                                                             *)

Prepare(h, i) ==
  /\ Took(h, "prepare", [NoCommand EXCEPT !.at = "prepare", !.issue = i])
  /\ UNCHANGED <<homeFiles, crashed, stale>>
SetInboxStatus(h, i, cmd) ==
  /\ Took(h, cmd, [NoCommand EXCEPT !.at = "load", !.issue = i,
                                  !.next = IF cmd = "archive" THEN "archived" ELSE "done"])
  /\ UNCHANGED <<homeFiles, crashed, stale>>
RecordFeedback(h, i, kind) ==
  /\ Took(h, "feedback", [NoCommand EXCEPT !.at = "event", !.issue = i, !.next = kind])
  /\ UNCHANGED <<homeFiles, crashed, stale>>
\* daily: a ranking of at most six hours ago is used as it is, hidden issues and all,
\* unless a refresh is asked for.
Daily(h, refresh) ==
  LET list == IF refresh \/ cached = NoCache THEN Displayable ELSE cached
  IN /\ Took(h, "daily", [NoCommand EXCEPT !.at = "pick", !.todo = list, !.left = TopN])
     /\ cached' = list /\ stale' = (stale \/ list # Displayable)
     /\ UNCHANGED <<index, tmp, handoff, feedback, log, begun, crashed>>
\* daily_from_ranked: the next issue that is not in the inbox, archived items aside.
Contained(i) == index.items[i] \notin {"absent", "archived"}
Pick(h) ==
  LET todo == {i \in hand[h].todo \cap Worthy : ~Contained(i)}
      first == CHOOSE i \in todo : \A j \in todo : i <= j
  IN /\ hand[h].at = "pick"
     /\ IF hand[h].left = 0 \/ todo = {} \/ index.is # "whole" THEN Step(h, NoCommand)
        ELSE Step(h, [hand[h] EXCEPT !.at = "event", !.next = "shown", !.issue = first,
                                     !.todo = {i \in @ : i > first}, !.left = @ - 1])
     /\ UNCHANGED homeFiles /\ History
HandDies(h) ==
  /\ hand[h] # NoCommand /\ Step(h, NoCommand) /\ crashed' = TRUE
  /\ UNCHANGED <<homeFiles, commands, overlappedHome, stale>>
-----------------------------------------------------------------------------
NoHandoff == [times |-> 0, files |-> 0, events |-> 0, snapshot |-> [files |-> 0, events |-> 0]]
HomeInit ==
  /\ index = Whole(NoItems) /\ tmp = File("none") /\ log = "whole" /\ cached = NoCache /\ begun = 0
  /\ handoff = [i \in RankedIssues |-> NoHandoff] /\ feedback = [i \in RankedIssues |-> "none"]
  /\ hand = [h \in Hands |-> NoCommand] /\ commands = 0
  /\ overlappedHome = FALSE /\ crashed = FALSE /\ stale = FALSE
HomeNext ==
  \E h \in Hands :
    \/ Load(h) \/ Truncate(h) \/ Fill(h) \/ Rename(h) \/ WriteLine(h) \/ EndLine(h)
    \/ BeginPrepare(h) \/ PrepareWorkspace(h) \/ WriteHandoffFiles(h) \/ WriteSnapshotFile(h)
    \/ \E i \in RankedIssues :
         \/ Prepare(h, i)
         \/ \E cmd \in {"archive", "finish"} : SetInboxStatus(h, i, cmd)
         \/ \E kind \in {"dismissed", "restored"} : RecordFeedback(h, i, kind)
    \/ \E refresh \in BOOLEAN : Daily(h, refresh)
    \/ Pick(h) \/ HandDies(h)
HomeSpec == HomeInit /\ [][HomeNext]_homeVars
-----------------------------------------------------------------------------
\* As long as no two commands overlap, the index can be read, wherever a command
\* dies, and no item it holds is lost, whatever an interrupted one left behind.
IndexIsReadable == ~overlappedHome => index.is = "whole"
ItemsAreKept ==
  [][~overlappedHome' => \A i \in RankedIssues : index.items[i] # "absent" => index'.items[i] # "absent"]_homeVars

\* Whatever overlaps or dies: a ready item that was prepared once can be imported,
\* that is its files are there and the snapshot's digests are theirs.
ReadyHandoffsVerify ==
  \A i \in RankedIssues : index.is = "whole" /\ index.items[i] = "ready" /\ handoff[i].times = 1 =>
    /\ handoff[i].files # 0
    /\ handoff[i].snapshot = [files |-> handoff[i].files, events |-> handoff[i].events]

\* An item the user archived is not prepared by a daily run until it is restored:
\* the inbox lets archived items pass, so it is the feedback log that holds it
\* back.  A command that overlaps or dies, and a cached ranking, break this.
Preparing == {hand[h].issue : h \in {g \in Hands : hand[g].cmd = "daily" /\ hand[g].at = "prepare"}}
ArchivedStaysAway ==
  ~overlappedHome /\ ~crashed /\ ~stale =>
    \A i \in Preparing : index.items[i] = "archived" => feedback[i] = "restored"

\* The files of the home directory agree with one another: the index can be read, what
\* it calls ready can be imported, and what was archived is not brought back by the
\* next daily workflow (inbox.rs, workflow.rs, paths.rs atomic_write).
HomeIsConsistent == IndexIsReadable /\ ReadyHandoffsVerify /\ ArchivedStaysAway
=============================================================================
