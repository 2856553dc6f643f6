------------------------------- MODULE MCRecords -------------------------------
(* What commands write down, one component at a time: the comments and the   *)
(* package of an issue in the dispatch database, the files of the home       *)
(* directory, the memory store, and the tools that agents reach them by.     *)
EXTENDS Finality, MemoryHints, ToolRuntime

CONSTANTS o1, o2, k1, k2, h1, h2, m1, m2, one

TwoOperators == {o1, o2}
TwoClerks == {k1, k2}
TwoHands == {h1, h2}
TwoCurators == {m1, m2}
One == {one}

Tracking == [NoInput EXCEPT !.body = TRUE]
Silent == NoInput
Earned == [NoInput EXCEPT !.phase = "final", !.reply = TRUE, !.outcome = "success"]
Unvalidated == [Earned EXCEPT !.validation = "failed"]
Dictated == [Unvalidated EXCEPT !.body = TRUE]
Clarify == [NoInput EXCEPT !.phase = "final", !.gap = TRUE, !.reply = TRUE]
EveryKind == {Tracking, Silent, Earned, Unvalidated, Dictated, Clarify}

TwoItems == {1, 2}
FirstItem == {1}

\* A node of an agent and one of the system, found by different indexes.
TrustOf == (1 :> "agent") @@ (2 :> "system")
Matches ==
  { [found |-> (1 :> {"entity"}) @@ (2 :> {"fts"}), recent |-> {}],
    [found |-> (1 :> {"entity"}) @@ (2 :> {}), recent |-> {2}] }
Asked == {"approved", "pinned", "rejected", "tombstoned"}

AProfileEach == ("c1" :> "control") @@ ("w1" :> "worker") @@ ("s1" :> "session")
ThreeCallers == DOMAIN AProfileEach
AllSet == [exists |-> TRUE, loads |-> TRUE, token |-> TRUE]
FourSetups ==
  { AllSet, [AllSet EXCEPT !.exists = FALSE], [AllSet EXCEPT !.loads = FALSE],
    [AllSet EXCEPT !.token = FALSE] }
TwoGrades == {"ready", "triage"}
-----------------------------------------------------------------------------
VARIABLE part
recordVars == <<part, vars, packageVars, homeVars, recallVars, memoryVars, toolVars>>

RecordInit ==
  /\ part \in {"two operators", "one operator", "packages",
             "two hands", "one hand", "recall", "tools",
             "a dream", "two dreams", "two curators"}
  /\ Init /\ PackageInit /\ HomeInit /\ RecallInit /\ MemoryInit /\ ToolInit
  /\ part = "tools" \/ (setup = AllSet /\ grade = [i \in ToolIssues |-> "ready"])

\* Two operators comment in two situations, twice; one in all of them, and more often.
TwoComment ==
  /\ Next /\ item'[MaxInteractions].status = "absent"
  /\ \A p \in Operators : job'[p].basis \in {NoInput, Earned, Unvalidated}
OneComments == Next /\ pc'[o2] = "idle"

\* Clerks whose commands overlapped export after one review at most.
ClerksWork == PackageNext /\ (overlappedDesk' /\ exports' # <<>> => Len(reviews') = 1)

\* Two hands run two commands, one runs more.
TwoHandsWork == HomeNext /\ commands' <= 2
OneHandWorks == HomeNext /\ hand'[h2] = NoCommand

\* One curator reviews the hint of one dream three times, or dreams twice and
\* reviews once; two review it three times while one of them dreams.
Alone == curator'[m2] = Away
OneReview ==
  \A c \in Curators : curator[c] = Away /\ curator'[c].at \in {"read", "write"} => Changes = 0
NobodyForgets == \A c \in Curators : curator'[c].at # "forget"
Curate ==
  /\ MemoryNext
  /\ \/ part = "a dream" /\ Alone /\ Len(dreams') <= 1
     \/ part = "two dreams" /\ Alone /\ OneReview
     \/ part = "two curators" /\ Len(dreams') <= 1 /\ NobodyForgets /\ control' = NoHint

RecordNext ==
  /\ UNCHANGED part
  /\ \/ /\ \/ part = "two operators" /\ TwoComment
           \/ part = "one operator" /\ OneComments
        /\ UNCHANGED <<packageVars, homeVars, recallVars, memoryVars, toolVars>>
     \/ /\ part = "packages" /\ ClerksWork
        /\ UNCHANGED <<vars, homeVars, recallVars, memoryVars, toolVars>>
     \/ /\ \/ part = "two hands" /\ TwoHandsWork
           \/ part = "one hand" /\ OneHandWorks
        /\ UNCHANGED <<vars, packageVars, recallVars, memoryVars, toolVars>>
     \/ /\ part = "recall" /\ RecallNext
        /\ UNCHANGED <<vars, packageVars, homeVars, memoryVars, toolVars>>
     \/ /\ Curate
        /\ UNCHANGED <<vars, packageVars, homeVars, recallVars, toolVars>>
     \/ /\ part = "tools" /\ ToolNext
        /\ UNCHANGED <<vars, packageVars, homeVars, recallVars, memoryVars>>

RecordSpec == RecordInit /\ [][RecordNext]_recordVars
=============================================================================
